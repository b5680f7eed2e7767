------------------------------- MODULE MCEdge -------------------------------
(***************************************************************************)
(* Small instances of Edge over the real route table.  A request's fields   *)
(* that its route never looks at are fixed, so that they do not multiply    *)
(* the states.                                                              *)
(***************************************************************************)
EXTENDS Edge, Routes, TLC

CONSTANTS p1, p2, none, ip1, noip, o1, noorg,
          a, label, blank,            \* normal forms
          A1, A2, Label, Spaces, empty  \* spellings

MCNormalize == A1 :> a @@ A2 :> a @@ Label :> label @@ Spaces :> blank @@ empty :> blank

Request(route, ip, org, identifier, email, bearer, json) ==
    [route |-> route, ip |-> ip, org |-> org, identifier |-> identifier,
     email |-> email, bearer |-> bearer, json |-> json]

StageKinds(route) == {RouteTable[route][j].do : j \in DOMAIN RouteTable[route]}

\* The values a field takes on a route, when stage kind d reads it.
Vary(route, d, values, fixed) == IF d \in StageKinds(route) THEN values ELSE {fixed}

RequestsOf(route, ips, orgs, identifiers, emails) ==
    {Request(route, ip, org, i, e, b, j) :
        ip \in IF route = "login" THEN ips ELSE Vary(route, "ip", ips, ip1),
        org \in Vary(route, "org", orgs, noorg),
        i \in IF route = "otp_request" THEN identifiers ELSE {empty},
        e \in Vary(route, "identifier", emails, empty),
        b \in Vary(route, "bearer", BOOLEAN, TRUE),
        j \in Vary(route, "json", BOOLEAN, TRUE)}

\* One address, one organization, every route: each stage's branches.
AllRequests ==
    UNION {RequestsOf(route, {ip1, noip}, {o1, noorg}, {empty, Spaces}, {A1, Label}) :
           route \in DOMAIN RouteTable}

\* Two routes that share the identifier budget, for one person in two spellings
\* and in either field.
IdentifierRequests ==
    {Request("otp_request", ip1, noorg, A2, Label, TRUE, TRUE),
     Request("ownership_challenge", ip1, noorg, empty, A1, TRUE, TRUE)}

\* And two that share an organization's budget.
SharedRequests ==
    IdentifierRequests
    \cup {Request(route, ip1, o1, empty, empty, TRUE, TRUE) :
            route \in {"member_list", "member_add"}}

\* Limits scaled down.  Zero policies stay zero; with Scaled, the identifier
\* limit stays below every other one.
BucketNames ==
    UNION {{RouteTable[r][j].name : j \in DOMAIN RouteTable[r]} : r \in DOMAIN RouteTable}

Tight == [n \in BucketNames |-> IF SourceLimit(n) = 0 THEN 0 ELSE 1]

Scaled == [n \in BucketNames |->
              CASE SourceLimit(n) = 0 -> 0
                [] SourceLimit(n) = SourceLimit("identifier") -> 1
                [] OTHER -> 2]

\* Goroutines are interchangeable; used by the runs that check invariants only.
Symmetry == Permutations(Procs)
=============================================================================
