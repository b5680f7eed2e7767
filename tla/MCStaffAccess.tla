--------------------------- MODULE MCStaffAccess ---------------------------
(***************************************************************************)
(* Small instances of StaffAccess: the nestings the repository's tests       *)
(* mount and the ones they leave out, and one credential of each kind.      *)
(***************************************************************************)
EXTENDS StaffAccess

JWTWith(by, sub, staffSubject, isStaff, reason, orgID) ==
    [kind |-> "jwt", signedBy |-> by, sub |-> sub, staffSubject |-> staffSubject,
     isStaff |-> isStaff, breakGlass |-> staffSubject # "", reason |-> reason,
     org |-> "", orgID |-> orgID, targetOrg |-> "acme"]

APIToken(user, scopes) == [kind |-> "oat", user |-> user, scopes |-> scopes]

NoBearer == [kind |-> "none"]

Tenant    == JWTWith("s1", "alice", "", FALSE, "", "")
Staff     == JWTWith("s1", "u7", "carol", TRUE, "INC-1", "beta")
StaffSub  == JWTWith("s2", "dave", "", TRUE, "", "")
Nameless  == JWTWith("s2", "", "", TRUE, "INC-2", "")
NoSubject == JWTWith("s1", "", "", FALSE, "", "")
Unsigned  == JWTWith("", "eve", "eve", TRUE, "INC-3", "")

\* A request with an organization in the header, and one in the path when it
\* writes.  The method matters to API tokens only.
RequestFor(chain, cred, write) ==
    [chain |-> chain, cred |-> cred, write |-> write, xUserID |-> "client",
     pathOrg |-> IF write THEN "acme" ELSE "", headerOrg |-> "hdr"]

\* Each nesting with the callers it tells apart: a hook inside one layer, inside
\* two and outside; the staff gate inside and outside Dual, and alone before the
\* break-glass handler; that handler without the gate.
AllRequests ==
    {RequestFor(<<"Dual", "AuditHook", "app">>, c, TRUE) :
        c \in {NoBearer, APIToken("bob", {"read"}), Tenant, Staff, NoSubject, Unsigned}}
    \cup {RequestFor(<<"Dual", "AuditHook", "app">>, APIToken("bob", {"read"}), FALSE)}
    \cup {RequestFor(<<"Dual", "AuditHook", "RequireStaff", "AuditHook", "app">>, c, TRUE) :
            c \in {APIToken("bob", {}), Tenant, Staff, Nameless}}
    \cup {RequestFor(<<"AuditHook", "JWT", "app">>, c, TRUE) : c \in {Tenant, Staff}}
    \cup {RequestFor(<<"RequireStaff", "Dual", "app">>, c, TRUE) :
            c \in {APIToken("bob", {}), Staff, StaffSub}}
    \cup {RequestFor(<<"RequireStaff", "AuditHook", "HandleStaffBreakGlass">>, c, TRUE) :
            c \in {Tenant, Staff, StaffSub, Nameless, Unsigned}}
    \cup {RequestFor(<<"JWT", "HandleStaffBreakGlass">>, c, FALSE) : c \in {Tenant, Staff}}

\* One secret, two secrets, a staff secret alone, none.
AllConfigs == [secret : {"", "s1"}, staffSecret : {"", "s2"}]
=============================================================================
