------------------------- MODULE StaffAccessProofs -------------------------
(***************************************************************************)
(* Theorems about StaffAccess, for every nesting of the layers, every       *)
(* credential and any number of requests and goroutines.                    *)
(*                                                                          *)
(* The argument is that a context carries no history: however many layers   *)
(* looked at the token, it is the background context or the one identity    *)
(* the credential stands for (Vetted).  What a handler, a hook or the       *)
(* break-glass record sees follows from that.  That somebody vouches for    *)
(* what was let through (VInv) comes on top of it: a token only ever loses  *)
(* its validity, so one that a layer parses was genuine when it arrived, and*)
(* an API token goes on only with an identity.  AuditComplete is a balance  *)
(* on top of it: entries written and hooks still to run make up the hooks   *)
(* passed behind an authenticating layer.                                   *)
(***************************************************************************)
EXTENDS StaffAccess, FiniteSetTheorems, TLAPS

\* The context an accepted credential leads to.
Identity(c) ==
    IF c.kind = "oat" THEN [Background EXCEPT !.user = c.user]
                      ELSE enrichContext(Background, c, Subject(c))

Contexts == {Background} \cup {Identity(c) : c \in {d \in Credentials : d.kind # "none"}}

Headers == {Empty} \cup {r.xUserID : r \in Requests} \cup {x.user : x \in Contexts}

Jobs ==
    [id : Nat, at : Nat, phase : Phases, ctx : Contexts, hooks : Seq(Contexts),
     xUserID : Headers, status : Nat]

\* There is a token at all.
Shown(c) == c.kind # "none"

-----------------------------------------------------------------------------
\* A job j on its way through the chain of request r.

\* The layer let it through.
Through(j, r, layer) == \E i \in 1..(j.at - 1) : r.chain[i] = layer

\* Some authenticating layer did.
Known(j, r) == \E i \in 1..(j.at - 1) : r.chain[i] \in Authenticating

\* Its context is the one of its credential, and each layer's demand was met.
Vetted(j, r) ==
    /\ j.at \in DOMAIN r.chain
    /\ j.ctx = IF Known(j, r) THEN Identity(r.cred) ELSE Background
    /\ Known(j, r) => /\ Shown(r.cred)
                      /\ r.cred.kind = "oat" => scopesAllow(r.write, r.cred.scopes)
    /\ Through(j, r, "RequireStaff") => OfStaff(r.cred)
    /\ Through(j, r, "Dual") => j.xUserID = j.ctx.user

\* The hooks it passed were given the background context or its identity.
HooksVetted(j, r) ==
    \A k \in DOMAIN j.hooks :
        j.hooks[k] = Background \/ (Known(j, r) /\ j.hooks[k] = Identity(r.cred))

\* Staff with a reason, and the access is in the log.
Recorded(j, r) ==
    /\ j.ctx.isStaff /\ j.ctx.reason # Empty
    /\ hasAudit => \E i \in DOMAIN log :
                      /\ log[i].id = j.id /\ log[i].breakGlass
                      /\ log[i].action = "break_glass.access"
                      /\ log[i].reason = j.ctx.reason
                      /\ log[i].org = OrgOf(j.ctx, r)

\* Its phase, status and place fit together.
Placed(j, r) ==
    /\ j.phase \in {"down", "validate", "grant"} => j.status = 0
    /\ j.phase = "validate" => r.chain[j.at] = "Dual" /\ r.cred.kind = "oat"
    /\ j.phase = "grant" => r.chain[j.at] = "HandleStaffBreakGlass" /\ Recorded(j, r)
    /\ j.phase = "done" => j.hooks = <<>>
    /\ j.phase = "up" => j.hooks # <<>>
    /\ j.status = 401 /\ r.chain[j.at] = "RequireStaff" => j.ctx.user = Empty /\ ~j.ctx.isStaff
    /\ j.status = 200 /\ Has(r, "HandleStaffBreakGlass") => Recorded(j, r)

JobOK(j, r) == Vetted(j, r) /\ HooksVetted(j, r) /\ Placed(j, r)

-----------------------------------------------------------------------------
\* The state.

JobsOK ==
    /\ job \in [Procs -> Jobs]
    /\ \A p \in Procs : IF job[p].id = 0 THEN job[p] = NoJob
                        ELSE job[p].id \in DOMAIN sent /\ JobOK(job[p], Request(p))

\* No two goroutines serve the same request.
OwnRequests == \A p, q \in Procs : job[p].id = job[q].id /\ job[p].id # 0 => p = q

\* What a handler was given.
HandledOK ==
    \A h \in handled :
        /\ h.id \in DOMAIN sent
        /\ Guarded(sent[h.id]) =>
              /\ h.ctx = Identity(sent[h.id].cred)
              /\ Shown(sent[h.id].cred)
              /\ sent[h.id].cred.kind = "oat" => scopesAllow(sent[h.id].write, sent[h.id].cred.scopes)
        /\ Has(sent[h.id], "RequireStaff") => OfStaff(sent[h.id].cred)
        /\ Has(sent[h.id], "Dual") => h.xUserID = h.ctx.user

\* The two records the middleware writes for request n.
HookRecord(n, r, ctx) ==
    [id |-> n, action |-> "request",
     actor |-> IF ctx.isStaff THEN Or(ctx.staffSubject, ctx.user) ELSE ctx.user,
     actorType |-> IF ctx.isStaff THEN "staff" ELSE "user",
     breakGlass |-> ctx.breakGlass, reason |-> ctx.reason, org |-> OrgOf(ctx, r)]

GrantRecord(n, r, ctx) ==
    [id |-> n, action |-> "break_glass.access", actor |-> ctx.staffSubject,
     actorType |-> "staff", breakGlass |-> TRUE, reason |-> ctx.reason, org |-> OrgOf(ctx, r)]

Entries ==
    {HookRecord(n, r, ctx) : n \in Nat, r \in Requests, ctx \in Contexts}
    \cup {GrantRecord(n, r, ctx) : n \in Nat, r \in Requests, ctx \in Contexts}

LogOK == log \in Seq(Entries) /\ \A i \in DOMAIN log : log[i].id \in DOMAIN sent

\* What the log says of request r in entry e is true.
Truthful(e, r) ==
    /\ Guarded(r) /\ Shown(r.cred)
    /\ e.actor = AuditName(r.cred)
    /\ e.actorType = "staff" <=> OfStaff(r.cred)
    /\ e.reason # Empty => OfStaff(r.cred) /\ e.reason = r.cred.reason
    /\ IF OfStaff(r.cred) /\ TargetOrg(r.cred) # Empty
         THEN e.org = TargetOrg(r.cred)
         ELSE e.org \in {r.pathOrg, r.headerOrg}

LogTruthful == \A i \in DOMAIN log : Truthful(log[i], sent[log[i].id])

IInv ==
    /\ {secret, staffSecret} \subseteq Secrets /\ hasAudit \in BOOLEAN
    /\ expired \subseteq Credentials /\ sent \in Seq(Requests)
    /\ JobsOK /\ OwnRequests /\ HandledOK /\ LogOK /\ LogTruthful

-----------------------------------------------------------------------------
\* Who is vouched for.

\* A token that still is genuine was when its request arrived.
GenuineVouched == \A i \in DOMAIN sent : Genuine(sent[i].cred) => i \in vouched

\* No authenticating layer lets a request through that nobody vouches for.
JobsVouched ==
    \A p \in Procs : job[p].id # 0 /\ Known(job[p], Request(p)) => job[p].id \in vouched

HandledVouched == \A h \in handled : Guarded(sent[h.id]) => h.id \in vouched

LogVouched == \A i \in DOMAIN log : log[i].id \in vouched

VInv ==
    /\ IInv
    /\ vouched \subseteq DOMAIN sent
    /\ GenuineVouched /\ JobsVouched /\ HandledVouched /\ LogVouched

-----------------------------------------------------------------------------
\* The balance of the audit log.

\* The hooks still to run that were given the caller.
Owed(j) == {k \in DOMAIN j.hooks : j.hooks[k] # Background}

\* The hooks behind an authenticating layer that were passed.
HooksPassed(j, r) == {i \in InnerHooks(r) : i < j.at}

\* What the log has of a named caller's request and what the hooks will still add
\* is what the hooks it passed owe.
JobBalanced(j, r) ==
    AuditName(r.cred) # Empty =>
        Cardinality(EntriesOf(j.id)) + Cardinality(Owed(j)) = Cardinality(HooksPassed(j, r))

Balanced == \A p \in Procs : job[p].id # 0 => JobBalanced(job[p], Request(p))

\* A handled request is still at its handler or completely recorded.
Settled ==
    \A h \in handled :
        /\ \A p \in Procs : job[p].id = h.id => Request(p).chain[job[p].at] \in Handlers
        /\ (\A p \in Procs : job[p].id # h.id) /\ AuditName(sent[h.id].cred) # Empty =>
              Cardinality(EntriesOf(h.id)) = Cardinality(InnerHooks(sent[h.id]))

CInv == IInv /\ (hasAudit => Balanced /\ Settled)

-----------------------------------------------------------------------------
\* Identities.

\* Records with the fields of a context; equal when their fields are.
ContextsOver(S) ==
    [user : S, isStaff : S, staffSubject : S, breakGlass : S, reason : S, org : S]

\* A context is what its getters return.
LEMMA ContextFields ==
    ASSUME NEW S, NEW x \in ContextsOver(S), NEW y \in ContextsOver(S),
           x.user = y.user, x.isStaff = y.isStaff, x.staffSubject = y.staffSubject,
           x.breakGlass = y.breakGlass, x.reason = y.reason, x.org = y.org
    PROVE  x = y
  BY DEF ContextsOver

\* What an API token stands for: its user, and never staff.
LEMMA TokenIdentity ==
    ASSUME NEW c, c.kind = "oat"
    PROVE  /\ Identity(c).user = c.user /\ ~Identity(c).isStaff
           /\ Identity(c).reason = Empty /\ Identity(c).org = Empty
           /\ \A ctx \in {Background, Identity(c)} :
                 [ctx EXCEPT !.user = c.user, !.isStaff = FALSE] = Identity(c)
  <1> DEFINE no == FALSE
             start == [user |-> Empty, isStaff |-> no, staffSubject |-> Empty,
                       breakGlass |-> no, reason |-> Empty, org |-> Empty]
             id    == [user |-> c.user, isStaff |-> no, staffSubject |-> Empty,
                       breakGlass |-> no, reason |-> Empty, org |-> Empty]
  <1>1. Background = start /\ ~no
    BY DEF Background
  <1>2. \A ctx : [ctx EXCEPT !.user = c.user, !.isStaff = FALSE]
                  = [ctx EXCEPT !.user = c.user, !.isStaff = no]
    OBVIOUS
  <1> HIDE DEF no
  <1>3. [start EXCEPT !.user = c.user] = id
    OBVIOUS
  <1>4. Identity(c) = id
    BY <1>1, <1>3 DEF Identity
  <1>5. id.user = c.user /\ id.isStaff = no /\ id.reason = Empty /\ id.org = Empty
    OBVIOUS
  <1>6. ASSUME NEW ctx \in {start, id}
        PROVE  [ctx EXCEPT !.user = c.user, !.isStaff = no] = id
    <2> DEFINE S   == {c.user, Empty, no}
               new == [ctx EXCEPT !.user = c.user, !.isStaff = no]
    <2>1. ctx \in ContextsOver(S) /\ id \in ContextsOver(S)
      BY DEF ContextsOver
    <2>2. /\ ctx.staffSubject = id.staffSubject /\ ctx.breakGlass = id.breakGlass
          /\ ctx.reason = id.reason /\ ctx.org = id.org /\ id.user = c.user /\ id.isStaff = no
      OBVIOUS
    <2>3. c.user \in S /\ no \in S
      OBVIOUS
    <2> HIDE DEF S, start, id
    <2>4. /\ new \in ContextsOver(S)
          /\ new.user = c.user /\ new.isStaff = no /\ new.staffSubject = ctx.staffSubject
          /\ new.breakGlass = ctx.breakGlass /\ new.reason = ctx.reason /\ new.org = ctx.org
      BY <2>1, <2>3 DEF ContextsOver
    <2> HIDE DEF new
    <2>5. new = id
      BY <2>1, <2>2, <2>4, ContextFields
    <2> QED BY <2>5 DEF new
  <1> HIDE DEF id, start
  <1>7. ASSUME NEW ctx \in {Background, Identity(c)}
        PROVE  [ctx EXCEPT !.user = c.user, !.isStaff = FALSE] = Identity(c)
    <2>1. [ctx EXCEPT !.user = c.user, !.isStaff = no] = id
      BY <1>1, <1>4, <1>6
    <2> QED BY <1>2, <1>4, <2>1, Zenon
  <1>8. /\ Identity(c).user = c.user /\ ~Identity(c).isStaff
        /\ Identity(c).reason = Empty /\ Identity(c).org = Empty
    BY <1>1, <1>4, <1>5
  <1> QED BY <1>7, <1>8, Zenon

\* What a JWT stands for.
LEMMA JWTIdentity ==
    ASSUME NEW c, c.kind = "jwt"
    PROVE  /\ Identity(c).user = Subject(c)
           /\ Identity(c).isStaff <=> IsStaff(c)
           /\ IsStaff(c) => /\ Identity(c).staffSubject = Or(StaffSubject(c), Subject(c))
                            /\ Identity(c).reason = c.reason
                            /\ Identity(c).org = Or(TargetOrg(c), Empty)
           /\ ~IsStaff(c) => Identity(c).reason = Empty /\ Identity(c).org = Empty
  <1>1. CASE IsStaff(c)
    BY <1>1 DEF Identity, Background, enrichContext
  <1>2. CASE ~IsStaff(c)
    BY <1>2 DEF Identity, Background, enrichContext
  <1> QED BY <1>1, <1>2

\* Looking at the token again changes nothing.
LEMMA SameContextAgain ==
    ASSUME NEW c, c.kind = "jwt", NEW ctx \in {Background, Identity(c)}
    PROVE  enrichContext(ctx, c, Subject(c)) = Identity(c)
  <1>1. Identity(c) = enrichContext(Background, c, Subject(c))
    BY DEF Identity
  <1>2. CASE ctx = Background
    BY <1>1, <1>2
  <1>3. CASE ctx = Identity(c) /\ IsStaff(c)
    BY <1>1, <1>3 DEF enrichContext, Background, Or
  <1>4. CASE ctx = Identity(c) /\ ~IsStaff(c)
    BY <1>1, <1>4 DEF enrichContext, Background
  <1> QED BY <1>2, <1>3, <1>4

\* Nobody is known before authentication.
LEMMA BackgroundFacts ==
    /\ Background.user = Empty /\ ~Background.isStaff /\ Background.staffSubject = Empty
    /\ Background.reason = Empty /\ Background.org = Empty
  BY DEF Background

\* The contexts of a job are contexts.
LEMMA ContextType ==
    /\ Background \in Contexts
    /\ \A r \in Requests : r.cred.kind # "none" => Identity(r.cred) \in Contexts
    /\ NoJob \in Jobs
  <1>1. Background \in Contexts
    BY DEF Contexts
  <1>2. \A r \in Requests : r.cred.kind # "none" => Identity(r.cred) \in Contexts
    BY DEF Contexts, Credentials
  <1>3. NoJob \in Jobs
    BY <1>1 DEF NoJob, Jobs, Phases, Headers
  <1> QED BY <1>1, <1>2, <1>3

\* The record a hook makes of an identity names the caller.
LEMMA HookNames ==
    ASSUME NEW c, c.kind \in {"oat", "jwt"}, NEW r, NEW n, r.cred = c
    PROVE  LET e == HookRecord(n, r, Identity(c)) IN
           /\ e.actor = AuditName(c)
           /\ e.actorType = "staff" <=> OfStaff(c)
           /\ e.reason # Empty => OfStaff(c) /\ e.reason = c.reason
           /\ IF OfStaff(c) /\ TargetOrg(c) # Empty THEN e.org = TargetOrg(c)
                                                    ELSE e.org \in {r.pathOrg, r.headerOrg}
  <1> DEFINE i == Identity(c)
             e == HookRecord(n, r, i)
  <1>1. /\ e.actor = IF i.isStaff THEN Or(i.staffSubject, i.user) ELSE i.user
        /\ e.actorType = IF i.isStaff THEN "staff" ELSE "user"
        /\ e.reason = i.reason /\ e.org = Or(Or(i.org, r.pathOrg), r.headerOrg)
    BY DEF HookRecord, OrgOf
  <1> HIDE DEF e
  <1>2. e.actor = AuditName(c) /\ (e.actorType = "staff" <=> OfStaff(c))
    <2>1. CASE c.kind = "oat"
      <3>1. e.actor = i.user /\ e.actorType = "user"
        BY <1>1, <2>1, TokenIdentity
      <3> QED BY <2>1, <3>1, TokenIdentity DEF AuditName, OfStaff
    <2>2. CASE c.kind = "jwt" /\ IsStaff(c)
      <3>1. e.actor = Or(i.staffSubject, i.user) /\ e.actorType = "staff"
        BY <1>1, <2>2, JWTIdentity
      <3> QED BY <2>2, <3>1, JWTIdentity DEF AuditName, OfStaff, Or, StaffSubject, Subject
    <2>3. CASE c.kind = "jwt" /\ ~IsStaff(c)
      <3>1. e.actor = i.user /\ e.actorType = "user"
        BY <1>1, <2>3, JWTIdentity
      <3> QED BY <2>3, <3>1, JWTIdentity DEF AuditName, OfStaff, Or, Subject, IsStaff
    <2> QED BY <2>1, <2>2, <2>3
  <1>3. /\ e.reason # Empty => OfStaff(c) /\ e.reason = c.reason
        /\ IF OfStaff(c) /\ TargetOrg(c) # Empty THEN e.org = TargetOrg(c)
                                                 ELSE e.org \in {r.pathOrg, r.headerOrg}
    BY <1>1, TokenIdentity, JWTIdentity DEF OfStaff, Or
  <1> QED BY <1>2, <1>3 DEF e

\* So does the record of a break-glass access by staff.
LEMMA GrantNames ==
    ASSUME NEW c, c.kind = "jwt", IsStaff(c), NEW r, NEW n, r.cred = c
    PROVE  LET e == GrantRecord(n, r, Identity(c)) IN
           /\ e.actor = AuditName(c)
           /\ e.actorType = "staff" <=> OfStaff(c)
           /\ e.reason # Empty => OfStaff(c) /\ e.reason = c.reason
           /\ IF OfStaff(c) /\ TargetOrg(c) # Empty THEN e.org = TargetOrg(c)
                                                    ELSE e.org \in {r.pathOrg, r.headerOrg}
  <1> DEFINE i == Identity(c)
             e == GrantRecord(n, r, i)
  <1>1. /\ e.actor = i.staffSubject /\ e.actorType = "staff"
        /\ e.reason = i.reason /\ e.org = Or(Or(i.org, r.pathOrg), r.headerOrg)
    BY DEF GrantRecord, OrgOf
  <1> HIDE DEF e
  <1>2. /\ e.actor = AuditName(c)
        /\ e.actorType = "staff" <=> OfStaff(c)
        /\ e.reason # Empty => OfStaff(c) /\ e.reason = c.reason
        /\ IF OfStaff(c) /\ TargetOrg(c) # Empty THEN e.org = TargetOrg(c)
                                                 ELSE e.org \in {r.pathOrg, r.headerOrg}
    BY <1>1, JWTIdentity DEF AuditName, OfStaff, Or, StaffSubject, Subject
  <1> QED BY <1>2 DEF e

-----------------------------------------------------------------------------
\* A job on its way.

\* The handler is the last layer, and only it.
LEMMA ChainFacts ==
    ASSUME NEW r \in Requests, NEW i \in DOMAIN r.chain
    PROVE  /\ i \in Nat /\ i >= 1 /\ i <= Len(r.chain) /\ Len(r.chain) \in Nat
           /\ r.chain[i] \in Handlers <=> i = Len(r.chain)
           /\ r.chain[i] \notin Handlers =>
                 i + 1 \in DOMAIN r.chain /\ r.chain[i] \in Authenticating \cup {"AuditHook"}
           /\ DOMAIN r.chain = 1..Len(r.chain)
  <1>1. r.chain \in Seq(Authenticating \cup {"AuditHook"} \cup Handlers)
    BY ChainsAssumption
  <1>2. DOMAIN r.chain = 1..Len(r.chain) /\ Len(r.chain) \in Nat
    BY <1>1
  <1>3. IF i = Len(r.chain) THEN r.chain[i] \in Handlers
                            ELSE r.chain[i] \in Authenticating \cup {"AuditHook"}
    BY ChainsAssumption
  <1>4. r.chain[i] \in Handlers => r.chain[i] \notin Authenticating \cup {"AuditHook"}
    BY DEF Handlers, Authenticating
  <1> QED BY <1>2, <1>3, <1>4

\* A token is of one of the two kinds.
LEMMA ShownKind ==
    ASSUME NEW r \in Requests
    PROVE  /\ r.cred.kind \in {"none", "oat", "jwt"}
           /\ Shown(r.cred) => r.cred.kind \in {"oat", "jwt"}
           /\ parseToken(r.cred) => r.cred.kind = "jwt" /\ Shown(r.cred)
  BY CredentialsAssumption DEF Shown, parseToken

\* A job that is staff has been authenticated as staff.
LEMMA StaffIsKnown ==
    ASSUME NEW r \in Requests, NEW j, Vetted(j, r), j.ctx.isStaff
    PROVE  /\ Known(j, r) /\ j.ctx = Identity(r.cred)
           /\ r.cred.kind = "jwt" /\ IsStaff(r.cred) /\ OfStaff(r.cred)
  <1>1. Known(j, r) /\ j.ctx = Identity(r.cred)
    BY BackgroundFacts DEF Vetted
  <1>2. r.cred.kind = "jwt"
    BY <1>1, ShownKind, TokenIdentity DEF Vetted
  <1>3. IsStaff(r.cred)
    BY <1>1, <1>2, JWTIdentity
  <1> QED BY <1>1, <1>2, <1>3 DEF OfStaff

\* What is true of a job stays true while the log grows.
LEMMA JobOKKept ==
    ASSUME NEW j, NEW r, JobOK(j, r), UNCHANGED config,
           \A i \in DOMAIN log : i \in DOMAIN log' /\ log'[i] = log[i]
    PROVE  JobOK(j, r)'
  <1>1. UNCHANGED <<secret, staffSecret, hasAudit>>
    BY DEF config
  <1>2. Vetted(j, r)' /\ HooksVetted(j, r)'
    BY <1>1 DEF JobOK, Vetted, HooksVetted, Known, Through, OfStaff, Identity
  <1>3. Recorded(j, r) => Recorded(j, r)'
    BY <1>1 DEF Recorded
  <1>4. Placed(j, r)'
    BY <1>3 DEF JobOK, Placed, Has
  <1> QED BY <1>2, <1>4 DEF JobOK

\* An answer given where the request stands.
LEMMA AnswerOK ==
    ASSUME NEW r \in Requests, NEW j \in Jobs, JobOK(j, r), NEW k \in Jobs,
           k.id = j.id, k.at = j.at, k.ctx = j.ctx, k.hooks = j.hooks, k.xUserID = j.xUserID,
           k.phase = IF j.hooks = <<>> THEN "done" ELSE "up",
           k.status = 401 /\ r.chain[j.at] = "RequireStaff" => j.ctx.user = Empty /\ ~j.ctx.isStaff,
           k.status = 200 /\ Has(r, "HandleStaffBreakGlass") => Recorded(j, r)
    PROVE  JobOK(k, r)
  <1>1. Vetted(k, r) /\ HooksVetted(k, r)
    BY DEF JobOK, Vetted, HooksVetted, Known, Through
  <1>2. Recorded(j, r) => Recorded(k, r)
    BY DEF Recorded
  <1>3. Placed(k, r)
    BY <1>2 DEF Placed
  <1> QED BY <1>1, <1>3 DEF JobOK

\* Going on by one layer.
LEMMA OneFurther ==
    ASSUME NEW r \in Requests, NEW j \in Jobs, NEW k \in Jobs,
           j.at \in DOMAIN r.chain, k.at = j.at + 1
    PROVE  /\ Known(k, r) <=> Known(j, r) \/ r.chain[j.at] \in Authenticating
           /\ \A layer : Through(k, r, layer) <=> Through(j, r, layer) \/ r.chain[j.at] = layer
  <1>1. 1..(k.at - 1) = 1..(j.at - 1) \cup {j.at}
    BY ChainFacts
  <1> QED BY <1>1 DEF Known, Through

\* An authenticating layer hands the request on with the identity it verified.
LEMMA PassOK ==
    ASSUME NEW r \in Requests, NEW j \in Jobs, JobOK(j, r), NEW k \in Jobs,
           r.chain[j.at] \in Authenticating, j.status = 0,
           k.id = j.id, k.at = j.at + 1, k.hooks = j.hooks, k.phase = "down", k.status = j.status,
           k.ctx = Identity(r.cred), Shown(r.cred),
           r.cred.kind = "oat" => scopesAllow(r.write, r.cred.scopes),
           r.chain[j.at] = "RequireStaff" => OfStaff(r.cred),
           IF r.chain[j.at] = "Dual" THEN k.xUserID = k.ctx.user ELSE k.xUserID = j.xUserID
    PROVE  JobOK(k, r)
  <1>1. /\ j.at \in DOMAIN r.chain /\ j.at + 1 \in DOMAIN r.chain
    BY ChainFacts DEF JobOK, Vetted, Authenticating, Handlers
  <1>2. Known(k, r)
    BY <1>1, OneFurther
  <1>3. Through(k, r, "RequireStaff") => OfStaff(r.cred)
    BY <1>1, OneFurther DEF JobOK, Vetted
  <1>4. Through(k, r, "Dual") => k.xUserID = k.ctx.user
    <2>1. Through(j, r, "Dual") => Known(j, r)
      BY DEF Through, Known, Authenticating
    <2> QED BY <1>1, <2>1, OneFurther DEF JobOK, Vetted
  <1>5. Vetted(k, r)
    BY <1>1, <1>2, <1>3, <1>4 DEF Vetted
  <1>6. HooksVetted(k, r)
    BY <1>2 DEF JobOK, HooksVetted
  <1>7. Placed(k, r)
    BY DEF Placed
  <1> QED BY <1>5, <1>6, <1>7 DEF JobOK

\* AuditHook hands on the context it was given and keeps it.
LEMMA HookOK ==
    ASSUME NEW r \in Requests, NEW j \in Jobs, JobOK(j, r), NEW k \in Jobs,
           r.chain[j.at] = "AuditHook", j.phase = "down",
           k.id = j.id, k.at = j.at + 1, k.ctx = j.ctx, k.hooks = Append(j.hooks, j.ctx),
           k.phase = "down", k.status = j.status, k.xUserID = j.xUserID
    PROVE  JobOK(k, r)
  <1>1. /\ j.at \in DOMAIN r.chain /\ j.at + 1 \in DOMAIN r.chain
        /\ r.chain[j.at] \notin Authenticating
    BY ChainFacts DEF JobOK, Vetted, Authenticating, Handlers
  <1>2. /\ Known(k, r) <=> Known(j, r)
        /\ Through(k, r, "RequireStaff") <=> Through(j, r, "RequireStaff")
        /\ Through(k, r, "Dual") <=> Through(j, r, "Dual")
    BY <1>1, OneFurther
  <1>3. Vetted(k, r)
    BY <1>1, <1>2 DEF JobOK, Vetted
  <1>4. HooksVetted(k, r)
    <2>1. j.hooks \in Seq(Contexts) /\ j.ctx \in Contexts
      BY DEF Jobs
    <2> SUFFICES ASSUME NEW i \in DOMAIN k.hooks
                 PROVE  k.hooks[i] = Background \/ (Known(k, r) /\ k.hooks[i] = Identity(r.cred))
      BY DEF HooksVetted
    <2>2. CASE i \in DOMAIN j.hooks
      BY <1>2, <2>1, <2>2 DEF JobOK, HooksVetted
    <2>3. CASE i = Len(j.hooks) + 1
      BY <1>2, <2>1, <2>3 DEF JobOK, Vetted
    <2> QED BY <2>1, <2>2, <2>3
  <1>5. Placed(k, r)
    BY DEF JobOK, Placed
  <1> QED BY <1>3, <1>4, <1>5 DEF JobOK

\* A hook that has run is forgotten.
LEMMA LeaveOK ==
    ASSUME NEW r \in Requests, NEW j \in Jobs, JobOK(j, r), NEW k \in Jobs,
           j.hooks # <<>>, j.phase = "up",
           k.id = j.id, k.at = j.at, k.ctx = j.ctx, k.xUserID = j.xUserID, k.status = j.status,
           k.hooks = SubSeq(j.hooks, 1, Len(j.hooks) - 1),
           k.phase = IF k.hooks = <<>> THEN "done" ELSE "up"
    PROVE  JobOK(k, r)
  <1>1. Vetted(k, r)
    BY DEF JobOK, Vetted, Known, Through
  <1>2. HooksVetted(k, r)
    <2>1. j.hooks \in Seq(Contexts)
      BY DEF Jobs
    <2>2. \A i \in DOMAIN k.hooks : i \in DOMAIN j.hooks /\ k.hooks[i] = j.hooks[i]
      BY <2>1
    <2> QED BY <2>2 DEF JobOK, HooksVetted, Known
  <1>3. Recorded(j, r) => Recorded(k, r)
    BY DEF Recorded
  <1>4. Placed(k, r)
    BY <1>3 DEF JobOK, Placed
  <1> QED BY <1>1, <1>2, <1>4 DEF JobOK

-----------------------------------------------------------------------------
\* How a step changes the job of its goroutine.

\* A goroutine that is not done serves a request.
LEMMA Serving ==
    ASSUME IInv, NEW p \in Procs, job[p].phase # "done"
    PROVE  /\ job[p].id # 0 /\ job[p] \in Jobs /\ job[p].id \in DOMAIN sent
           /\ Request(p) \in Requests /\ JobOK(job[p], Request(p))
  <1>1. job[p].id # 0
    BY DEF IInv, JobsOK, NoJob
  <1>2. job[p] \in Jobs /\ job[p].id \in DOMAIN sent /\ JobOK(job[p], Request(p))
    BY <1>1 DEF IInv, JobsOK
  <1>3. Request(p) \in Requests
    BY <1>2 DEF IInv, Request
  <1> QED BY <1>1, <1>2, <1>3

\* So does one that enters a layer.
LEMMA Entering ==
    ASSUME IInv, NEW p \in Procs, NEW layer, Enters(p, layer)
    PROVE  /\ job[p].phase = "down" /\ job[p].status = 0
           /\ Request(p).chain[job[p].at] = layer
           /\ job[p].id # 0 /\ job[p] \in Jobs /\ job[p].id \in DOMAIN sent
           /\ Request(p) \in Requests /\ JobOK(job[p], Request(p))
  BY Serving DEF Enters, JobOK, Placed

\* An answer changes status and phase.
LEMMA AnswerShape ==
    ASSUME IInv, NEW p \in Procs, NEW status \in Nat, Answer(p, status)
    PROVE  /\ job' \in [Procs -> Jobs] /\ \A q \in Procs \ {p} : job'[q] = job[q]
           /\ job'[p].id = job[p].id /\ job'[p].at = job[p].at /\ job'[p].ctx = job[p].ctx
           /\ job'[p].hooks = job[p].hooks /\ job'[p].xUserID = job[p].xUserID
           /\ job'[p].status = status
           /\ job'[p].phase = IF job[p].hooks = <<>> THEN "done" ELSE "up"
  <1> DEFINE ph == IF job[p].hooks = <<>> THEN "done" ELSE "up"
  <1>1. job \in [Procs -> Jobs] /\ ph \in Phases
    BY DEF IInv, JobsOK, Phases
  <1>2. job' = [job EXCEPT ![p] = [job[p] EXCEPT !.status = status, !.phase = ph]]
    BY <1>1 DEF Answer, Jobs
  <1> HIDE DEF ph
  <1>3. job[p] \in Jobs
    BY <1>1
  <1> DEFINE k == [job[p] EXCEPT !.status = status, !.phase = ph]
  <1>4. /\ k \in Jobs /\ k.id = job[p].id /\ k.at = job[p].at /\ k.ctx = job[p].ctx
        /\ k.hooks = job[p].hooks /\ k.xUserID = job[p].xUserID
        /\ k.status = status /\ k.phase = ph
    BY <1>1, <1>3 DEF Jobs
  <1> HIDE DEF k
  <1>5. job' \in [Procs -> Jobs] /\ job'[p] = k /\ \A q \in Procs \ {p} : job'[q] = job[q]
    BY <1>1, <1>2, <1>4 DEF k
  <1> QED BY <1>4, <1>5 DEF ph

\* Handing on changes context and place.
LEMMA ForwardShape ==
    ASSUME IInv, NEW p \in Procs, NEW ctx \in Contexts, Forward(p, ctx)
    PROVE  /\ job' \in [Procs -> Jobs] /\ \A q \in Procs \ {p} : job'[q] = job[q]
           /\ job'[p].id = job[p].id /\ job'[p].at = job[p].at + 1 /\ job'[p].ctx = ctx
           /\ job'[p].hooks = job[p].hooks /\ job'[p].xUserID = job[p].xUserID
           /\ job'[p].status = job[p].status /\ job'[p].phase = job[p].phase
  <1>1. job \in [Procs -> Jobs] /\ job[p] \in Jobs
    BY DEF IInv, JobsOK
  <1> DEFINE n == job[p].at + 1
             k == [job[p] EXCEPT !.ctx = ctx, !.at = n]
  <1>2. job' = [job EXCEPT ![p] = k]
    BY <1>1 DEF Forward, Jobs
  <1>3. n \in Nat
    BY <1>1 DEF Jobs
  <1> HIDE DEF n
  <1>4. /\ k \in Jobs /\ k.id = job[p].id /\ k.at = n /\ k.ctx = ctx
        /\ k.hooks = job[p].hooks /\ k.xUserID = job[p].xUserID
        /\ k.status = job[p].status /\ k.phase = job[p].phase
    BY <1>1, <1>3 DEF Jobs
  <1> HIDE DEF k
  <1> QED BY <1>1, <1>2, <1>4 DEF n

\* Going on moves one layer further, whatever the context.
LEMMA AnyForward ==
    ASSUME IInv, NEW p \in Procs, NEW ctx, Forward(p, ctx) \/ ForwardWithHeader(p, ctx)
    PROVE  /\ \A q \in Procs \ {p} : job'[q] = job[q]
           /\ job'[p].id = job[p].id /\ job'[p].at = job[p].at + 1
           /\ job'[p].hooks = job[p].hooks
  <1>1. job \in [Procs -> Jobs] /\ job[p] \in Jobs
    BY DEF IInv, JobsOK
  <1>2. CASE Forward(p, ctx)
    BY <1>1, <1>2 DEF Forward, Jobs
  <1>3. CASE ForwardWithHeader(p, ctx)
    BY <1>1, <1>3 DEF ForwardWithHeader, Jobs
  <1> QED BY <1>2, <1>3

\* Dual also sets the header.
LEMMA HeaderShape ==
    ASSUME IInv, NEW p \in Procs, NEW ctx \in Contexts, ForwardWithHeader(p, ctx)
    PROVE  /\ job' \in [Procs -> Jobs] /\ \A q \in Procs \ {p} : job'[q] = job[q]
           /\ job'[p].id = job[p].id /\ job'[p].at = job[p].at + 1 /\ job'[p].ctx = ctx
           /\ job'[p].hooks = job[p].hooks /\ job'[p].xUserID = ctx.user
           /\ job'[p].status = job[p].status /\ job'[p].phase = "down"
  <1>1. job \in [Procs -> Jobs] /\ job[p] \in Jobs /\ ctx.user \in Headers /\ "down" \in Phases
    BY DEF IInv, JobsOK, Headers, Phases
  <1> DEFINE n == job[p].at + 1
             k == [job[p] EXCEPT !.ctx = ctx, !.at = n, !.xUserID = ctx.user, !.phase = "down"]
  <1>2. job' = [job EXCEPT ![p] = k]
    BY <1>1 DEF ForwardWithHeader, Jobs
  <1>3. n \in Nat
    BY <1>1 DEF Jobs
  <1> HIDE DEF n
  <1>4. /\ k \in Jobs /\ k.id = job[p].id /\ k.at = n /\ k.ctx = ctx
        /\ k.hooks = job[p].hooks /\ k.xUserID = ctx.user
        /\ k.status = job[p].status /\ k.phase = "down"
    BY <1>1, <1>3 DEF Jobs
  <1> HIDE DEF k
  <1> QED BY <1>1, <1>2, <1>4 DEF n

\* Waiting for orbit-auth, or between record and answer, only the phase changes.
LEMMA PhaseShape ==
    ASSUME IInv, NEW p \in Procs, NEW phase \in Phases, job' = [job EXCEPT ![p].phase = phase]
    PROVE  /\ job' \in [Procs -> Jobs] /\ \A q \in Procs \ {p} : job'[q] = job[q]
           /\ job'[p].id = job[p].id /\ job'[p].at = job[p].at /\ job'[p].ctx = job[p].ctx
           /\ job'[p].hooks = job[p].hooks /\ job'[p].xUserID = job[p].xUserID
           /\ job'[p].status = job[p].status /\ job'[p].phase = phase
  <1>1. job \in [Procs -> Jobs] /\ job[p] \in Jobs
    BY DEF IInv, JobsOK
  <1> DEFINE k == [job[p] EXCEPT !.phase = phase]
  <1>2. job' = [job EXCEPT ![p] = k]
    BY <1>1 DEF Jobs
  <1>3. /\ k \in Jobs /\ k.id = job[p].id /\ k.at = job[p].at /\ k.ctx = job[p].ctx
        /\ k.hooks = job[p].hooks /\ k.xUserID = job[p].xUserID
        /\ k.status = job[p].status /\ k.phase = phase
    BY <1>1 DEF Jobs
  <1> HIDE DEF k
  <1> QED BY <1>1, <1>2, <1>3

\* A hook keeps the context on the way down.
LEMMA HookShape ==
    ASSUME IInv, NEW p \in Procs,
           job' = [job EXCEPT ![p].hooks = Append(@, job[p].ctx), ![p].at = @ + 1]
    PROVE  /\ job' \in [Procs -> Jobs] /\ \A q \in Procs \ {p} : job'[q] = job[q]
           /\ job'[p].id = job[p].id /\ job'[p].at = job[p].at + 1 /\ job'[p].ctx = job[p].ctx
           /\ job'[p].hooks = Append(job[p].hooks, job[p].ctx)
           /\ job'[p].xUserID = job[p].xUserID
           /\ job'[p].status = job[p].status /\ job'[p].phase = job[p].phase
  <1>1. job \in [Procs -> Jobs] /\ job[p] \in Jobs
    BY DEF IInv, JobsOK
  <1> DEFINE hs == Append(job[p].hooks, job[p].ctx)
             n  == job[p].at + 1
             k  == [job[p] EXCEPT !.hooks = hs, !.at = n]
  <1>2. job' = [job EXCEPT ![p] = k]
    BY <1>1 DEF Jobs
  <1>3. hs \in Seq(Contexts) /\ n \in Nat
    BY <1>1 DEF Jobs
  <1> HIDE DEF hs, n
  <1>4. /\ k \in Jobs /\ k.id = job[p].id /\ k.at = n /\ k.ctx = job[p].ctx
        /\ k.hooks = hs /\ k.xUserID = job[p].xUserID
        /\ k.status = job[p].status /\ k.phase = job[p].phase
    BY <1>1, <1>3 DEF Jobs
  <1> HIDE DEF k
  <1> QED BY <1>1, <1>2, <1>4 DEF hs, n

\* And drops it on the way up.
LEMMA LeaveShape ==
    ASSUME IInv, NEW p \in Procs, job[p].hooks # <<>>, LeaveHook(p)
    PROVE  /\ job' \in [Procs -> Jobs] /\ \A q \in Procs \ {p} : job'[q] = job[q]
           /\ job'[p].id = job[p].id /\ job'[p].at = job[p].at /\ job'[p].ctx = job[p].ctx
           /\ job'[p].hooks = SubSeq(job[p].hooks, 1, Len(job[p].hooks) - 1)
           /\ job'[p].xUserID = job[p].xUserID /\ job'[p].status = job[p].status
           /\ job'[p].phase = IF job'[p].hooks = <<>> THEN "done" ELSE "up"
  <1>1. job \in [Procs -> Jobs] /\ job[p] \in Jobs
    BY DEF IInv, JobsOK
  <1> DEFINE hs == SubSeq(job[p].hooks, 1, Len(job[p].hooks) - 1)
             ph == IF hs = <<>> THEN "done" ELSE "up"
             k  == [job[p] EXCEPT !.hooks = hs, !.phase = ph]
  <1>2. job' = [job EXCEPT ![p] = k]
    BY <1>1 DEF LeaveHook, Jobs
  <1>3. hs \in Seq(Contexts) /\ ph \in Phases
    BY <1>1 DEF Jobs, Phases
  <1> HIDE DEF hs
  <1>4. /\ k \in Jobs /\ k.id = job[p].id /\ k.at = job[p].at /\ k.ctx = job[p].ctx
        /\ k.hooks = hs /\ k.xUserID = job[p].xUserID
        /\ k.status = job[p].status /\ k.phase = ph
    BY <1>1, <1>3 DEF Jobs
  <1> HIDE DEF k
  <1> QED BY <1>1, <1>2, <1>4 DEF hs

\* The jobs after a step, one by one.
LEMMA JobsOKPrimed ==
    ASSUME job' \in [Procs -> Jobs],
           \A q \in Procs : job'[q].id = 0 => job'[q] = NoJob,
           \A q \in Procs : \A j : \A s :
               j = job'[q] /\ j.id # 0 /\ s = sent'[j.id] => j.id \in DOMAIN sent' /\ JobOK(j, s)'
    PROVE  JobsOK'
  <1> SUFFICES ASSUME NEW q \in Procs, job'[q].id # 0
               PROVE  (job[q].id \in DOMAIN sent /\ JobOK(job[q], Request(q)))'
    BY DEF JobsOK
  <1>1. PICK j, s : j = job'[q] /\ s = sent'[j.id]
    OBVIOUS
  <1>2. j.id \in DOMAIN sent' /\ JobOK(j, s)'
    BY <1>1
  <1>3. Vetted(job[q], Request(q))'
    BY <1>1, <1>2 DEF JobOK, Vetted, Request
  <1>4. HooksVetted(job[q], Request(q))'
    BY <1>1, <1>2 DEF JobOK, HooksVetted, Request
  <1>5. Placed(job[q], Request(q))'
    BY <1>1, <1>2 DEF JobOK, Placed, Request, Recorded
  <1> QED BY <1>1, <1>2, <1>3, <1>4, <1>5 DEF JobOK

\* A step of goroutine p leaves the other jobs as they are.
LEMMA JobsKept ==
    ASSUME IInv, NEW p \in Procs, job[p].id # 0, NEW k \in Jobs, NEW r, r = Request(p),
           job' \in [Procs -> Jobs], job'[p] = k, k.id = job[p].id, JobOK(k, r)',
           \A q \in Procs \ {p} : job'[q] = job[q],
           UNCHANGED <<config, sent>>,
           \A i \in DOMAIN log : i \in DOMAIN log' /\ log'[i] = log[i]
    PROVE  JobsOK' /\ OwnRequests'
  <1>1. ASSUME NEW q \in Procs, NEW j, NEW s, j = job'[q], j.id # 0, s = sent'[j.id]
        PROVE  j.id \in DOMAIN sent' /\ JobOK(j, s)'
    <2>1. CASE q = p
      <3>1. s = r /\ j = k /\ j.id \in DOMAIN sent'
        BY <1>1, <2>1 DEF Request, IInv, JobsOK
      <3> QED BY <3>1
    <2>2. CASE q # p
      <3>1. j = job[q] /\ s = sent[j.id] /\ j.id \in DOMAIN sent /\ JobOK(j, s)
        BY <1>1, <2>2 DEF IInv, JobsOK, Request
      <3> QED BY <3>1, JobOKKept
    <2> QED BY <2>1, <2>2
  <1>2. ASSUME NEW q \in Procs, job'[q].id = 0 PROVE job'[q] = NoJob
    BY <1>2 DEF IInv, JobsOK
  <1>3. JobsOK'
    BY <1>1, <1>2, JobsOKPrimed
  <1>4. OwnRequests'
    BY DEF IInv, OwnRequests
  <1> QED BY <1>3, <1>4

\* A step that neither handles nor records anything.
LEMMA QuietIInv ==
    ASSUME IInv, NEW p \in Procs, job[p].id # 0, NEW k \in Jobs, NEW r, r = Request(p),
           job' \in [Procs -> Jobs], job'[p] = k, k.id = job[p].id, JobOK(k, r),
           \A q \in Procs \ {p} : job'[q] = job[q],
           UNCHANGED <<config, expired, log, sent, handled>>
    PROVE  IInv'
  <1>1. JobOK(k, r)'
    BY JobOKKept
  <1>2. JobsOK' /\ OwnRequests'
    BY <1>1, JobsKept
  <1>3. UNCHANGED <<secret, staffSecret, hasAudit>>
    BY DEF config
  <1>4. HandledOK'
    BY <1>3 DEF IInv, HandledOK
  <1>5. LogOK' /\ LogTruthful'
    BY <1>3 DEF IInv, LogOK, LogTruthful, Truthful
  <1> QED BY <1>2, <1>3, <1>4, <1>5 DEF IInv

-----------------------------------------------------------------------------
\* One lemma per action.

\* What an answer leaves of the job.
LEMMA AnswerJob ==
    ASSUME IInv, NEW p \in Procs, NEW status \in Nat, Answer(p, status),
           job[p].phase # "done", NEW k, NEW r, k = job'[p], r = Request(p),
           status = 401 /\ Request(p).chain[job[p].at] = "RequireStaff" =>
               job[p].ctx.user = Empty /\ ~job[p].ctx.isStaff,
           status = 200 /\ Has(Request(p), "HandleStaffBreakGlass") => Recorded(job[p], Request(p))
    PROVE  /\ job[p].id # 0 /\ job' \in [Procs -> Jobs] /\ \A q \in Procs \ {p} : job'[q] = job[q]
           /\ k \in Jobs /\ k.id = job[p].id /\ JobOK(k, r)
  <1>1. PICK j : j = job[p]
    OBVIOUS
  <1>2. j.id # 0 /\ j \in Jobs /\ r \in Requests /\ JobOK(j, r)
    BY <1>1, Serving
  <1>3. /\ job' \in [Procs -> Jobs] /\ \A q \in Procs \ {p} : job'[q] = job[q]
        /\ k \in Jobs
        /\ k.id = j.id /\ k.at = j.at /\ k.ctx = j.ctx /\ k.hooks = j.hooks
        /\ k.xUserID = j.xUserID /\ k.status = status
        /\ k.phase = IF j.hooks = <<>> THEN "done" ELSE "up"
    BY <1>1, AnswerShape
  <1>4. status = 200 /\ Has(r, "HandleStaffBreakGlass") => Recorded(j, r)
    BY <1>1
  <1>5. JobOK(k, r)
    BY <1>1, <1>2, <1>3, <1>4, AnswerOK
  <1> QED BY <1>1, <1>2, <1>3, <1>5

\* A refusal, or any answer that grants no break-glass access.
LEMMA RefuseIInv ==
    ASSUME IInv, NEW p \in Procs, NEW status \in Nat, Answer(p, status),
           job[p].phase # "done",
           status = 401 /\ Request(p).chain[job[p].at] = "RequireStaff" =>
               job[p].ctx.user = Empty /\ ~job[p].ctx.isStaff,
           status = 200 /\ Has(Request(p), "HandleStaffBreakGlass") => Recorded(job[p], Request(p)),
           UNCHANGED <<config, expired, log, sent, handled>>
    PROVE  IInv'
  <1>1. PICK k, r : k = job'[p] /\ r = Request(p)
    OBVIOUS
  <1>2. /\ job[p].id # 0 /\ job' \in [Procs -> Jobs] /\ \A q \in Procs \ {p} : job'[q] = job[q]
        /\ k \in Jobs /\ k.id = job[p].id /\ JobOK(k, r)
    BY <1>1, AnswerJob
  <1> QED BY <1>1, <1>2, QuietIInv

\* The context of a vetted job is one of two.
LEMMA TwoContexts ==
    ASSUME NEW r, NEW j, Vetted(j, r)
    PROVE  j.ctx \in {Background, Identity(r.cred)}
  BY DEF Vetted

\* An authenticating layer that goes on without a header: JWT and RequireStaff.
LEMMA ForwardIInv ==
    ASSUME IInv, NEW p \in Procs, NEW layer \in {"JWT", "RequireStaff"}, Enters(p, layer),
           Shown(Cred(p)), Forward(p, Identity(Cred(p))), Cred(p).kind = "jwt",
           layer = "RequireStaff" => OfStaff(Cred(p)),
           UNCHANGED <<config, expired, log, sent, handled>>
    PROVE  IInv'
  <1>1. PICK k, j, r : k = job'[p] /\ j = job[p] /\ r = Request(p)
    OBVIOUS
  <1>2. /\ j.id # 0 /\ j \in Jobs /\ r \in Requests /\ JobOK(j, r)
        /\ j.phase = "down" /\ j.status = 0 /\ r.chain[j.at] = layer
    BY <1>1, Entering
  <1>3. Cred(p) = r.cred /\ r.cred.kind = "jwt" /\ Shown(r.cred)
        /\ (layer = "RequireStaff" => OfStaff(r.cred))
    BY <1>1 DEF Cred
  <1>4. Identity(r.cred) \in Contexts
    BY <1>2, <1>3, ContextType
  <1>5. /\ job' \in [Procs -> Jobs] /\ \A q \in Procs \ {p} : job'[q] = job[q]
        /\ k \in Jobs
        /\ k.id = j.id /\ k.at = j.at + 1 /\ k.ctx = Identity(r.cred) /\ k.hooks = j.hooks
        /\ k.xUserID = j.xUserID /\ k.status = j.status /\ k.phase = "down"
    BY <1>1, <1>2, <1>3, <1>4, ForwardShape
  <1>6. r.chain[j.at] \in Authenticating /\ r.chain[j.at] # "Dual"
    BY <1>2 DEF Authenticating
  <1>7. JobOK(k, r)
    BY <1>2, <1>3, <1>5, <1>6, PassOK
  <1> QED BY <1>1, <1>2, <1>5, <1>7, QuietIInv

\* Dual goes on with the header set, at once or when orbit-auth has answered.
LEMMA DualForwardIInv ==
    ASSUME IInv, NEW p \in Procs, job[p].phase \in {"down", "validate"},
           Request(p).chain[job[p].at] = "Dual",
           Shown(Cred(p)), ForwardWithHeader(p, Identity(Cred(p))),
           Cred(p).kind = "oat" => scopesAllow(Request(p).write, Cred(p).scopes),
           UNCHANGED <<config, expired, log, sent, handled>>
    PROVE  IInv'
  <1>1. PICK k, j, r : k = job'[p] /\ j = job[p] /\ r = Request(p)
    OBVIOUS
  <1>2. /\ j.id # 0 /\ j \in Jobs /\ r \in Requests /\ JobOK(j, r)
        /\ r.chain[j.at] = "Dual"
    BY <1>1, Serving
  <1>3. j.status = 0
    BY <1>1, <1>2 DEF JobOK, Placed
  <1>4. /\ Cred(p) = r.cred /\ Shown(r.cred)
        /\ r.cred.kind = "oat" => scopesAllow(r.write, r.cred.scopes)
    BY <1>1 DEF Cred
  <1>5. Identity(r.cred) \in Contexts
    BY <1>2, <1>4, ContextType, ShownKind
  <1>6. /\ job' \in [Procs -> Jobs] /\ \A q \in Procs \ {p} : job'[q] = job[q]
        /\ k \in Jobs
        /\ k.id = j.id /\ k.at = j.at + 1 /\ k.ctx = Identity(r.cred) /\ k.hooks = j.hooks
        /\ k.xUserID = k.ctx.user /\ k.status = j.status /\ k.phase = "down"
    BY <1>1, <1>2, <1>4, <1>5, HeaderShape
  <1>7. r.chain[j.at] \in Authenticating
    BY <1>2 DEF Authenticating
  <1>8. JobOK(k, r)
    BY <1>2, <1>3, <1>4, <1>6, <1>7, PassOK
  <1> QED BY <1>1, <1>2, <1>6, <1>8, QuietIInv

\* What a layer makes of the token it parsed.
LEMMA ParsedContext ==
    ASSUME IInv, NEW p \in Procs, job[p].phase # "done", parseToken(Cred(p))
    PROVE  /\ Shown(Cred(p)) /\ Cred(p).kind = "jwt"
           /\ enrichContext(job[p].ctx, Cred(p), Subject(Cred(p))) = Identity(Cred(p))
  <1>1. PICK j, r : j = job[p] /\ r = Request(p)
    OBVIOUS
  <1>2. r \in Requests /\ Vetted(j, r) /\ Cred(p) = r.cred
    BY <1>1, Serving DEF JobOK, Cred
  <1>3. j.ctx \in {Background, Identity(r.cred)}
    BY <1>2, TwoContexts
  <1>4. r.cred.kind = "jwt" /\ Shown(r.cred)
    BY <1>2, ShownKind
  <1> QED BY <1>1, <1>2, <1>3, <1>4, SameContextAgain

\* Dual: an API token goes to orbit-auth, a JWT on, anything else back.
LEMMA DualIInv ==
    ASSUME IInv, NEW p \in Procs, Dual(p) PROVE IInv'
  <1>1. Enters(p, "Dual") /\ UNCHANGED <<config, expired, log, sent, handled>>
    BY DEF Dual
  <1>2. job[p].phase = "down" /\ Request(p).chain[job[p].at] = "Dual"
    BY <1>1 DEF Enters
  <1>3. CASE \E status \in {401, 500} : Answer(p, status)
    BY <1>1, <1>2, <1>3, RefuseIInv
  <1>4. CASE Cred(p).kind = "oat" /\ job' = [job EXCEPT ![p].phase = "validate"]
    <2>1. PICK k, j, r : k = job'[p] /\ j = job[p] /\ r = Request(p)
      OBVIOUS
    <2>2. j.id # 0 /\ j \in Jobs /\ r \in Requests /\ JobOK(j, r) /\ j.status = 0
      BY <1>1, <2>1, Entering
    <2>3. /\ job' \in [Procs -> Jobs] /\ \A q \in Procs \ {p} : job'[q] = job[q]
          /\ k \in Jobs
          /\ k.id = j.id /\ k.at = j.at /\ k.ctx = j.ctx /\ k.hooks = j.hooks
          /\ k.xUserID = j.xUserID /\ k.status = j.status /\ k.phase = "validate"
      BY <1>4, <2>1, PhaseShape DEF Phases
    <2>4. Vetted(k, r) /\ HooksVetted(k, r)
      BY <2>2, <2>3 DEF JobOK, Vetted, HooksVetted, Known, Through
    <2>5. Placed(k, r)
      BY <1>2, <1>4, <2>1, <2>2, <2>3 DEF Placed, Cred
    <2> QED BY <1>1, <2>1, <2>2, <2>3, <2>4, <2>5, QuietIInv DEF JobOK
  <1>5. CASE /\ parseToken(Cred(p))
             /\ ForwardWithHeader(p, enrichContext(job[p].ctx, Cred(p), Subject(Cred(p))))
    BY <1>1, <1>2, <1>5, ParsedContext, DualForwardIInv
  <1>6. \/ \E status \in {401, 500} : Answer(p, status)
        \/ Cred(p).kind = "oat" /\ job' = [job EXCEPT ![p].phase = "validate"]
        \/ /\ parseToken(Cred(p))
           /\ ForwardWithHeader(p, enrichContext(job[p].ctx, Cred(p), Subject(Cred(p))))
    BY DEF Dual
  <1> QED BY <1>3, <1>4, <1>5, <1>6

\* orbit-auth knows the token and its scopes suffice, or the request ends here.
LEMMA ValidateIInv ==
    ASSUME IInv, NEW p \in Procs, ValidateAPIToken(p) PROVE IInv'
  <1>1. job[p].phase = "validate" /\ UNCHANGED <<config, expired, log, sent, handled>>
    BY DEF ValidateAPIToken
  <1>2. PICK j, r : j = job[p] /\ r = Request(p)
    OBVIOUS
  <1>3. /\ r \in Requests /\ JobOK(j, r) /\ Cred(p) = r.cred
        /\ r.chain[j.at] = "Dual" /\ r.cred.kind = "oat" /\ Shown(r.cred)
    BY <1>1, <1>2, Serving DEF JobOK, Placed, Cred, Shown
  <1>4. CASE \E status \in {401, 403} : Answer(p, status)
    BY <1>1, <1>2, <1>3, <1>4, RefuseIInv
  <1>5. CASE /\ scopesAllow(Request(p).write, Cred(p).scopes)
             /\ ForwardWithHeader(p, [job[p].ctx EXCEPT !.user = Cred(p).user, !.isStaff = FALSE])
    <2>1. j.ctx \in {Background, Identity(r.cred)}
      BY <1>3, TwoContexts DEF JobOK
    <2>2. \A ctx \in {Background, Identity(r.cred)} :
              [ctx EXCEPT !.user = r.cred.user, !.isStaff = FALSE] = Identity(r.cred)
      BY <1>3, TokenIdentity, Zenon
    <2>3. [j.ctx EXCEPT !.user = r.cred.user, !.isStaff = FALSE] = Identity(r.cred)
      BY <2>1, <2>2, Zenon
    <2>4. [job[p].ctx EXCEPT !.user = Cred(p).user, !.isStaff = FALSE]
            = [j.ctx EXCEPT !.user = r.cred.user, !.isStaff = FALSE]
      BY <1>2, <1>3, Zenon
    <2>5. [job[p].ctx EXCEPT !.user = Cred(p).user, !.isStaff = FALSE] = Identity(Cred(p))
      BY <1>3, <2>3, <2>4, Zenon
    <2>6. ForwardWithHeader(p, Identity(Cred(p)))
      BY <1>5, <2>5, Zenon
    <2> QED BY <1>1, <1>2, <1>3, <1>5, <2>6, DualForwardIInv
  <1>6. \/ \E status \in {401, 403} : Answer(p, status)
        \/ /\ scopesAllow(Request(p).write, Cred(p).scopes)
           /\ ForwardWithHeader(p, [job[p].ctx EXCEPT !.user = Cred(p).user, !.isStaff = FALSE])
    BY DEF ValidateAPIToken, ServeAPIToken
  <1> QED BY <1>4, <1>5, <1>6

\* JWT goes on with the identity of the token or refuses.
LEMMA JWTIInv ==
    ASSUME IInv, NEW p \in Procs, JWT(p) PROVE IInv'
  <1>1. Enters(p, "JWT") /\ UNCHANGED <<config, expired, log, sent, handled>>
    BY DEF JWT
  <1>2. job[p].phase = "down" /\ Request(p).chain[job[p].at] = "JWT"
    BY <1>1 DEF Enters
  <1>3. CASE \E status \in {401, 500} : Answer(p, status)
    BY <1>1, <1>2, <1>3, RefuseIInv
  <1>4. CASE /\ parseToken(Cred(p))
             /\ Forward(p, enrichContext(job[p].ctx, Cred(p), Subject(Cred(p))))
    BY <1>1, <1>2, <1>4, ParsedContext, ForwardIInv
  <1>5. \/ \E status \in {401, 500} : Answer(p, status)
        \/ /\ parseToken(Cred(p))
           /\ Forward(p, enrichContext(job[p].ctx, Cred(p), Subject(Cred(p))))
    BY DEF JWT
  <1> QED BY <1>3, <1>4, <1>5

\* RequireStaff trusts an outer layer, or looks at the token itself; 401 only for
\* a caller nobody knows.
LEMMA RequireStaffIInv ==
    ASSUME IInv, NEW p \in Procs, RequireStaff(p) PROVE IInv'
  <1>1. Enters(p, "RequireStaff") /\ UNCHANGED <<config, expired, log, sent, handled>>
    BY DEF RequireStaff
  <1>2. job[p].phase = "down" /\ Request(p).chain[job[p].at] = "RequireStaff"
    BY <1>1 DEF Enters
  <1>3. CASE \E status \in {403, 500} : Answer(p, status)
    BY <1>1, <1>2, <1>3, RefuseIInv
  <1>4. CASE Answer(p, 401) /\ ~job[p].ctx.isStaff /\ job[p].ctx.user = Empty
    BY <1>1, <1>2, <1>4, RefuseIInv
  <1>5. CASE job[p].ctx.isStaff /\ Forward(p, job[p].ctx)
    <2>1. PICK j, r : j = job[p] /\ r = Request(p)
      OBVIOUS
    <2>2. r \in Requests /\ Vetted(j, r) /\ j.ctx.isStaff /\ Cred(p) = r.cred
      BY <1>1, <1>5, <2>1, Entering DEF JobOK, Cred
    <2>3. /\ j.ctx = Identity(r.cred) /\ r.cred.kind = "jwt" /\ OfStaff(r.cred)
          /\ Shown(r.cred)
      BY <2>2, StaffIsKnown DEF Vetted
    <2>4. Forward(p, Identity(Cred(p)))
      BY <1>5, <2>1, <2>2, <2>3
    <2> QED BY <1>1, <2>2, <2>3, <2>4, ForwardIInv
  <1>6. CASE /\ parseToken(Cred(p)) /\ IsStaff(Cred(p))
             /\ Forward(p, enrichContext(job[p].ctx, Cred(p), Subject(Cred(p))))
    <2>1. OfStaff(Cred(p))
      BY <1>2, <1>6, ParsedContext DEF OfStaff
    <2> QED BY <1>1, <1>2, <1>6, <2>1, ParsedContext, ForwardIInv
  <1>7. \/ \E status \in {403, 500} : Answer(p, status)
        \/ Answer(p, 401) /\ ~job[p].ctx.isStaff /\ job[p].ctx.user = Empty
        \/ job[p].ctx.isStaff /\ Forward(p, job[p].ctx)
        \/ /\ parseToken(Cred(p)) /\ IsStaff(Cred(p))
           /\ Forward(p, enrichContext(job[p].ctx, Cred(p), Subject(Cred(p))))
    BY DEF RequireStaff
  <1> QED BY <1>3, <1>4, <1>5, <1>6, <1>7

\* A hook on the way down.
LEMMA AuditHookIInv ==
    ASSUME IInv, NEW p \in Procs, AuditHook(p) PROVE IInv'
  <1>1. /\ Enters(p, "AuditHook") /\ UNCHANGED <<config, expired, log, sent, handled>>
        /\ job' = [job EXCEPT ![p].hooks = Append(@, job[p].ctx), ![p].at = @ + 1]
    BY DEF AuditHook
  <1>2. PICK k, j, r : k = job'[p] /\ j = job[p] /\ r = Request(p)
    OBVIOUS
  <1>3. /\ j.id # 0 /\ j \in Jobs /\ r \in Requests /\ JobOK(j, r)
        /\ j.phase = "down" /\ r.chain[j.at] = "AuditHook"
    BY <1>1, <1>2, Entering
  <1>4. /\ job' \in [Procs -> Jobs] /\ \A q \in Procs \ {p} : job'[q] = job[q]
        /\ k \in Jobs
        /\ k.id = j.id /\ k.at = j.at + 1 /\ k.ctx = j.ctx
        /\ k.hooks = Append(j.hooks, j.ctx) /\ k.xUserID = j.xUserID
        /\ k.status = j.status /\ k.phase = "down"
    BY <1>1, <1>2, <1>3, HookShape
  <1>5. JobOK(k, r)
    BY <1>3, <1>4, HookOK
  <1> QED BY <1>1, <1>2, <1>3, <1>4, <1>5, QuietIInv

\* A true entry of a request that was sent may be appended.
LEMMA GrowLog ==
    ASSUME IInv, NEW e \in Entries, e.id \in DOMAIN sent, Truthful(e, sent[e.id]),
           log' = Append(log, e), UNCHANGED <<config, sent>>
    PROVE  /\ LogOK' /\ LogTruthful'
           /\ \A i \in DOMAIN log : i \in DOMAIN log' /\ log'[i] = log[i]
           /\ Len(log) + 1 \in DOMAIN log' /\ log'[Len(log) + 1] = e
           /\ DOMAIN log' = DOMAIN log \cup {Len(log) + 1} /\ Len(log) + 1 \notin DOMAIN log
  <1>1. UNCHANGED <<secret, staffSecret>>
    BY DEF config
  <1>2. log \in Seq(Entries)
    BY DEF IInv, LogOK
  <1>3. /\ log' \in Seq(Entries)
        /\ DOMAIN log' = DOMAIN log \cup {Len(log) + 1} /\ Len(log) + 1 \notin DOMAIN log
        /\ log'[Len(log) + 1] = e /\ \A i \in DOMAIN log : log'[i] = log[i]
    BY <1>2
  <1>4. \A i \in DOMAIN log' : log'[i] = e \/ (i \in DOMAIN log /\ log'[i] = log[i])
    BY <1>3
  <1>5. \A i \in DOMAIN log : log[i].id \in DOMAIN sent /\ Truthful(log[i], sent[log[i].id])
    BY DEF IInv, LogOK, LogTruthful, Truthful
  <1>6. \A i \in DOMAIN log' : log'[i].id \in DOMAIN sent /\ Truthful(log'[i], sent[log'[i].id])
    BY <1>4, <1>5
  <1>7. LogOK'
    BY <1>3, <1>6 DEF LogOK
  <1>8. LogTruthful'
    BY <1>1, <1>6 DEF LogTruthful, Truthful
  <1> QED BY <1>3, <1>7, <1>8

\* A step of one goroutine preserves the invariant when its job, what it handled
\* and what it recorded are right.
LEMMA StepIInv ==
    ASSUME IInv, NEW p \in Procs, job[p].id # 0, NEW k \in Jobs, NEW r, r = Request(p),
           job' \in [Procs -> Jobs], job'[p] = k, k.id = job[p].id, JobOK(k, r)',
           \A q \in Procs \ {p} : job'[q] = job[q],
           UNCHANGED <<config, expired, sent>>, HandledOK', LogOK', LogTruthful',
           \A i \in DOMAIN log : i \in DOMAIN log' /\ log'[i] = log[i]
    PROVE  IInv'
  <1>1. JobsOK' /\ OwnRequests'
    BY JobsKept
  <1>2. UNCHANGED <<secret, staffSecret, hasAudit>>
    BY DEF config
  <1> QED BY <1>1, <1>2 DEF IInv

\* The records of the middleware are entries.
LEMMA RecordTypes ==
    ASSUME NEW n \in Nat, NEW r \in Requests, NEW ctx \in Contexts
    PROVE  HookRecord(n, r, ctx) \in Entries /\ GrantRecord(n, r, ctx) \in Entries
  BY DEF Entries

\* The requests handled before stay as they were.
LEMMA HandledKept ==
    ASSUME IInv, UNCHANGED <<config, sent, handled>>
    PROVE  HandledOK'
  BY DEF IInv, HandledOK, config

\* So does a log nobody writes to.
LEMMA LogKept ==
    ASSUME IInv, UNCHANGED <<config, sent, log>>
    PROVE  LogOK' /\ LogTruthful'
  BY DEF IInv, LogOK, LogTruthful, Truthful, config

\* A hook has an actor to record only behind an authenticating layer.
LEMMA HookIsKnown ==
    ASSUME NEW r \in Requests, NEW j, JobOK(j, r), NEW i \in DOMAIN j.hooks, NEW n,
           HookRecord(n, r, j.hooks[i]).actor # Empty
    PROVE  Known(j, r) /\ j.hooks[i] = Identity(r.cred)
  <1>1. PICK ctx : ctx = j.hooks[i]
    OBVIOUS
  <1>2. HookRecord(n, r, ctx).actor = IF ctx.isStaff THEN Or(ctx.staffSubject, ctx.user) ELSE ctx.user
    BY DEF HookRecord
  <1>3. ctx # Background
    BY <1>1, <1>2, BackgroundFacts
  <1> QED BY <1>1, <1>3 DEF JobOK, HooksVetted

\* A hook that was given somebody records the caller.
LEMMA HookIsTruthful ==
    ASSUME NEW r \in Requests, NEW j, JobOK(j, r), NEW i \in DOMAIN j.hooks, NEW n,
           HookRecord(n, r, j.hooks[i]).actor # Empty
    PROVE  Truthful(HookRecord(n, r, j.hooks[i]), r)
  <1>1. PICK ctx : ctx = j.hooks[i]
    OBVIOUS
  <1>2. Known(j, r) /\ ctx = Identity(r.cred)
    BY <1>1, HookIsKnown
  <1>3. Shown(r.cred) /\ r.cred.kind \in {"oat", "jwt"} /\ j.at \in DOMAIN r.chain
    BY <1>2, ShownKind DEF JobOK, Vetted
  <1>4. Guarded(r)
    BY <1>2, <1>3, ChainFacts DEF Known, Guarded, Has
  <1>5. LET e == HookRecord(n, r, Identity(r.cred)) IN
        /\ e.actor = AuditName(r.cred)
        /\ e.actorType = "staff" <=> OfStaff(r.cred)
        /\ e.reason # Empty => OfStaff(r.cred) /\ e.reason = r.cred.reason
        /\ IF OfStaff(r.cred) /\ TargetOrg(r.cred) # Empty
             THEN e.org = TargetOrg(r.cred)
             ELSE e.org \in {r.pathOrg, r.headerOrg}
    BY <1>3, HookNames
  <1>6. Truthful(HookRecord(n, r, Identity(r.cred)), r)
    BY <1>3, <1>4, <1>5 DEF Truthful
  <1> QED BY <1>1, <1>2, <1>6

\* A hook on the way up.
LEMMA RecordHookIInv ==
    ASSUME IInv, NEW p \in Procs, RecordHook(p) PROVE IInv'
  <1>1. /\ job[p].phase = "up" /\ LeaveHook(p)
        /\ UNCHANGED <<config, expired, sent, handled>>
    BY DEF RecordHook
  <1>2. PICK k, j, r : k = job'[p] /\ j = job[p] /\ r = Request(p)
    OBVIOUS
  <1>3. /\ j.id # 0 /\ j \in Jobs /\ j.id \in DOMAIN sent /\ r \in Requests /\ JobOK(j, r)
        /\ j.phase = "up" /\ j.hooks # <<>> /\ r = sent[j.id]
    BY <1>1, <1>2, Serving DEF JobOK, Placed, Request
  <1>4. /\ job' \in [Procs -> Jobs] /\ \A q \in Procs \ {p} : job'[q] = job[q]
        /\ k \in Jobs
        /\ k.id = j.id /\ k.at = j.at /\ k.ctx = j.ctx /\ k.xUserID = j.xUserID
        /\ k.status = j.status /\ k.hooks = SubSeq(j.hooks, 1, Len(j.hooks) - 1)
        /\ k.phase = IF k.hooks = <<>> THEN "done" ELSE "up"
    BY <1>1, <1>2, <1>3, LeaveShape
  <1>5. JobOK(k, r)
    BY <1>3, <1>4, LeaveOK
  <1>6. PICK l : l \in DOMAIN j.hooks /\ l = Len(j.hooks) /\ j.hooks[l] \in Contexts
    BY <1>3 DEF Jobs
  <1>7. PICK e : e = HookRecord(j.id, r, j.hooks[l])
    OBVIOUS
  <1>8. HookEntry(p, job[p].hooks[Len(job[p].hooks)]) = e
    BY <1>2, <1>6, <1>7 DEF HookEntry, HookRecord
  <1>9. log' = log \/ (e.actor # Empty /\ log' = Append(log, e))
    BY <1>8 DEF RecordHook, RecordAudit
  <1>10. /\ LogOK' /\ LogTruthful'
         /\ \A i \in DOMAIN log : i \in DOMAIN log' /\ log'[i] = log[i]
    <2>1. CASE log' = log
      BY <1>1, <2>1, LogKept
    <2>2. CASE e.actor # Empty /\ log' = Append(log, e)
      <3>1. Truthful(e, r)
        BY <1>3, <1>6, <1>7, <2>2, HookIsTruthful
      <3>2. e \in Entries /\ e.id = j.id
        BY <1>3, <1>6, <1>7, RecordTypes DEF HookRecord, Jobs
      <3> QED BY <1>1, <1>3, <2>2, <3>1, <3>2, GrowLog
    <2> QED BY <1>9, <2>1, <2>2
  <1>11. JobOK(k, r)'
    BY <1>1, <1>5, <1>10, JobOKKept
  <1> QED BY <1>1, <1>2, <1>3, <1>4, <1>10, <1>11, HandledKept, StepIInv

\* A request at its handler has passed every layer of its chain.
LEMMA AtHandler ==
    ASSUME NEW r \in Requests, NEW j \in Jobs, j.at \in DOMAIN r.chain,
           r.chain[j.at] \in Handlers
    PROVE  /\ Guarded(r) => Known(j, r)
           /\ \A layer \in Authenticating : Has(r, layer) => Through(j, r, layer)
           /\ \A handler \in Handlers : Has(r, handler) => r.chain[j.at] = handler
  <1>1. j.at = Len(r.chain)
    BY ChainFacts
  <1>2. ASSUME NEW i \in DOMAIN r.chain, r.chain[i] \in Authenticating
        PROVE  i \in 1..(j.at - 1)
    <2>1. r.chain[i] \notin Handlers
      BY <1>2 DEF Authenticating, Handlers
    <2> QED BY <1>1, <2>1, ChainFacts
  <1>3. ASSUME NEW i \in DOMAIN r.chain, r.chain[i] \in Handlers
        PROVE  i = j.at
    BY <1>1, <1>3, ChainFacts
  <1> QED BY <1>2, <1>3 DEF Guarded, Has, Known, Through

\* What a handler is given is vetted.
LEMMA HandleHandledOK ==
    ASSUME IInv, NEW p \in Procs, job[p].phase # "done", Handle(p),
           Request(p).chain[job[p].at] \in Handlers, UNCHANGED <<config, sent>>
    PROVE  HandledOK'
  <1>1. PICK j, r : j = job[p] /\ r = Request(p)
    OBVIOUS
  <1>2. /\ j \in Jobs /\ j.id \in DOMAIN sent /\ r \in Requests /\ Vetted(j, r)
        /\ r = sent[j.id]
    BY <1>1, Serving DEF JobOK, Request
  <1>3. /\ Guarded(r) => Known(j, r)
        /\ Has(r, "RequireStaff") => Through(j, r, "RequireStaff")
        /\ Has(r, "Dual") => Through(j, r, "Dual")
    BY <1>1, <1>2, AtHandler DEF Authenticating, Vetted
  <1> DEFINE new == [id |-> j.id, ctx |-> j.ctx, xUserID |-> j.xUserID]
             Fine(h) ==
                 /\ h.id \in DOMAIN sent
                 /\ Guarded(sent[h.id]) =>
                       /\ h.ctx = Identity(sent[h.id].cred)
                       /\ Shown(sent[h.id].cred)
                       /\ sent[h.id].cred.kind = "oat" =>
                             scopesAllow(sent[h.id].write, sent[h.id].cred.scopes)
                 /\ Has(sent[h.id], "RequireStaff") => OfStaff(sent[h.id].cred)
                 /\ Has(sent[h.id], "Dual") => h.xUserID = h.ctx.user
  <1>4. handled' = handled \cup {new}
    BY <1>1 DEF Handle
  <1>5. new.id = j.id /\ new.ctx = j.ctx /\ new.xUserID = j.xUserID
    OBVIOUS
  <1> HIDE DEF new
  <1>6. Fine(new)
    BY <1>2, <1>3, <1>5 DEF Vetted
  <1>7. \A h \in handled : Fine(h)
    BY DEF IInv, HandledOK
  <1>8. \A h \in handled' : Fine(h)
    BY <1>4, <1>6, <1>7
  <1> QED BY <1>8 DEF HandledOK, config

\* The deployment's handler.
LEMMA AppIInv ==
    ASSUME IInv, NEW p \in Procs, App(p) PROVE IInv'
  <1>1. Enters(p, "app") /\ Handle(p) /\ UNCHANGED <<config, expired, log, sent>>
    BY DEF App
  <1>2. PICK status \in {200, 500} : Answer(p, status)
    BY DEF App
  <1>3. PICK k, j, r : k = job'[p] /\ j = job[p] /\ r = Request(p)
    OBVIOUS
  <1>4. /\ j \in Jobs /\ r \in Requests /\ JobOK(j, r) /\ j.phase = "down"
        /\ r.chain[j.at] = "app" /\ j.at \in DOMAIN r.chain
    BY <1>1, <1>3, Entering DEF JobOK, Vetted
  <1>5. ~Has(r, "HandleStaffBreakGlass")
    BY <1>4, AtHandler DEF Handlers
  <1>6. /\ job[p].id # 0 /\ job' \in [Procs -> Jobs] /\ \A q \in Procs \ {p} : job'[q] = job[q]
        /\ k \in Jobs /\ k.id = job[p].id /\ JobOK(k, r)
    BY <1>2, <1>3, <1>4, <1>5, AnswerJob
  <1>7. JobOK(k, r)'
    BY <1>1, <1>6, JobOKKept
  <1>8. HandledOK'
    BY <1>1, <1>3, <1>4, HandleHandledOK DEF Handlers
  <1> QED BY <1>1, <1>3, <1>6, <1>7, <1>8, LogKept, StepIInv

\* Staff with a reason: the access is recorded before it is granted.
LEMMA BreakGlassIInv ==
    ASSUME IInv, NEW p \in Procs, HandleStaffBreakGlass(p) PROVE IInv'
  <1>1. /\ Enters(p, "HandleStaffBreakGlass") /\ Handle(p)
        /\ UNCHANGED <<config, expired, sent>>
    BY DEF HandleStaffBreakGlass
  <1>2. PICK k, j, r : k = job'[p] /\ j = job[p] /\ r = Request(p)
    OBVIOUS
  <1>3. /\ j.id # 0 /\ j \in Jobs /\ j.id \in DOMAIN sent /\ r \in Requests /\ JobOK(j, r)
        /\ r = sent[j.id] /\ j.phase = "down" /\ j.status = 0
        /\ r.chain[j.at] = "HandleStaffBreakGlass"
    BY <1>1, <1>2, Entering DEF Request
  <1>4. HandledOK'
    BY <1>1, <1>2, <1>3, HandleHandledOK DEF Handlers
  <1>5. CASE (\E status \in {400, 403} : Answer(p, status)) /\ UNCHANGED log
    <2>1. PICK status \in {400, 403} : Answer(p, status)
      BY <1>5
    <2>2. status \in Nat /\ status # 200 /\ status # 401 /\ job[p].phase # "done"
      BY <1>2, <1>3
    <2>3. /\ job' \in [Procs -> Jobs] /\ \A q \in Procs \ {p} : job'[q] = job[q]
          /\ k \in Jobs /\ k.id = job[p].id /\ JobOK(k, r)
      BY <1>2, <2>1, <2>2, AnswerJob
    <2>4. JobOK(k, r)'
      BY <1>1, <1>5, <2>3, JobOKKept
    <2>5. /\ LogOK' /\ LogTruthful'
          /\ \A i \in DOMAIN log : i \in DOMAIN log' /\ log'[i] = log[i]
      BY <1>1, <1>5, LogKept
    <2>6. job[p].id # 0 /\ job'[p] = k
      BY <1>2, <1>3
    <2> QED BY <1>1, <1>2, <1>4, <2>3, <2>4, <2>5, <2>6, StepIInv
  <1>6. CASE /\ j.ctx.isStaff /\ j.ctx.reason # Empty
             /\ job' = [job EXCEPT ![p].phase = "grant"] /\ RecordAudit(BreakGlassEntry(p))
    <2>1. /\ job' \in [Procs -> Jobs] /\ \A q \in Procs \ {p} : job'[q] = job[q]
          /\ k \in Jobs
          /\ k.id = j.id /\ k.at = j.at /\ k.ctx = j.ctx /\ k.hooks = j.hooks
          /\ k.xUserID = j.xUserID /\ k.status = j.status /\ k.phase = "grant"
      BY <1>2, <1>6, PhaseShape DEF Phases
    <2>2. /\ Known(j, r) /\ j.ctx = Identity(r.cred) /\ Shown(r.cred)
          /\ r.cred.kind = "jwt" /\ IsStaff(r.cred) /\ OfStaff(r.cred)
          /\ j.ctx \in Contexts /\ j.id \in Nat /\ j.at \in DOMAIN r.chain
      BY <1>3, <1>6, StaffIsKnown DEF JobOK, Vetted, Jobs
    <2>3. PICK e : e = GrantRecord(j.id, r, j.ctx)
      OBVIOUS
    <2>4. BreakGlassEntry(p) = e
      BY <1>2, <2>3, Zenon DEF BreakGlassEntry, GrantRecord
    <2>5. e \in Entries
      BY <1>3, <2>2, <2>3, RecordTypes
    <2>6. /\ e.id = j.id /\ e.action = "break_glass.access" /\ e.reason = j.ctx.reason
          /\ e.org = OrgOf(j.ctx, r)
      BY <2>3 DEF GrantRecord
    <2>7. e.breakGlass
      <3> DEFINE yes == TRUE
      <3>1. e = [id |-> j.id, action |-> "break_glass.access", actor |-> j.ctx.staffSubject,
                 actorType |-> "staff", breakGlass |-> yes, reason |-> j.ctx.reason,
                 org |-> OrgOf(j.ctx, r)]
        BY <2>3, Zenon DEF GrantRecord
      <3>2. yes
        OBVIOUS
      <3> HIDE DEF yes
      <3> QED BY <3>1, <3>2
    <2>8. Truthful(e, r)
      <3>1. Guarded(r)
        BY <1>3, <2>2, ChainFacts DEF Known, Guarded, Has
      <3>2. LET g == GrantRecord(j.id, r, Identity(r.cred)) IN
            /\ g.actor = AuditName(r.cred)
            /\ g.actorType = "staff" <=> OfStaff(r.cred)
            /\ g.reason # Empty => OfStaff(r.cred) /\ g.reason = r.cred.reason
            /\ IF OfStaff(r.cred) /\ TargetOrg(r.cred) # Empty
                 THEN g.org = TargetOrg(r.cred)
                 ELSE g.org \in {r.pathOrg, r.headerOrg}
        BY <2>2, GrantNames
      <3>3. e = GrantRecord(j.id, r, Identity(r.cred))
        BY <2>2, <2>3
      <3> QED BY <2>2, <3>1, <3>2, <3>3 DEF Truthful
    <2>9. log' = IF hasAudit THEN Append(log, e) ELSE log
      BY <1>6, <2>4 DEF RecordAudit
    <2>10. /\ LogOK' /\ LogTruthful'
           /\ \A i \in DOMAIN log : i \in DOMAIN log' /\ log'[i] = log[i]
           /\ hasAudit => \E i \in DOMAIN log' : log'[i] = e
      <3>1. CASE hasAudit
        BY <1>1, <1>3, <2>5, <2>6, <2>8, <2>9, <3>1, GrowLog
      <3>2. CASE ~hasAudit
        BY <1>1, <2>9, <3>2, LogKept
      <3> QED BY <3>1, <3>2
    <2>11. UNCHANGED <<secret, staffSecret, hasAudit>>
      BY <1>1 DEF config
    <2>12. Recorded(k, r)'
      BY <1>6, <2>1, <2>6, <2>7, <2>10, <2>11 DEF Recorded
    <2>13. (Vetted(k, r) /\ HooksVetted(k, r))'
      BY <1>3, <2>1, <2>11 DEF JobOK, Vetted, HooksVetted, Known, Through
    <2>14. Placed(k, r)'
      BY <1>3, <2>1, <2>12 DEF Placed
    <2>15. JobOK(k, r)'
      BY <2>13, <2>14 DEF JobOK
    <2> QED BY <1>1, <1>2, <1>3, <1>4, <2>1, <2>10, <2>15, StepIInv
  <1>7. \/ (\E status \in {400, 403} : Answer(p, status)) /\ UNCHANGED log
        \/ /\ j.ctx.isStaff /\ j.ctx.reason # Empty
           /\ job' = [job EXCEPT ![p].phase = "grant"] /\ RecordAudit(BreakGlassEntry(p))
    BY <1>2 DEF HandleStaffBreakGlass
  <1> QED BY <1>5, <1>6, <1>7

\* The grant is answered only after its record.
LEMMA GrantIInv ==
    ASSUME IInv, NEW p \in Procs, Grant(p) PROVE IInv'
  <1>1. /\ job[p].phase = "grant" /\ Answer(p, 200)
        /\ UNCHANGED <<config, expired, log, sent, handled>>
    BY DEF Grant
  <1>2. JobOK(job[p], Request(p))
    BY <1>1, Serving
  <1>3. Recorded(job[p], Request(p))
    BY <1>1, <1>2 DEF JobOK, Placed
  <1> QED BY <1>1, <1>3, RefuseIInv

\* The job of request r when it arrives as number n.
FreshJob(n, r) == [NoJob EXCEPT !.id = n, !.phase = "down", !.xUserID = r.xUserID]

\* It has passed nothing yet.
LEMMA FreshJobOK ==
    ASSUME NEW r \in Requests, NEW n \in Nat, NEW k, k = FreshJob(n, r)
    PROVE  /\ k \in Jobs /\ k.id = n /\ k.at = 1 /\ k.hooks = <<>> /\ JobOK(k, r)
  <1>1. NoJob \in Jobs /\ "down" \in Phases /\ r.xUserID \in Headers
    BY ContextType DEF Phases, Headers
  <1>2. /\ NoJob.at = 1 /\ NoJob.ctx = Background /\ NoJob.hooks = <<>> /\ NoJob.status = 0
    BY DEF NoJob
  <1>3. /\ k \in Jobs /\ k.id = n /\ k.phase = "down" /\ k.xUserID = r.xUserID
        /\ k.at = 1 /\ k.ctx = Background /\ k.hooks = <<>> /\ k.status = 0
    BY <1>1, <1>2 DEF Jobs, FreshJob
  <1>4. 1 \in DOMAIN r.chain
    BY ChainsAssumption
  <1>5. Vetted(k, r)
    BY <1>3, <1>4 DEF Vetted, Known, Through
  <1>6. HooksVetted(k, r) /\ Placed(k, r)
    BY <1>3 DEF HooksVetted, Placed
  <1> QED BY <1>3, <1>5, <1>6 DEF JobOK

\* A request arrives.
LEMMA ArriveIInv ==
    ASSUME IInv, NEW p \in Procs, NEW r \in Requests, Arrive(p, r) PROVE IInv'
  <1>1. PICK n, k : n = Len(sent) + 1 /\ k = FreshJob(n, r)
    OBVIOUS
  <1>2. /\ sent' = Append(sent, r) /\ job' = [job EXCEPT ![p] = k]
        /\ UNCHANGED <<config, expired, log, handled>>
    BY <1>1 DEF Arrive, FreshJob
  <1>3. /\ n \in Nat /\ n # 0 /\ n \notin DOMAIN sent /\ n \in DOMAIN sent' /\ sent'[n] = r
        /\ sent' \in Seq(Requests)
        /\ \A i \in DOMAIN sent : i \in DOMAIN sent' /\ sent'[i] = sent[i]
    BY <1>1, <1>2 DEF IInv
  <1>4. k \in Jobs /\ k.id = n /\ JobOK(k, r)
    BY <1>1, <1>3, FreshJobOK
  <1>5. /\ job' \in [Procs -> Jobs] /\ job'[p] = k
        /\ \A q \in Procs \ {p} : job'[q] = job[q]
    BY <1>2, <1>4 DEF IInv, JobsOK
  <1>6. JobOK(k, r)'
    BY <1>2, <1>4, JobOKKept
  <1>7. ASSUME NEW q \in Procs, NEW j, NEW s, j = job'[q], j.id # 0, s = sent'[j.id]
        PROVE  j.id \in DOMAIN sent' /\ JobOK(j, s)'
    <2>1. CASE q = p
      BY <1>3, <1>4, <1>5, <1>6, <1>7, <2>1
    <2>2. CASE q # p
      <3>1. j = job[q] /\ j.id \in DOMAIN sent /\ s = sent[j.id] /\ JobOK(j, s)
        BY <1>3, <1>5, <1>7, <2>2 DEF IInv, JobsOK, Request
      <3> QED BY <1>2, <1>3, <3>1, JobOKKept
    <2> QED BY <2>1, <2>2
  <1>8. ASSUME NEW q \in Procs, job'[q].id = 0 PROVE job'[q] = NoJob
    BY <1>3, <1>4, <1>5, <1>8 DEF IInv, JobsOK
  <1>9. JobsOK'
    BY <1>5, <1>7, <1>8, JobsOKPrimed
  <1>10. OwnRequests'
    <2>1. \A q \in Procs : job[q].id # n
      BY <1>3 DEF IInv, JobsOK
    <2> QED BY <1>4, <1>5, <2>1 DEF IInv, OwnRequests
  <1>11. UNCHANGED <<secret, staffSecret, hasAudit>>
    BY <1>2 DEF config
  <1>12. HandledOK'
    BY <1>2, <1>3, <1>11 DEF IInv, HandledOK
  <1>13. LogOK'
    BY <1>2, <1>3 DEF IInv, LogOK
  <1>14. LogTruthful'
    BY <1>2, <1>3, <1>11 DEF IInv, LogOK, LogTruthful, Truthful
  <1> QED BY <1>2, <1>3, <1>9, <1>10, <1>11, <1>12, <1>13, <1>14 DEF IInv

\* A token that expires changes nothing a layer already decided.
LEMMA ExpireIInv ==
    ASSUME IInv, UNCHANGED <<config, log, sent, handled, job>>, expired' \subseteq Credentials
    PROVE  IInv'
  <1>1. UNCHANGED <<secret, staffSecret, hasAudit>>
    BY DEF config
  <1>2. ASSUME NEW q \in Procs, NEW j, NEW s, j = job'[q], j.id # 0, s = sent'[j.id]
        PROVE  j.id \in DOMAIN sent' /\ JobOK(j, s)'
    <2>1. j.id \in DOMAIN sent /\ JobOK(j, s)
      BY <1>2 DEF IInv, JobsOK, Request
    <2> QED BY <2>1, JobOKKept
  <1>3. JobsOK'
    BY <1>2, JobsOKPrimed DEF IInv, JobsOK
  <1>4. OwnRequests'
    BY DEF IInv, OwnRequests
  <1> QED BY <1>1, <1>3, <1>4, HandledKept, LogKept DEF IInv

\* A restart forgets the requests in flight, the log and what was handled.
LEMMA RestartIInv ==
    ASSUME IInv, Restart PROVE IInv'
  <1>1. /\ log' = <<>> /\ handled' = {} /\ job' = [p \in Procs |-> NoJob]
        /\ UNCHANGED <<config, expired, sent>>
    BY DEF Restart
  <1>2. UNCHANGED <<secret, staffSecret, hasAudit>>
    BY <1>1 DEF config
  <1>3. NoJob \in Jobs /\ NoJob.id = 0
    BY ContextType DEF NoJob
  <1>4. job' \in [Procs -> Jobs] /\ \A q \in Procs : job'[q] = NoJob /\ job'[q].id = 0
    BY <1>1, <1>3
  <1>5. JobsOK' /\ OwnRequests'
    BY <1>4 DEF JobsOK, OwnRequests
  <1>6. HandledOK' /\ LogOK' /\ LogTruthful'
    BY <1>1 DEF HandledOK, LogOK, LogTruthful, Truthful
  <1> QED BY <1>1, <1>2, <1>5, <1>6 DEF IInv

-----------------------------------------------------------------------------
\* The invariant of the specification.

\* The invariant holds when the server is built.
LEMMA InitIInv == Init => IInv
  <1> SUFFICES ASSUME Init PROVE IInv
    OBVIOUS
  <1>1. {secret, staffSecret} \subseteq Secrets
    BY DEF Init, Secrets
  <1>2. NoJob \in Jobs /\ NoJob.id = 0
    BY ContextType DEF NoJob
  <1>3. job \in [Procs -> Jobs] /\ \A q \in Procs : job[q] = NoJob /\ job[q].id = 0
    BY <1>2 DEF Init
  <1>4. JobsOK /\ OwnRequests
    BY <1>3 DEF JobsOK, OwnRequests
  <1>5. HandledOK /\ LogOK /\ LogTruthful
    BY DEF Init, HandledOK, LogOK, LogTruthful, Truthful
  <1> QED BY <1>1, <1>4, <1>5 DEF IInv, Init

\* Every step preserves it.
LEMMA NextIInv == IInv /\ [Next]_vars => IInv'
  <1> SUFFICES ASSUME IInv, [Next]_vars PROVE IInv'
    OBVIOUS
  <1>1. ASSUME NEW p \in Procs, NEW r \in Requests, Arrive(p, r) PROVE IInv'
    BY <1>1, ArriveIInv
  <1>2. ASSUME NEW p \in Procs, Step(p) PROVE IInv'
    BY <1>2, DualIInv, JWTIInv, RequireStaffIInv, AuditHookIInv, RecordHookIInv, AppIInv,
       BreakGlassIInv, GrantIInv DEF Step
  <1>3. ASSUME NEW p \in Procs, ValidateAPIToken(p) PROVE IInv'
    BY <1>3, ValidateIInv
  <1>4. ASSUME NEW p \in Procs, Expire(p) PROVE IInv'
    <2>1. Cred(p) \in Credentials
      BY <1>4, Serving DEF Expire, Cred, Credentials
    <2>2. expired' \subseteq Credentials
      BY <1>4, <2>1 DEF Expire, IInv
    <2> QED BY <1>4, <2>2, ExpireIInv DEF Expire
  <1>5. ASSUME Restart PROVE IInv'
    BY <1>5, RestartIInv
  <1>6. ASSUME UNCHANGED vars PROVE IInv'
    BY <1>6, ExpireIInv DEF vars, config, IInv
  <1> QED BY <1>1, <1>2, <1>3, <1>4, <1>5, <1>6 DEF Next

\* Whatever arrives, expires or restarts: every context is the background context
\* or the one identity of its request's credential, and every entry of the log
\* speaks of a request that was sent.
THEOREM Invariance == Spec => []IInv
  BY InitIInv, NextIInv, PTL DEF Spec

-----------------------------------------------------------------------------
\* Who is vouched for, on top of the invariant.

\* What is in the log after a record is made.
LEMMA LogAppended ==
    ASSUME IInv, NEW e, log' = Append(log, e)
    PROVE  \A i \in DOMAIN log' : (i \in DOMAIN log /\ log'[i] = log[i]) \/ log'[i] = e
  <1>1. /\ DOMAIN log' = DOMAIN log \cup {Len(log) + 1}
        /\ log'[Len(log) + 1] = e /\ \A i \in DOMAIN log : log'[i] = log[i]
    BY DEF IInv, LogOK
  <1> QED BY <1>1

\* A step of one goroutine preserves it when the request that goes on, is handled
\* or is recorded is vouched for.
LEMMA StepVouched ==
    ASSUME VInv, IInv', NEW p \in Procs, job[p].id # 0, job'[p].id = job[p].id,
           \A q \in Procs \ {p} : job'[q] = job[q],
           UNCHANGED <<config, expired, sent>>,
           vouched \subseteq vouched', vouched' \subseteq DOMAIN sent,
           Known(job'[p], Request(p)) => job[p].id \in vouched',
           \A h \in handled' : \/ h \in handled
                               \/ h.id = job[p].id /\ (Guarded(Request(p)) => h.id \in vouched'),
           \A i \in DOMAIN log' : (i \in DOMAIN log /\ log'[i] = log[i]) \/ log'[i].id \in vouched'
    PROVE  VInv'
  <1>1. UNCHANGED <<secret, staffSecret, hasAudit>>
    BY DEF config
  <1>2. GenuineVouched'
    BY <1>1 DEF VInv, GenuineVouched, Genuine
  <1>3. JobsVouched'
    <2> SUFFICES ASSUME NEW q \in Procs, job'[q].id # 0, Known(job'[q], sent'[job'[q].id])
                 PROVE  job'[q].id \in vouched'
      BY DEF JobsVouched, Request, Known
    <2>1. CASE q = p
      BY <2>1 DEF Request
    <2>2. CASE q # p
      BY <2>2 DEF VInv, JobsVouched, Request
    <2> QED BY <2>1, <2>2
  <1>4. HandledVouched'
    BY DEF VInv, HandledVouched, Request
  <1>5. LogVouched'
    BY DEF VInv, LogVouched
  <1> QED BY <1>2, <1>3, <1>4, <1>5 DEF VInv

\* A goroutine that stays at its layer, records nothing and handles nothing.
LEMMA StayVouched ==
    ASSUME VInv, IInv', NEW p \in Procs, job[p].id # 0, job'[p].id = job[p].id,
           job'[p].at = job[p].at, \A q \in Procs \ {p} : job'[q] = job[q],
           UNCHANGED <<config, expired, log, sent, handled>>,
           vouched \subseteq vouched', vouched' \subseteq DOMAIN sent
    PROVE  VInv'
  <1>1. Known(job'[p], Request(p)) => job[p].id \in vouched'
    BY DEF VInv, JobsVouched, Known
  <1> QED BY <1>1, StepVouched

\* A layer that goes on does so for a request that is vouched for.
LEMMA PassVouched ==
    ASSUME VInv, IInv', NEW p \in Procs, NEW ctx,
           Forward(p, ctx) \/ ForwardWithHeader(p, ctx),
           job[p].id # 0, job[p].id \in vouched',
           UNCHANGED <<config, expired, log, sent, handled>>,
           vouched \subseteq vouched', vouched' \subseteq DOMAIN sent
    PROVE  VInv'
  <1>1. /\ \A q \in Procs \ {p} : job'[q] = job[q]
        /\ job'[p].id = job[p].id
    BY AnyForward DEF VInv
  <1> QED BY <1>1, StepVouched

\* A layer that parses the token finds a request that is vouched for.
LEMMA ParsedIsVouched ==
    ASSUME VInv, NEW p \in Procs, job[p].id \in DOMAIN sent, parseToken(Cred(p))
    PROVE  job[p].id \in vouched
  <1>1. Genuine(sent[job[p].id].cred)
    BY DEF parseToken, Genuine, Cred, Request
  <1> QED BY <1>1 DEF VInv, GenuineVouched

\* Dual, JWT and RequireStaff go on for a token they parsed, or for a caller that
\* an outer layer knows.
LEMMA LayerVouched ==
    ASSUME VInv, IInv', NEW p \in Procs, Dual(p) \/ JWT(p) \/ RequireStaff(p)
    PROVE  VInv'
  <1>1. UNCHANGED <<config, expired, log, sent, vouched, handled>> /\ job[p].phase = "down"
    BY DEF Dual, JWT, RequireStaff, Enters
  <1>2. IInv /\ vouched \subseteq DOMAIN sent
    BY DEF VInv
  <1>3. /\ job[p].id # 0 /\ job[p].id \in DOMAIN sent
        /\ Request(p) \in Requests /\ JobOK(job[p], Request(p))
    BY <1>1, <1>2, Serving
  <1>4. CASE \E status \in {401, 403, 500} : Answer(p, status)
    <2>1. PICK status \in {401, 403, 500} : Answer(p, status)
      BY <1>4
    <2>2. /\ job'[p].id = job[p].id /\ job'[p].at = job[p].at
          /\ \A q \in Procs \ {p} : job'[q] = job[q]
      BY <1>2, <2>1, AnswerShape
    <2> QED BY <1>1, <1>2, <1>3, <2>2, StayVouched
  <1>5. CASE job' = [job EXCEPT ![p].phase = "validate"]
    <2>1. /\ job'[p].id = job[p].id /\ job'[p].at = job[p].at
          /\ \A q \in Procs \ {p} : job'[q] = job[q]
      BY <1>2, <1>5, PhaseShape DEF Phases
    <2> QED BY <1>1, <1>2, <1>3, <2>1, StayVouched
  <1>6. CASE parseToken(Cred(p)) /\ \E ctx : Forward(p, ctx) \/ ForwardWithHeader(p, ctx)
    BY <1>1, <1>2, <1>3, <1>6, ParsedIsVouched, PassVouched
  <1>7. CASE job[p].ctx.isStaff /\ Forward(p, job[p].ctx)
    <2>1. Known(job[p], Request(p))
      BY <1>3, <1>7, StaffIsKnown DEF JobOK
    <2>2. job[p].id \in vouched
      BY <1>3, <2>1 DEF VInv, JobsVouched
    <2> QED BY <1>1, <1>2, <1>3, <1>7, <2>2, PassVouched
  <1>8. \/ \E status \in {401, 403, 500} : Answer(p, status)
        \/ job' = [job EXCEPT ![p].phase = "validate"]
        \/ parseToken(Cred(p)) /\ \E ctx : Forward(p, ctx) \/ ForwardWithHeader(p, ctx)
        \/ job[p].ctx.isStaff /\ Forward(p, job[p].ctx)
    <2>1. CASE Dual(p)
      BY <2>1 DEF Dual
    <2>2. CASE JWT(p)
      BY <2>2 DEF JWT
    <2>3. CASE RequireStaff(p)
      BY <2>3 DEF RequireStaff
    <2> QED BY <2>1, <2>2, <2>3
  <1> QED BY <1>4, <1>5, <1>6, <1>7, <1>8

\* Dual goes on with an API token only when orbit-auth answered with an identity.
LEMMA ValidateVouched ==
    ASSUME VInv, IInv', NEW p \in Procs, ValidateAPIToken(p) PROVE VInv'
  <1>1. job[p].phase = "validate" /\ UNCHANGED <<config, expired, log, sent, handled>>
    BY DEF ValidateAPIToken
  <1>2. IInv /\ vouched \subseteq DOMAIN sent
    BY DEF VInv
  <1>3. job[p].id # 0 /\ job[p].id \in DOMAIN sent
    BY <1>1, <1>2, Serving
  <1>4. vouched \subseteq vouched' /\ vouched' \subseteq DOMAIN sent
    BY <1>2, <1>3 DEF ValidateAPIToken, Vouch
  <1>5. CASE \E status \in {401, 403} : Answer(p, status)
    <2>1. PICK status \in {401, 403} : Answer(p, status)
      BY <1>5
    <2>2. /\ job'[p].id = job[p].id /\ job'[p].at = job[p].at
          /\ \A q \in Procs \ {p} : job'[q] = job[q]
      BY <1>2, <2>1, AnswerShape
    <2> QED BY <1>1, <1>3, <1>4, <2>2, StayVouched
  <1>6. PICK ctx : ctx = [job[p].ctx EXCEPT !.user = Cred(p).user, !.isStaff = FALSE]
    OBVIOUS
  <1>7. CASE job[p].id \in vouched' /\ ForwardWithHeader(p, ctx)
    BY <1>1, <1>3, <1>4, <1>7, PassVouched
  <1>8. \/ \E status \in {401, 403} : Answer(p, status)
        \/ job[p].id \in vouched' /\ ForwardWithHeader(p, ctx)
    <2>1. PICK ok \in BOOLEAN : Vouch(job[p].id, ok) /\ ServeAPIToken(p, ok)
      BY DEF ValidateAPIToken
    <2>2. CASE ok
      <3>1. job[p].id \in vouched'
        BY <2>1, <2>2 DEF Vouch
      <3>2. (\E status \in {401, 403} : Answer(p, status)) \/ ForwardWithHeader(p, ctx)
        <4>1. Answer(p, 403) \/
              ForwardWithHeader(p, [job[p].ctx EXCEPT !.user = Cred(p).user, !.isStaff = FALSE])
          BY <2>1, <2>2 DEF ServeAPIToken
        <4>2. Answer(p, 403) \/ ForwardWithHeader(p, ctx)
          BY <1>6, <4>1, Zenon
        <4> QED BY <4>2
      <3> QED BY <3>1, <3>2
    <2>3. CASE ~ok
      <3>1. Answer(p, 401)
        BY <2>1, <2>3 DEF ServeAPIToken
      <3> QED BY <3>1
    <2> QED BY <2>2, <2>3
  <1> QED BY <1>5, <1>7, <1>8

\* A hook on the way down authenticates nobody.
LEMMA AuditHookVouched ==
    ASSUME VInv, IInv', NEW p \in Procs, AuditHook(p) PROVE VInv'
  <1>1. /\ Enters(p, "AuditHook") /\ UNCHANGED <<config, expired, log, sent, vouched, handled>>
        /\ job' = [job EXCEPT ![p].hooks = Append(@, job[p].ctx), ![p].at = @ + 1]
    BY DEF AuditHook
  <1>2. IInv /\ vouched \subseteq DOMAIN sent
    BY DEF VInv
  <1>3. PICK k, j, r : k = job'[p] /\ j = job[p] /\ r = Request(p)
    OBVIOUS
  <1>4. /\ j.id # 0 /\ j \in Jobs /\ r \in Requests /\ j.at \in DOMAIN r.chain
        /\ r.chain[j.at] = "AuditHook"
    BY <1>1, <1>2, <1>3, Entering DEF JobOK, Vetted
  <1>5. /\ k \in Jobs /\ k.id = j.id /\ k.at = j.at + 1
        /\ \A q \in Procs \ {p} : job'[q] = job[q]
    BY <1>1, <1>2, <1>3, HookShape
  <1>6. Known(k, r) => Known(j, r)
    BY <1>4, <1>5, OneFurther DEF Authenticating
  <1>7. Known(k, r) => j.id \in vouched
    BY <1>3, <1>4, <1>6 DEF VInv, JobsVouched
  <1> QED BY <1>1, <1>2, <1>3, <1>4, <1>5, <1>7, StepVouched

\* A hook on the way up records only a caller that is vouched for.
LEMMA RecordHookVouched ==
    ASSUME VInv, IInv', NEW p \in Procs, RecordHook(p) PROVE VInv'
  <1>1. /\ job[p].phase = "up" /\ LeaveHook(p)
        /\ UNCHANGED <<config, expired, sent, vouched, handled>>
    BY DEF RecordHook
  <1>2. IInv /\ vouched \subseteq DOMAIN sent
    BY DEF VInv
  <1>3. PICK k, j, r : k = job'[p] /\ j = job[p] /\ r = Request(p)
    OBVIOUS
  <1>4. j.id # 0 /\ j \in Jobs /\ r \in Requests /\ JobOK(j, r) /\ j.hooks # <<>>
    BY <1>1, <1>2, <1>3, Serving DEF JobOK, Placed
  <1>5. k.id = j.id /\ k.at = j.at /\ \A q \in Procs \ {p} : job'[q] = job[q]
    BY <1>1, <1>2, <1>3, <1>4, LeaveShape
  <1>6. Known(j, r) => j.id \in vouched
    BY <1>3, <1>4 DEF VInv, JobsVouched
  <1>7. Known(k, r) => j.id \in vouched
    BY <1>5, <1>6 DEF Known
  <1>8. PICK l : l \in DOMAIN j.hooks /\ l = Len(j.hooks)
    BY <1>4 DEF Jobs
  <1>9. PICK e : e = HookRecord(j.id, r, j.hooks[l])
    OBVIOUS
  <1>10. HookEntry(p, job[p].hooks[Len(job[p].hooks)]) = e
    BY <1>3, <1>8, <1>9 DEF HookEntry, HookRecord
  <1>11. log' = log \/ (e.actor # Empty /\ log' = Append(log, e))
    BY <1>10 DEF RecordHook, RecordAudit
  <1>12. e.actor # Empty => e.id \in vouched
    <2>1. e.id = j.id
      BY <1>9 DEF HookRecord
    <2> QED BY <1>4, <1>6, <1>8, <1>9, <2>1, HookIsKnown
  <1>13. \A i \in DOMAIN log' : (i \in DOMAIN log /\ log'[i] = log[i]) \/ log'[i].id \in vouched'
    BY <1>1, <1>2, <1>11, <1>12, LogAppended
  <1> QED BY <1>1, <1>2, <1>3, <1>4, <1>5, <1>7, <1>13, StepVouched

\* A guarded handler is reached, and break-glass access recorded, only for a
\* request that is vouched for.
LEMMA HandlerVouched ==
    ASSUME VInv, IInv', NEW p \in Procs, App(p) \/ HandleStaffBreakGlass(p) PROVE VInv'
  <1>1. /\ Handle(p) /\ UNCHANGED <<config, expired, sent, vouched>>
        /\ job[p].phase = "down" /\ Request(p).chain[job[p].at] \in Handlers
    BY DEF App, HandleStaffBreakGlass, Enters, Handlers
  <1>2. IInv /\ vouched \subseteq DOMAIN sent
    BY DEF VInv
  <1>3. PICK j, r : j = job[p] /\ r = Request(p)
    OBVIOUS
  <1>4. /\ j.id # 0 /\ j \in Jobs /\ r \in Requests /\ Vetted(j, r)
        /\ j.at \in DOMAIN r.chain
    BY <1>1, <1>2, <1>3, Serving DEF JobOK, Vetted
  <1>5. Known(j, r) => j.id \in vouched
    BY <1>3, <1>4 DEF VInv, JobsVouched
  <1>6. \A h \in handled' : h \in handled \/ (h.id = j.id /\ (Guarded(r) => h.id \in vouched'))
    BY <1>1, <1>3, <1>4, <1>5, AtHandler DEF Handle
  <1>7. /\ job'[p].id = j.id /\ job'[p].at = j.at
        /\ \A q \in Procs \ {p} : job'[q] = job[q]
    <2>1. CASE \E status \in {200, 400, 403, 500} : Answer(p, status)
      <3>1. PICK status \in {200, 400, 403, 500} : Answer(p, status)
        BY <2>1
      <3> QED BY <1>2, <1>3, <3>1, AnswerShape
    <2>2. CASE job' = [job EXCEPT ![p].phase = "grant"]
      BY <1>2, <1>3, <2>2, PhaseShape DEF Phases
    <2>3. \/ \E status \in {200, 400, 403, 500} : Answer(p, status)
          \/ job' = [job EXCEPT ![p].phase = "grant"]
      <3>1. CASE App(p)
        BY <3>1 DEF App
      <3>2. CASE HandleStaffBreakGlass(p)
        BY <3>2 DEF HandleStaffBreakGlass
      <3> QED BY <3>1, <3>2
    <2> QED BY <2>1, <2>2, <2>3
  <1>8. Known(job'[p], r) => j.id \in vouched'
    BY <1>1, <1>5, <1>7 DEF Known
  <1>9. log' = log \/ (j.ctx.isStaff /\ log' = Append(log, BreakGlassEntry(p)))
    BY <1>3 DEF App, HandleStaffBreakGlass, RecordAudit
  <1>10. j.ctx.isStaff => BreakGlassEntry(p).id \in vouched
    BY <1>3, <1>4, <1>5, StaffIsKnown DEF BreakGlassEntry
  <1>11. \A i \in DOMAIN log' : (i \in DOMAIN log /\ log'[i] = log[i]) \/ log'[i].id \in vouched'
    BY <1>1, <1>2, <1>9, <1>10, LogAppended
  <1> QED BY <1>1, <1>2, <1>3, <1>4, <1>6, <1>7, <1>8, <1>11, StepVouched

\* A request that arrives with a genuine token is vouched for; it has passed nothing.
LEMMA ArriveVouched ==
    ASSUME VInv, IInv', NEW p \in Procs, NEW r \in Requests, Arrive(p, r) PROVE VInv'
  <1>1. PICK n, k : n = Len(sent) + 1 /\ k = FreshJob(n, r)
    OBVIOUS
  <1>2. /\ sent' = Append(sent, r) /\ job' = [job EXCEPT ![p] = k]
        /\ Vouch(n, Genuine(r.cred)) /\ UNCHANGED <<config, expired, log, handled>>
    BY <1>1 DEF Arrive, FreshJob
  <1>3. IInv /\ vouched \subseteq DOMAIN sent
    BY DEF VInv
  <1>4. /\ n \in Nat /\ DOMAIN sent' = DOMAIN sent \cup {n} /\ sent'[n] = r
        /\ \A i \in DOMAIN sent : sent'[i] = sent[i]
    BY <1>1, <1>2, <1>3 DEF IInv
  <1>5. /\ vouched \subseteq vouched' /\ vouched' \subseteq DOMAIN sent'
        /\ Genuine(r.cred) => n \in vouched'
    BY <1>2, <1>3, <1>4 DEF Vouch
  <1>6. UNCHANGED <<secret, staffSecret, hasAudit>>
    BY <1>2 DEF config
  <1>7. GenuineVouched'
    BY <1>2, <1>4, <1>5, <1>6 DEF VInv, GenuineVouched, Genuine
  <1>8. JobsVouched'
    <2> SUFFICES ASSUME NEW q \in Procs, job'[q].id # 0, Known(job'[q], sent'[job'[q].id])
                 PROVE  job'[q].id \in vouched'
      BY DEF JobsVouched, Request, Known
    <2>1. job'[p] = k /\ \A o \in Procs \ {p} : job'[o] = job[o]
      BY <1>2, <1>3 DEF IInv, JobsOK
    <2>2. CASE q = p
      <3>1. k.at = 1
        BY <1>1, <1>4, FreshJobOK
      <3> QED BY <2>1, <2>2, <3>1 DEF Known
    <2>3. CASE q # p
      <3>1. job[q].id \in DOMAIN sent /\ job'[q] = job[q]
        BY <1>3, <2>1, <2>3 DEF IInv, JobsOK
      <3> QED BY <1>4, <1>5, <3>1 DEF VInv, JobsVouched, Request
    <2> QED BY <2>2, <2>3
  <1>9. HandledVouched'
    BY <1>2, <1>3, <1>4, <1>5 DEF VInv, HandledVouched, IInv, HandledOK
  <1>10. LogVouched'
    BY <1>2, <1>5 DEF VInv, LogVouched
  <1> QED BY <1>5, <1>7, <1>8, <1>9, <1>10 DEF VInv

\* A token that expires takes nothing back that a layer already decided.
LEMMA ExpireVouched ==
    ASSUME VInv, IInv', UNCHANGED <<config, log, sent, vouched, handled, job>>,
           expired \subseteq expired'
    PROVE  VInv'
  <1>1. UNCHANGED <<secret, staffSecret, hasAudit>>
    BY DEF config
  <1>2. GenuineVouched'
    BY <1>1 DEF VInv, GenuineVouched, Genuine
  <1>3. JobsVouched'
    BY DEF VInv, JobsVouched, Request, Known
  <1>4. HandledVouched' /\ LogVouched'
    BY DEF VInv, HandledVouched, LogVouched
  <1> QED BY <1>2, <1>3, <1>4 DEF VInv

\* A restart leaves nobody in flight, handled or recorded.
LEMMA RestartVouched ==
    ASSUME VInv, IInv', Restart PROVE VInv'
  <1>1. /\ log' = <<>> /\ handled' = {} /\ job' = [p \in Procs |-> NoJob]
        /\ UNCHANGED <<config, expired, sent, vouched>>
    BY DEF Restart
  <1>2. UNCHANGED <<secret, staffSecret, hasAudit>>
    BY <1>1 DEF config
  <1>3. GenuineVouched'
    BY <1>1, <1>2 DEF VInv, GenuineVouched, Genuine
  <1>4. JobsVouched' /\ HandledVouched' /\ LogVouched'
    BY <1>1 DEF JobsVouched, HandledVouched, LogVouched, NoJob
  <1> QED BY <1>1, <1>3, <1>4 DEF VInv

\* Every step preserves it.
LEMMA NextVInv == VInv /\ [Next]_vars => VInv'
  <1> SUFFICES ASSUME VInv, [Next]_vars PROVE VInv'
    OBVIOUS
  <1>1. IInv'
    BY NextIInv DEF VInv
  <1>2. ASSUME NEW p \in Procs, NEW r \in Requests, Arrive(p, r) PROVE VInv'
    BY <1>1, <1>2, ArriveVouched
  <1>3. ASSUME NEW p \in Procs, Grant(p) PROVE VInv'
    <2>1. /\ job[p].phase = "grant" /\ Answer(p, 200)
          /\ UNCHANGED <<config, expired, log, sent, vouched, handled>>
      BY <1>3 DEF Grant
    <2>2. IInv /\ vouched \subseteq DOMAIN sent
      BY DEF VInv
    <2>3. job[p].id # 0
      BY <2>1, <2>2, Serving
    <2>4. /\ job'[p].id = job[p].id /\ job'[p].at = job[p].at
          /\ \A q \in Procs \ {p} : job'[q] = job[q]
      BY <2>1, <2>2, AnswerShape
    <2> QED BY <1>1, <2>1, <2>2, <2>3, <2>4, StayVouched
  <1>4. ASSUME NEW p \in Procs, Step(p) PROVE VInv'
    BY <1>1, <1>3, <1>4, LayerVouched, AuditHookVouched, RecordHookVouched, HandlerVouched DEF Step
  <1>5. ASSUME NEW p \in Procs, ValidateAPIToken(p) PROVE VInv'
    BY <1>1, <1>5, ValidateVouched
  <1>6. ASSUME NEW p \in Procs, Expire(p) PROVE VInv'
    BY <1>1, <1>6, ExpireVouched DEF Expire
  <1>7. ASSUME Restart PROVE VInv'
    BY <1>1, <1>7, RestartVouched
  <1>8. ASSUME UNCHANGED vars PROVE VInv'
    BY <1>1, <1>8, ExpireVouched DEF vars, config
  <1> QED BY <1>2, <1>4, <1>5, <1>6, <1>7, <1>8 DEF Next

-----------------------------------------------------------------------------
\* The theorems.

\* In every reachable state, what a request has passed, what was handled behind
\* an authenticating layer and what is in the log is vouched for.
THEOREM VouchedInvariance == Spec => []VInv
  <1>1. Init => VInv
    BY InitIInv DEF Init, VInv, GenuineVouched, JobsVouched, HandledVouched, LogVouched, NoJob
  <1> QED BY <1>1, NextVInv, PTL DEF Spec

\* The state of the requests, the log and what was handled is well-formed.
THEOREM TypeCorrect == Spec => []TypeOK
  <1>1. VInv => TypeOK
    <2> SUFFICES ASSUME VInv, IInv PROVE TypeOK
      BY DEF VInv
    <2>1. \A h \in handled : h.id \in DOMAIN sent
      BY DEF IInv, HandledOK
    <2>2. \A i \in DOMAIN log : log[i].id \in DOMAIN sent
      BY DEF IInv, LogOK
    <2>3. ASSUME NEW p \in Procs
          PROVE  /\ job[p].phase \in Phases
                 /\ job[p].id \in 0..Len(sent)
                 /\ job[p].phase # "done" => /\ job[p].id > 0
                                             /\ job[p].at \in DOMAIN Request(p).chain
                 /\ job[p].phase = "up" => job[p].hooks # <<>>
      <3>1. job[p] \in Jobs /\ sent \in Seq(Requests)
        BY DEF IInv, JobsOK
      <3>2. job[p].phase \in Phases /\ job[p].id \in Nat
        BY <3>1 DEF Jobs
      <3>3. job[p].id = 0 \/ job[p].id \in DOMAIN sent
        BY DEF IInv, JobsOK
      <3>4. job[p].id \in 0..Len(sent)
        BY <3>1, <3>2, <3>3
      <3>5. job[p].phase # "done" => /\ job[p].id > 0
                                     /\ job[p].at \in DOMAIN Request(p).chain
        BY <3>2, Serving DEF JobOK, Vetted
      <3>6. job[p].phase = "up" => job[p].hooks # <<>>
        BY Serving DEF JobOK, Placed
      <3> QED BY <3>2, <3>4, <3>5, <3>6
    <2> QED BY <2>1, <2>2, <2>3 DEF TypeOK, IInv, VInv
  <1> QED BY <1>1, VouchedInvariance, PTL

\* No nesting of the layers, and no expiry between two of them, lets a request
\* reach a guarded handler that nobody vouches for or that its credential does not
\* entitle it to.
THEOREM EntitledOnly == Spec => []OnlyEntitledHandled
  <1>1. VInv => OnlyEntitledHandled
    BY DEF VInv, HandledVouched, IInv, HandledOK, OnlyEntitledHandled, scopesAllow
  <1> QED BY <1>1, VouchedInvariance, PTL

\* One credential is one identity, whichever layers looked at it, however often
\* and in whichever order.
THEOREM OneIdentity == Spec => []SameIdentityInEveryNesting
  <1>1. IInv => SameIdentityInEveryNesting
    BY DEF IInv, HandledOK, SameIdentityInEveryNesting
  <1> QED BY <1>1, Invariance, PTL

\* RequireStaff never tells a caller an outer layer knows to authenticate.
THEOREM ForbiddenNotUnauthorized == Spec => []KnownCallerIsForbidden
  <1>1. IInv => KnownCallerIsForbidden
    <2> SUFFICES ASSUME IInv, NEW p \in Procs, job[p].status = 401,
                        Request(p).chain[job[p].at] = "RequireStaff"
                 PROVE  job[p].ctx.user = Empty /\ ~job[p].ctx.isStaff
      BY DEF KnownCallerIsForbidden
    <2>1. job[p].id # 0
      BY DEF IInv, JobsOK, NoJob
    <2>2. Placed(job[p], Request(p))
      BY <2>1 DEF IInv, JobsOK, JobOK
    <2> QED BY <2>2 DEF Placed
  <1> QED BY <1>1, Invariance, PTL

\* The log names the caller that was authenticated, and nobody else.
THEOREM TruthfulAudit == Spec => []AuditTruthful
  <1>1. VInv => AuditTruthful
    BY DEF VInv, LogVouched, IInv, LogTruthful, Truthful, AuditTruthful
  <1> QED BY <1>1, VouchedInvariance, PTL

\* Whoever was granted break-glass access is staff with a reason and is listed.
THEOREM RecordedBreakGlass == Spec => []BreakGlassRecorded
  <1>1. IInv => BreakGlassRecorded
    <2> SUFFICES ASSUME IInv, NEW p \in Procs, job[p].status = 200,
                        Has(Request(p), "HandleStaffBreakGlass")
                 PROVE  /\ OfStaff(Cred(p)) /\ Cred(p).reason # Empty
                        /\ hasAudit =>
                              \E i \in ListByOrg(OrgOf(job[p].ctx, Request(p))) :
                                  /\ log[i].id = job[p].id /\ log[i].breakGlass
                                  /\ log[i].action = "break_glass.access"
                                  /\ log[i].reason = Cred(p).reason
      BY DEF BreakGlassRecorded
    <2>1. job[p].id # 0
      BY DEF IInv, JobsOK, NoJob
    <2>2. PICK j, r : j = job[p] /\ r = Request(p)
      OBVIOUS
    <2>3. JobOK(j, r) /\ r \in Requests /\ Cred(p) = r.cred
      BY <2>1, <2>2 DEF IInv, JobsOK, Request, Cred
    <2>4. Recorded(j, r)
      BY <2>2, <2>3 DEF JobOK, Placed
    <2>5. OfStaff(r.cred) /\ j.ctx.reason = r.cred.reason
      <3>1. /\ j.ctx = Identity(r.cred) /\ r.cred.kind = "jwt" /\ IsStaff(r.cred)
            /\ OfStaff(r.cred)
        BY <2>3, <2>4, StaffIsKnown DEF JobOK, Recorded
      <3> QED BY <3>1, JWTIdentity
    <2> QED BY <2>2, <2>3, <2>4, <2>5 DEF Recorded, ListByOrg
  <1> QED BY <1>1, Invariance, PTL

-----------------------------------------------------------------------------
\* The balance of the audit log, on top of the invariant.

\* What is counted is finite.
LEMMA FiniteCounts ==
    ASSUME IInv, NEW r \in Requests, NEW j \in Jobs, NEW n
    PROVE  /\ IsFiniteSet(EntriesOf(n)) /\ Cardinality(EntriesOf(n)) \in Nat
           /\ IsFiniteSet(Owed(j)) /\ Cardinality(Owed(j)) \in Nat
           /\ IsFiniteSet(HooksPassed(j, r)) /\ Cardinality(HooksPassed(j, r)) \in Nat
  <1>1. PICK a \in Nat : DOMAIN log = 1..a
    BY DEF IInv, LogOK
  <1>2. PICK b \in Nat : DOMAIN j.hooks = 1..b
    BY DEF Jobs
  <1>3. PICK c \in Nat : DOMAIN r.chain = 1..c
    BY ChainsAssumption
  <1>4. IsFiniteSet(1..a) /\ IsFiniteSet(1..b) /\ IsFiniteSet(1..c)
    BY FS_Interval
  <1>5. IsFiniteSet(EntriesOf(n))
    BY <1>1, <1>4, FS_Subset DEF EntriesOf
  <1>6. IsFiniteSet(Owed(j))
    BY <1>2, <1>4, FS_Subset DEF Owed
  <1>7. IsFiniteSet(HooksPassed(j, r))
    BY <1>3, <1>4, FS_Subset DEF HooksPassed, InnerHooks
  <1> QED BY <1>5, <1>6, <1>7, FS_CardinalityType

\* A caller with a name is told apart from nobody.
LEMMA NamedIdentity ==
    ASSUME NEW r \in Requests, Shown(r.cred), AuditName(r.cred) # Empty
    PROVE  /\ Identity(r.cred) # Background
           /\ \A n : HookRecord(n, r, Identity(r.cred)).actor # Empty
  <1>1. r.cred.kind \in {"oat", "jwt"}
    BY ShownKind
  <1>2. \A n : HookRecord(n, r, Identity(r.cred)).actor = AuditName(r.cred)
    BY <1>1, HookNames
  <1>3. \A n : HookRecord(n, r, Background).actor = Empty
    BY BackgroundFacts DEF HookRecord
  <1> QED BY <1>2, <1>3

\* A hook that was given nobody records nothing.
LEMMA BackgroundIsSilent ==
    ASSUME NEW r, NEW n
    PROVE  HookRecord(n, r, Background).actor = Empty
  BY BackgroundFacts DEF HookRecord

\* The hooks passed, one layer further.
LEMMA PassedFurther ==
    ASSUME NEW r \in Requests, NEW j \in Jobs, NEW k \in Jobs,
           j.at \in DOMAIN r.chain, k.at = j.at + 1
    PROVE  /\ HooksPassed(k, r) = HooksPassed(j, r) \cup ({j.at} \cap InnerHooks(r))
           /\ j.at \notin HooksPassed(j, r)
           /\ j.at \in InnerHooks(r) <=> r.chain[j.at] = "AuditHook" /\ Known(j, r)
  <1>1. j.at \in Nat
    BY DEF Jobs
  <1>2. \A i \in InnerHooks(r) : i \in Nat
    BY ChainFacts DEF InnerHooks
  <1>3. \A i \in InnerHooks(r) : i < k.at <=> i < j.at \/ i = j.at
    BY <1>1, <1>2
  <1> QED BY <1>1, <1>3 DEF HooksPassed, InnerHooks, Known

\* The end of the chain is past every hook.
LEMMA AllPassed ==
    ASSUME NEW r \in Requests, NEW j \in Jobs, j.at \in DOMAIN r.chain,
           r.chain[j.at] \in Handlers
    PROVE  HooksPassed(j, r) = InnerHooks(r)
  <1>1. j.at = Len(r.chain)
    BY ChainFacts
  <1>2. ASSUME NEW i \in InnerHooks(r) PROVE i < j.at
    <2>1. i \in DOMAIN r.chain /\ r.chain[i] \notin Handlers
      BY DEF InnerHooks, Handlers
    <2> QED BY <1>1, <2>1, ChainFacts
  <1> QED BY <1>2 DEF HooksPassed

\* A step of one goroutine disturbs the balance of no other request.
LEMMA CountsKept ==
    ASSUME IInv, Balanced, Settled,
           NEW p \in Procs, job[p].id # 0, NEW k \in Jobs, NEW r, r = Request(p),
           job' \in [Procs -> Jobs], job'[p] = k, k.id = job[p].id,
           \A q \in Procs \ {p} : job'[q] = job[q], UNCHANGED sent,
           JobBalanced(k, r)',
           \A n : n # job[p].id => EntriesOf(n)' = EntriesOf(n),
           \A h \in handled' : \/ h \in handled
                               \/ h.id = job[p].id /\ r.chain[job[p].at] \in Handlers,
           r.chain[job[p].at] \in Handlers => k.at = job[p].at
    PROVE  Balanced' /\ Settled'
  <1>1. Balanced'
    <2> SUFFICES ASSUME NEW q \in Procs, job'[q].id # 0
                 PROVE  JobBalanced(job[q], Request(q))'
      BY DEF Balanced
    <2>1. CASE q = p
      <3>1. job'[q] = k /\ Request(q)' = r
        BY <2>1 DEF Request
      <3> QED BY <3>1 DEF JobBalanced, HooksPassed, Owed
    <2>2. CASE q # p
      <3>1. job'[q] = job[q] /\ Request(q)' = Request(q) /\ job[q].id # job[p].id
        BY <2>2 DEF Request, IInv, OwnRequests
      <3>2. JobBalanced(job[q], Request(q))
        BY <3>1 DEF Balanced
      <3>3. EntriesOf(job[q].id)' = EntriesOf(job[q].id)
        BY <3>1 DEF EntriesOf
      <3> QED BY <3>1, <3>2, <3>3 DEF JobBalanced, HooksPassed, Owed
    <2> QED BY <2>1, <2>2
  <1>2. Settled'
    <2> SUFFICES ASSUME NEW h \in handled'
                 PROVE  /\ \A q \in Procs : job'[q].id = h.id =>
                               sent'[job'[q].id].chain[job'[q].at] \in Handlers
                        /\ (\A q \in Procs : job'[q].id # h.id) /\ AuditName(sent'[h.id].cred) # Empty
                              => Cardinality(EntriesOf(h.id)') = Cardinality(InnerHooks(sent'[h.id]))
      BY DEF Settled, Request
    <2>1. CASE h.id = job[p].id
      <3>1. r.chain[job[p].at] \in Handlers
        BY <2>1 DEF Settled
      <3>2. ASSUME NEW q \in Procs, job'[q].id = h.id
            PROVE  sent'[job'[q].id].chain[job'[q].at] \in Handlers
        <4>1. q = p
          BY <2>1, <3>2 DEF IInv, OwnRequests
        <4> QED BY <3>1, <4>1 DEF Request
      <3> QED BY <2>1, <3>2
    <2>2. CASE h.id # job[p].id
      <3>1. h \in handled /\ EntriesOf(h.id)' = EntriesOf(h.id)
        BY <2>2
      <3>2. ASSUME NEW q \in Procs, job'[q].id = h.id
            PROVE  sent'[job'[q].id].chain[job'[q].at] \in Handlers
        BY <2>2, <3>1, <3>2 DEF Settled, Request
      <3>3. (\A q \in Procs : job'[q].id # h.id) => \A q \in Procs : job[q].id # h.id
        BY <2>2
      <3> QED BY <3>1, <3>2, <3>3 DEF Settled
    <2> QED BY <2>1, <2>2
  <1> QED BY <1>1, <1>2

\* An answer, or a step within a layer, that writes no request entry.
LEMMA StayCounts ==
    ASSUME IInv, IInv', Balanced, Settled, NEW p \in Procs, job[p].id # 0,
           job'[p].id = job[p].id, job'[p].at = job[p].at, job'[p].hooks = job[p].hooks,
           \A q \in Procs \ {p} : job'[q] = job[q], UNCHANGED sent,
           \A n : EntriesOf(n)' = EntriesOf(n),
           \A h \in handled' : \/ h \in handled
                               \/ h.id = job[p].id /\ Request(p).chain[job[p].at] \in Handlers
    PROVE  Balanced' /\ Settled'
  <1>1. PICK k, j, r : k = job'[p] /\ j = job[p] /\ r = Request(p)
    OBVIOUS
  <1>2. job' \in [Procs -> Jobs] /\ k \in Jobs
    BY <1>1 DEF IInv, JobsOK
  <1>3. JobBalanced(j, r)
    BY <1>1 DEF Balanced
  <1>4. EntriesOf(k.id)' = EntriesOf(j.id)
    BY <1>1 DEF EntriesOf
  <1>5. Owed(k) = Owed(j) /\ HooksPassed(k, r) = HooksPassed(j, r)
    BY <1>1 DEF Owed, HooksPassed
  <1>6. JobBalanced(k, r)'
    BY <1>3, <1>4, <1>5 DEF JobBalanced
  <1> QED BY <1>1, <1>2, <1>6, CountsKept

\* An authenticating layer that goes on is no hook.
LEMMA PassCounts ==
    ASSUME IInv, IInv', Balanced, Settled, NEW p \in Procs, NEW layer \in Authenticating,
           Request(p).chain[job[p].at] = layer, job[p].phase # "done",
           job'[p].id = job[p].id, job'[p].at = job[p].at + 1, job'[p].hooks = job[p].hooks,
           \A q \in Procs \ {p} : job'[q] = job[q], UNCHANGED <<sent, log, handled>>
    PROVE  Balanced' /\ Settled'
  <1>1. PICK k, j, r : k = job'[p] /\ j = job[p] /\ r = Request(p)
    OBVIOUS
  <1>2. job' \in [Procs -> Jobs] /\ k \in Jobs
    BY <1>1 DEF IInv, JobsOK
  <1>3. j.id # 0 /\ j \in Jobs /\ r \in Requests /\ j.at \in DOMAIN r.chain
    BY <1>1, Serving DEF JobOK, Vetted
  <1>4. JobBalanced(j, r)
    BY <1>1, <1>3 DEF Balanced
  <1>5. r.chain[j.at] # "AuditHook" /\ r.chain[j.at] \notin Handlers
    BY <1>1 DEF Authenticating, Handlers
  <1>6. HooksPassed(k, r) = HooksPassed(j, r)
    <2>1. k.at = j.at + 1
      BY <1>1
    <2>2. /\ HooksPassed(k, r) = HooksPassed(j, r) \cup ({j.at} \cap InnerHooks(r))
          /\ j.at \notin InnerHooks(r)
      BY <1>2, <1>3, <1>5, <2>1, PassedFurther
    <2> QED BY <2>2
  <1>7. Owed(k) = Owed(j) /\ EntriesOf(k.id)' = EntriesOf(j.id) /\ \A n : EntriesOf(n)' = EntriesOf(n)
    BY <1>1 DEF Owed, EntriesOf
  <1>8. JobBalanced(k, r)'
    BY <1>4, <1>6, <1>7 DEF JobBalanced
  <1> QED BY <1>1, <1>2, <1>3, <1>5, <1>7, <1>8, CountsKept

\* A hook on the way down that is given the caller will owe an entry.
LEMMA AuditHookCounts ==
    ASSUME IInv, IInv', Balanced, Settled, NEW p \in Procs, AuditHook(p)
    PROVE  Balanced' /\ Settled'
  <1>1. /\ Enters(p, "AuditHook") /\ UNCHANGED <<config, expired, log, sent, handled>>
        /\ job' = [job EXCEPT ![p].hooks = Append(@, job[p].ctx), ![p].at = @ + 1]
    BY DEF AuditHook
  <1>2. PICK k, j, r : k = job'[p] /\ j = job[p] /\ r = Request(p)
    OBVIOUS
  <1>3. /\ j.id # 0 /\ j \in Jobs /\ r \in Requests /\ JobOK(j, r)
        /\ r.chain[j.at] = "AuditHook" /\ j.at \in DOMAIN r.chain
    BY <1>1, <1>2, Entering DEF JobOK, Vetted
  <1>4. /\ job' \in [Procs -> Jobs] /\ \A q \in Procs \ {p} : job'[q] = job[q]
        /\ k \in Jobs /\ k.id = j.id /\ k.at = j.at + 1
        /\ k.hooks = Append(j.hooks, j.ctx)
    BY <1>1, <1>2, HookShape
  <1>5. JobBalanced(j, r)
    BY <1>2, <1>3 DEF Balanced
  <1>6. EntriesOf(k.id)' = EntriesOf(j.id) /\ \A n : EntriesOf(n)' = EntriesOf(n)
    BY <1>1, <1>4 DEF EntriesOf
  <1>7. /\ IsFiniteSet(Owed(j)) /\ IsFiniteSet(HooksPassed(j, r))
        /\ Cardinality(EntriesOf(j.id)) \in Nat /\ Cardinality(Owed(j)) \in Nat
        /\ Cardinality(HooksPassed(j, r)) \in Nat
    BY <1>3, FiniteCounts
  <1> DEFINE l == Len(j.hooks) + 1
  <1>8. /\ l \notin Owed(j)
        /\ Owed(k) = IF j.ctx = Background THEN Owed(j) ELSE Owed(j) \cup {l}
    <2>1. j.hooks \in Seq(Contexts) /\ j.ctx \in Contexts
      BY <1>3 DEF Jobs
    <2>2. /\ DOMAIN k.hooks = DOMAIN j.hooks \cup {l} /\ l \notin DOMAIN j.hooks
          /\ k.hooks[l] = j.ctx /\ \A i \in DOMAIN j.hooks : k.hooks[i] = j.hooks[i]
      BY <1>4, <2>1
    <2> HIDE DEF l
    <2> QED BY <2>2 DEF Owed
  <1> HIDE DEF l
  <1>9. /\ HooksPassed(k, r) = HooksPassed(j, r) \cup ({j.at} \cap InnerHooks(r))
        /\ j.at \notin HooksPassed(j, r)
        /\ j.at \in InnerHooks(r) <=> Known(j, r)
    BY <1>3, <1>4, PassedFurther
  <1>10. JobBalanced(k, r)'
    <2> SUFFICES ASSUME AuditName(r.cred) # Empty
                 PROVE  Cardinality(EntriesOf(j.id)) + Cardinality(Owed(k))
                            = Cardinality(HooksPassed(k, r))
      BY <1>6 DEF JobBalanced
    <2>1. Cardinality(EntriesOf(j.id)) + Cardinality(Owed(j)) = Cardinality(HooksPassed(j, r))
      BY <1>5 DEF JobBalanced
    <2>2. CASE Known(j, r)
      <3>1. j.ctx # Background
        BY <1>3, <2>2, NamedIdentity DEF JobOK, Vetted
      <3>2. Owed(k) = Owed(j) \cup {l} /\ HooksPassed(k, r) = HooksPassed(j, r) \cup {j.at}
        BY <1>8, <1>9, <2>2, <3>1
      <3>3. /\ Cardinality(Owed(k)) = Cardinality(Owed(j)) + 1
            /\ Cardinality(HooksPassed(k, r)) = Cardinality(HooksPassed(j, r)) + 1
        BY <1>7, <1>8, <1>9, <3>2, FS_AddElement
      <3> QED BY <1>7, <2>1, <3>3
    <2>3. CASE ~Known(j, r)
      <3>1. j.ctx = Background
        BY <1>3, <2>3 DEF JobOK, Vetted
      <3>2. Owed(k) = Owed(j) /\ HooksPassed(k, r) = HooksPassed(j, r)
        BY <1>8, <1>9, <2>3, <3>1
      <3> QED BY <2>1, <3>2
    <2> QED BY <2>2, <2>3
  <1>11. r.chain[j.at] \notin Handlers
    BY <1>3 DEF Handlers
  <1> QED BY <1>1, <1>2, <1>3, <1>4, <1>6, <1>10, <1>11, CountsKept

\* A hook on the way up pays what it owes.
LEMMA RecordHookCounts ==
    ASSUME IInv, IInv', Balanced, Settled, hasAudit, NEW p \in Procs, RecordHook(p)
    PROVE  Balanced' /\ Settled'
  <1>1. /\ job[p].phase = "up" /\ LeaveHook(p)
        /\ UNCHANGED <<config, expired, sent, handled>>
    BY DEF RecordHook
  <1>2. PICK k, j, r : k = job'[p] /\ j = job[p] /\ r = Request(p)
    OBVIOUS
  <1>3. /\ j.id # 0 /\ j \in Jobs /\ r \in Requests /\ JobOK(j, r) /\ j.hooks # <<>>
    BY <1>1, <1>2, Serving DEF JobOK, Placed
  <1>4. /\ job' \in [Procs -> Jobs] /\ \A q \in Procs \ {p} : job'[q] = job[q]
        /\ k \in Jobs /\ k.id = j.id /\ k.at = j.at
        /\ k.hooks = SubSeq(j.hooks, 1, Len(j.hooks) - 1)
    BY <1>1, <1>2, <1>3, LeaveShape
  <1>5. PICK l : l \in DOMAIN j.hooks /\ l = Len(j.hooks) /\ j.hooks[l] \in Contexts
    BY <1>3 DEF Jobs
  <1>6. PICK e : e = HookRecord(j.id, r, j.hooks[l])
    OBVIOUS
  <1>7. HookEntry(p, job[p].hooks[Len(job[p].hooks)]) = e
    BY <1>2, <1>5, <1>6 DEF HookEntry, HookRecord
  <1>8. log' = IF e.actor = Empty THEN log ELSE Append(log, e)
    BY <1>7 DEF RecordHook, RecordAudit
  <1>9. e.id = j.id /\ e.action = "request"
    BY <1>6 DEF HookRecord
  <1>10. Owed(k) = Owed(j) \ {l}
    <2>1. j.hooks \in Seq(Contexts)
      BY <1>3 DEF Jobs
    <2>2. DOMAIN k.hooks = DOMAIN j.hooks \ {l} /\ \A i \in DOMAIN k.hooks : k.hooks[i] = j.hooks[i]
      BY <1>4, <1>5, <2>1
    <2> QED BY <2>2 DEF Owed
  <1>11. /\ IsFiniteSet(Owed(j)) /\ IsFiniteSet(EntriesOf(j.id))
         /\ Cardinality(EntriesOf(j.id)) \in Nat /\ Cardinality(Owed(j)) \in Nat
         /\ Cardinality(HooksPassed(j, r)) \in Nat
    BY <1>3, FiniteCounts
  <1>12. HooksPassed(k, r) = HooksPassed(j, r) /\ JobBalanced(j, r)
    BY <1>2, <1>3, <1>4 DEF HooksPassed, Balanced
  <1> DEFINE m == Len(log) + 1
  <1>13. CASE e.actor = Empty
    <2>1. \A n : EntriesOf(n)' = EntriesOf(n)
      BY <1>8, <1>13 DEF EntriesOf
    <2>2. ASSUME AuditName(r.cred) # Empty PROVE l \notin Owed(j)
      <3>1. CASE j.hooks[l] = Background
        BY <3>1 DEF Owed
      <3>2. CASE Known(j, r) /\ j.hooks[l] = Identity(r.cred)
        <4>1. Shown(r.cred)
          BY <1>3, <3>2 DEF JobOK, Vetted
        <4>2. e.actor # Empty
          BY <1>3, <1>6, <2>2, <3>2, <4>1, NamedIdentity
        <4> QED BY <1>13, <4>2
      <3> QED BY <1>3, <1>5, <3>1, <3>2 DEF JobOK, HooksVetted
    <2>3. AuditName(r.cred) # Empty => Owed(k) = Owed(j)
      BY <1>10, <2>2
    <2>4. EntriesOf(k.id)' = EntriesOf(j.id)
      BY <1>4, <1>8, <1>13 DEF EntriesOf
    <2>5. JobBalanced(k, r)'
      BY <1>12, <2>3, <2>4 DEF JobBalanced
    <2> QED BY <1>1, <1>2, <1>3, <1>4, <2>1, <2>5, CountsKept
  <1>14. CASE e.actor # Empty
    <2>1. /\ DOMAIN log' = DOMAIN log \cup {m} /\ m \notin DOMAIN log
          /\ log'[m] = e /\ \A i \in DOMAIN log : log'[i] = log[i]
      BY <1>8, <1>14 DEF IInv, LogOK
    <2> HIDE DEF m
    <2>2. \A n : n # j.id => EntriesOf(n)' = EntriesOf(n)
      BY <1>9, <2>1 DEF EntriesOf
    <2>3. EntriesOf(j.id)' = EntriesOf(j.id) \cup {m} /\ m \notin EntriesOf(j.id)
      BY <1>9, <2>1 DEF EntriesOf
    <2>4. l \in Owed(j)
      BY <1>5, <1>6, <1>14, BackgroundIsSilent DEF Owed
    <2>5. Cardinality(EntriesOf(j.id)') = Cardinality(EntriesOf(j.id)) + 1
      BY <1>11, <2>3, FS_AddElement
    <2>6. Cardinality(Owed(k)) = Cardinality(Owed(j)) - 1
      BY <1>10, <1>11, <2>4, FS_RemoveElement
    <2>7. Cardinality(EntriesOf(j.id)') + Cardinality(Owed(k))
              = Cardinality(EntriesOf(j.id)) + Cardinality(Owed(j))
      BY <1>11, <2>5, <2>6
    <2>8. EntriesOf(k.id)' = EntriesOf(j.id)'
      BY <1>4 DEF EntriesOf
    <2>9. JobBalanced(k, r)'
      BY <1>12, <2>7, <2>8 DEF JobBalanced
    <2> QED BY <1>1, <1>2, <1>3, <1>4, <2>2, <2>9, CountsKept
  <1> QED BY <1>13, <1>14

\* An answer outside the handlers.
LEMMA RefuseCounts ==
    ASSUME IInv, IInv', Balanced, Settled, NEW p \in Procs, job[p].phase # "done",
           NEW status \in Nat, Answer(p, status), UNCHANGED <<log, sent, handled>>
    PROVE  Balanced' /\ Settled'
  <1>1. job[p].id # 0
    BY Serving
  <1>2. /\ \A q \in Procs \ {p} : job'[q] = job[q]
        /\ job'[p].id = job[p].id /\ job'[p].at = job[p].at /\ job'[p].hooks = job[p].hooks
    BY AnswerShape
  <1>3. \A n : EntriesOf(n)' = EntriesOf(n)
    BY DEF EntriesOf
  <1> QED BY <1>1, <1>2, <1>3, StayCounts

\* The authenticating layers write nothing.
LEMMA LayerCounts ==
    ASSUME IInv, IInv', Balanced, Settled, NEW p \in Procs,
           Dual(p) \/ ValidateAPIToken(p) \/ JWT(p) \/ RequireStaff(p)
    PROVE  Balanced' /\ Settled'
  <1>1. UNCHANGED <<config, expired, log, sent, handled>>
    BY DEF Dual, ValidateAPIToken, JWT, RequireStaff
  <1>2. job[p].phase # "done"
    BY DEF Dual, ValidateAPIToken, JWT, RequireStaff, Enters
  <1>3. PICK layer \in Authenticating : Request(p).chain[job[p].at] = layer
    <2>1. CASE job[p].phase = "validate"
      <3>1. Request(p).chain[job[p].at] = "Dual"
        BY <2>1, Serving DEF JobOK, Placed
      <3> QED BY <3>1 DEF Authenticating
    <2>2. CASE job[p].phase # "validate"
      BY <2>2 DEF Dual, ValidateAPIToken, JWT, RequireStaff, Enters, Authenticating
    <2> QED BY <2>1, <2>2
  <1>4. CASE \E status \in {401, 403, 500} : Answer(p, status)
    <2>1. PICK status \in {401, 403, 500} : Answer(p, status)
      BY <1>4
    <2> QED BY <1>1, <1>2, <2>1, RefuseCounts
  <1>5. CASE \E ctx : Forward(p, ctx) \/ ForwardWithHeader(p, ctx)
    <2>1. PICK ctx : Forward(p, ctx) \/ ForwardWithHeader(p, ctx)
      BY <1>5
    <2>2. /\ \A q \in Procs \ {p} : job'[q] = job[q]
          /\ job'[p].id = job[p].id /\ job'[p].at = job[p].at + 1
          /\ job'[p].hooks = job[p].hooks
      BY <2>1, AnyForward
    <2> QED BY <1>1, <1>2, <1>3, <2>2, PassCounts
  <1>6. CASE job' = [job EXCEPT ![p].phase = "validate"]
    <2>1. /\ \A q \in Procs \ {p} : job'[q] = job[q]
          /\ job'[p].id = job[p].id /\ job'[p].at = job[p].at /\ job'[p].hooks = job[p].hooks
      BY <1>6, PhaseShape DEF Phases
    <2>2. \A n : EntriesOf(n)' = EntriesOf(n)
      BY <1>1 DEF EntriesOf
    <2>3. job[p].id # 0
      BY <1>2, Serving
    <2> QED BY <1>1, <2>1, <2>2, <2>3, StayCounts
  <1>7. \/ \E status \in {401, 403, 500} : Answer(p, status)
        \/ \E ctx : Forward(p, ctx) \/ ForwardWithHeader(p, ctx)
        \/ job' = [job EXCEPT ![p].phase = "validate"]
    <2>1. CASE Dual(p)
      BY <2>1 DEF Dual
    <2>2. CASE ValidateAPIToken(p)
      <3>1. \/ \E status \in {401, 403} : Answer(p, status)
            \/ ForwardWithHeader(p, [job[p].ctx EXCEPT !.user = Cred(p).user, !.isStaff = FALSE])
        BY <2>2 DEF ValidateAPIToken, ServeAPIToken
      <3>2. CASE \E status \in {401, 403} : Answer(p, status)
        BY <3>2
      <3>3. PICK ctx : ctx = [job[p].ctx EXCEPT !.user = Cred(p).user, !.isStaff = FALSE]
        OBVIOUS
      <3>4. CASE ForwardWithHeader(p, [job[p].ctx EXCEPT !.user = Cred(p).user, !.isStaff = FALSE])
        <4>1. ForwardWithHeader(p, ctx)
          BY <3>3, <3>4, Zenon
        <4> QED BY <4>1
      <3> QED BY <3>1, <3>2, <3>4, Zenon
    <2>3. CASE JWT(p)
      BY <2>3 DEF JWT
    <2>4. CASE RequireStaff(p)
      BY <2>4 DEF RequireStaff
    <2> QED BY <2>1, <2>2, <2>3, <2>4
  <1> QED BY <1>4, <1>5, <1>6, <1>7

\* The handlers write no request entry.
LEMMA HandlerCounts ==
    ASSUME IInv, IInv', Balanced, Settled, NEW p \in Procs,
           App(p) \/ HandleStaffBreakGlass(p)
    PROVE  Balanced' /\ Settled'
  <1>1. Handle(p) /\ UNCHANGED sent
    BY DEF App, HandleStaffBreakGlass
  <1>2. job[p].phase # "done" /\ Request(p).chain[job[p].at] \in Handlers
    BY DEF App, HandleStaffBreakGlass, Enters, Handlers
  <1>3. job[p].id # 0
    BY <1>2, Serving
  <1>4. \A h \in handled' : h \in handled \/ h.id = job[p].id
    BY <1>1 DEF Handle
  <1>5. /\ \A q \in Procs \ {p} : job'[q] = job[q]
        /\ job'[p].id = job[p].id /\ job'[p].at = job[p].at /\ job'[p].hooks = job[p].hooks
    <2>1. CASE \E status \in {200, 400, 403, 500} : Answer(p, status)
      <3>1. PICK status \in {200, 400, 403, 500} : Answer(p, status)
        BY <2>1
      <3> QED BY <3>1, AnswerShape
    <2>2. CASE job' = [job EXCEPT ![p].phase = "grant"]
      BY <2>2, PhaseShape DEF Phases
    <2>3. \/ \E status \in {200, 400, 403, 500} : Answer(p, status)
          \/ job' = [job EXCEPT ![p].phase = "grant"]
      <3>1. CASE App(p)
        BY <3>1 DEF App
      <3>2. CASE HandleStaffBreakGlass(p)
        BY <3>2 DEF HandleStaffBreakGlass
      <3> QED BY <3>1, <3>2
    <2> QED BY <2>1, <2>2, <2>3
  <1>6. \A n : EntriesOf(n)' = EntriesOf(n)
    <2>1. CASE log' = log
      BY <2>1 DEF EntriesOf
    <2>2. CASE log' = Append(log, BreakGlassEntry(p))
      <3> DEFINE m == Len(log) + 1
      <3>1. BreakGlassEntry(p).action = "break_glass.access"
        BY DEF BreakGlassEntry
      <3>2. /\ DOMAIN log' = DOMAIN log \cup {m} /\ m \notin DOMAIN log
            /\ log'[m] = BreakGlassEntry(p) /\ \A i \in DOMAIN log : log'[i] = log[i]
        BY <2>2 DEF IInv, LogOK
      <3> HIDE DEF m
      <3> QED BY <3>1, <3>2 DEF EntriesOf
    <2>3. log' = log \/ log' = Append(log, BreakGlassEntry(p))
      BY DEF App, HandleStaffBreakGlass, RecordAudit
    <2> QED BY <2>1, <2>2, <2>3
  <1> QED BY <1>1, <1>2, <1>3, <1>4, <1>5, <1>6, StayCounts

\* A finished request is completely recorded: no hook is left to run.
LEMMA DoneIsComplete ==
    ASSUME IInv, Balanced, NEW p \in Procs, job[p].id # 0, job[p].phase = "done",
           Request(p).chain[job[p].at] \in Handlers, AuditName(Request(p).cred) # Empty
    PROVE  Cardinality(EntriesOf(job[p].id)) = Cardinality(InnerHooks(Request(p)))
  <1>1. PICK j, r : j = job[p] /\ r = Request(p)
    OBVIOUS
  <1>2. j \in Jobs /\ r \in Requests /\ JobOK(j, r)
    BY <1>1 DEF IInv, JobsOK, Request
  <1>3. j.hooks = <<>> /\ j.at \in DOMAIN r.chain
    BY <1>1, <1>2 DEF JobOK, Placed, Vetted
  <1>4. Owed(j) = {}
    BY <1>3 DEF Owed
  <1>5. HooksPassed(j, r) = InnerHooks(r)
    BY <1>1, <1>2, <1>3, AllPassed
  <1>6. JobBalanced(j, r)
    BY <1>1 DEF Balanced
  <1>7. Cardinality(EntriesOf(j.id)) \in Nat
    BY <1>2, FiniteCounts
  <1> QED BY <1>1, <1>4, <1>5, <1>6, <1>7, FS_EmptySet DEF JobBalanced

\* A goroutine that takes a new request leaves a complete one behind.
LEMMA ArriveCounts ==
    ASSUME IInv, IInv', Balanced, Settled, NEW p \in Procs, NEW r \in Requests, Arrive(p, r)
    PROVE  Balanced' /\ Settled'
  <1>1. PICK n, k : n = Len(sent) + 1 /\ k = FreshJob(n, r)
    OBVIOUS
  <1>2. /\ job[p].phase = "done"
        /\ sent' = Append(sent, r) /\ job' = [job EXCEPT ![p] = k]
        /\ UNCHANGED <<config, expired, log, handled>>
    BY <1>1 DEF Arrive, FreshJob
  <1>3. /\ n \in Nat /\ n # 0 /\ n \notin DOMAIN sent /\ sent'[n] = r
        /\ \A i \in DOMAIN sent : sent'[i] = sent[i]
    BY <1>1, <1>2 DEF IInv
  <1>4. k \in Jobs /\ k.id = n /\ k.at = 1 /\ k.hooks = <<>>
    BY <1>1, <1>3, FreshJobOK
  <1>5. job'[p] = k /\ \A q \in Procs \ {p} : job'[q] = job[q]
    BY <1>2 DEF IInv, JobsOK
  <1>6. \A m : EntriesOf(m)' = EntriesOf(m)
    BY <1>2 DEF EntriesOf
  <1>7. Balanced'
    <2> SUFFICES ASSUME NEW q \in Procs, job'[q].id # 0
                 PROVE  JobBalanced(job[q], Request(q))'
      BY DEF Balanced
    <2>1. CASE q = p
      <3>1. job'[q] = k /\ Request(q)' = r
        BY <1>3, <1>4, <1>5, <2>1 DEF Request
      <3>2. EntriesOf(k.id)' = {}
        BY <1>2, <1>3, <1>4 DEF EntriesOf, IInv, LogOK
      <3>3. Owed(k) = {} /\ HooksPassed(k, r) = {}
        <4>1. \A i \in InnerHooks(r) : i >= 1 /\ i \in Nat
          BY ChainFacts DEF InnerHooks
        <4> QED BY <1>4, <4>1 DEF Owed, HooksPassed
      <3>4. JobBalanced(k, r)'
        BY <3>2, <3>3, FS_EmptySet DEF JobBalanced
      <3> QED BY <3>1, <3>4 DEF JobBalanced, HooksPassed, Owed
    <2>2. CASE q # p
      <3>1. job'[q] = job[q] /\ job[q].id # 0 /\ job[q].id \in DOMAIN sent
        BY <1>5, <2>2 DEF IInv, JobsOK
      <3>2. Request(q)' = Request(q) /\ JobBalanced(job[q], Request(q))
        BY <1>3, <3>1 DEF Request, Balanced
      <3>3. EntriesOf(job[q].id)' = EntriesOf(job[q].id)
        BY <1>2, <3>1 DEF EntriesOf
      <3> QED BY <3>1, <3>2, <3>3 DEF JobBalanced, HooksPassed, Owed
    <2> QED BY <2>1, <2>2
  <1>8. Settled'
    <2> SUFFICES ASSUME NEW h \in handled'
                 PROVE  /\ \A q \in Procs : job'[q].id = h.id =>
                               sent'[job'[q].id].chain[job'[q].at] \in Handlers
                        /\ (\A q \in Procs : job'[q].id # h.id) /\ AuditName(sent'[h.id].cred) # Empty
                              => Cardinality(EntriesOf(h.id)') = Cardinality(InnerHooks(sent'[h.id]))
      BY DEF Settled, Request
    <2>1. h \in handled /\ h.id \in DOMAIN sent /\ sent'[h.id] = sent[h.id] /\ h.id # n
      BY <1>2, <1>3 DEF IInv, HandledOK
    <2>2. ASSUME NEW q \in Procs, job'[q].id = h.id
          PROVE  sent'[job'[q].id].chain[job'[q].at] \in Handlers
      <3>1. job'[q] = job[q]
        BY <1>4, <1>5, <2>1, <2>2
      <3> QED BY <2>1, <2>2, <3>1 DEF Settled, Request
    <2>3. ASSUME \A q \in Procs : job'[q].id # h.id, AuditName(sent[h.id].cred) # Empty
          PROVE  Cardinality(EntriesOf(h.id)) = Cardinality(InnerHooks(sent[h.id]))
      <3>1. CASE job[p].id = h.id
        <4>1. Request(p) = sent[h.id] /\ Request(p).chain[job[p].at] \in Handlers /\ job[p].id # 0
          BY <2>1, <3>1 DEF Request, Settled, IInv
        <4>2. Cardinality(EntriesOf(job[p].id)) = Cardinality(InnerHooks(Request(p)))
          BY <1>2, <2>3, <4>1, DoneIsComplete
        <4> QED BY <3>1, <4>1, <4>2
      <3>2. CASE job[p].id # h.id
        <4>1. \A q \in Procs : job[q].id # h.id
          BY <1>5, <2>3, <3>2
        <4> QED BY <2>1, <2>3, <4>1 DEF Settled
      <3> QED BY <3>1, <3>2
    <2> QED BY <1>6, <2>1, <2>2, <2>3
  <1> QED BY <1>7, <1>8

\* A restart clears both sides.
LEMMA RestartCounts ==
    ASSUME Restart PROVE Balanced' /\ Settled'
  <1>1. handled' = {} /\ \A q \in Procs : job'[q].id = 0
    BY DEF Restart, NoJob
  <1> QED BY <1>1 DEF Balanced, Settled

\* A step that touches neither jobs nor log.
LEMMA IdleCounts ==
    ASSUME Balanced, Settled, UNCHANGED <<log, sent, handled, job>>
    PROVE  Balanced' /\ Settled'
  BY DEF Balanced, Settled, JobBalanced, EntriesOf, Request

\* The balance holds in every reachable state.
THEOREM CountInvariance == Spec => []CInv
  <1>1. Init => CInv
    <2> SUFFICES ASSUME Init PROVE CInv
      OBVIOUS
    <2>1. handled = {} /\ \A q \in Procs : job[q].id = 0
      BY DEF Init, NoJob
    <2> QED BY <2>1, InitIInv DEF CInv, Balanced, Settled
  <1>2. CInv /\ [Next]_vars => CInv'
    <2> SUFFICES ASSUME CInv, [Next]_vars PROVE CInv'
      OBVIOUS
    <2>1. IInv /\ IInv'
      BY NextIInv DEF CInv
    <2>2. UNCHANGED hasAudit
      BY DEF Next, Step, vars, config, Arrive, Dual, JWT, RequireStaff, AuditHook, RecordHook, App,
             HandleStaffBreakGlass, Grant, ValidateAPIToken, Expire, Restart
    <2> SUFFICES ASSUME hasAudit, Balanced, Settled PROVE Balanced' /\ Settled'
      BY <2>1, <2>2 DEF CInv
    <2>3. ASSUME NEW p \in Procs, NEW r \in Requests, Arrive(p, r) PROVE Balanced' /\ Settled'
      BY <2>1, <2>3, ArriveCounts
    <2>4. ASSUME NEW p \in Procs, Step(p) \/ ValidateAPIToken(p) PROVE Balanced' /\ Settled'
      <3>1. CASE Dual(p) \/ ValidateAPIToken(p) \/ JWT(p) \/ RequireStaff(p)
        BY <2>1, <3>1, LayerCounts
      <3>2. CASE AuditHook(p)
        BY <2>1, <3>2, AuditHookCounts
      <3>3. CASE RecordHook(p)
        BY <2>1, <3>3, RecordHookCounts
      <3>4. CASE App(p) \/ HandleStaffBreakGlass(p)
        BY <2>1, <3>4, HandlerCounts
      <3>5. CASE Grant(p)
        BY <2>1, <3>5, RefuseCounts DEF Grant
      <3> QED BY <2>4, <3>1, <3>2, <3>3, <3>4, <3>5 DEF Step
    <2>5. ASSUME NEW p \in Procs, Expire(p) PROVE Balanced' /\ Settled'
      BY <2>5, IdleCounts DEF Expire
    <2>6. ASSUME Restart PROVE Balanced' /\ Settled'
      BY <2>6, RestartCounts
    <2>7. ASSUME UNCHANGED vars PROVE Balanced' /\ Settled'
      BY <2>7, IdleCounts DEF vars
    <2> QED BY <2>3, <2>4, <2>5, <2>6, <2>7 DEF Next
  <1> QED BY <1>1, <1>2, PTL DEF Spec

\* With an audit log, a finished request of a named caller is recorded once per
\* hook that could see the caller: never missed, never recorded twice.
THEOREM CompleteAudit == Spec => []AuditComplete
  <1>1. CInv => AuditComplete
    <2> SUFFICES ASSUME CInv, hasAudit, NEW h \in handled, Finished(h.id),
                        AuditName(sent[h.id].cred) # Empty
                 PROVE  Cardinality(EntriesOf(h.id)) = Cardinality(InnerHooks(sent[h.id]))
      BY DEF AuditComplete
    <2>1. IInv /\ Balanced /\ Settled
      BY DEF CInv
    <2>2. CASE \A p \in Procs : job[p].id # h.id
      BY <2>1, <2>2 DEF Settled
    <2>3. CASE \E p \in Procs : job[p].id = h.id
      <3>1. PICK p \in Procs : job[p].id = h.id
        BY <2>3
      <3>2. /\ job[p].id # 0 /\ Request(p) = sent[h.id] /\ job[p].phase = "done"
            /\ Request(p).chain[job[p].at] \in Handlers
        BY <2>1, <3>1 DEF IInv, HandledOK, Request, Finished, Settled
      <3>3. Cardinality(EntriesOf(job[p].id)) = Cardinality(InnerHooks(Request(p)))
        BY <2>1, <3>2, DoneIsComplete
      <3> QED BY <3>1, <3>2, <3>3
    <2> QED BY <2>2, <2>3
  <1> QED BY <1>1, CountInvariance, PTL
=============================================================================
