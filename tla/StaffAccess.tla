---------------------------- MODULE StaffAccess ----------------------------
(***************************************************************************)
(* The bearer-token and staff middlewares of httpapi/middleware.go and the  *)
(* audit log they write.  The platform binary mounts none of them: a        *)
(* deployment nests Dual, JWT, RequireStaff and AuditHook around a handler, *)
(* so a request here names its chain, the outermost layer first, and the    *)
(* properties hold for every nesting in Requests.                           *)
(*                                                                          *)
(* A layer is one step.  It answers, or hands the request with a context of *)
(* its own to the next layer; AuditHook alone comes back after the answer,  *)
(* with the context it was given.  The absent string and "" are both Empty. *)
(***************************************************************************)
EXTENDS Naturals, Sequences, FiniteSets

CONSTANTS
    Procs,        \* request goroutines
    Requests,     \* [chain, cred, write, pathOrg, headerOrg, xUserID]
    Configs,      \* the [secret, staffSecret] a server is built with
    Empty,        \* the empty string
    MaxRequests   \* bound: requests in one behaviour

Authenticating == {"Dual", "JWT", "RequireStaff"}

Handlers == {"app", "HandleStaffBreakGlass"}

ASSUME ChainsAssumption ==
    \A r \in Requests :
        /\ r.chain \in Seq(Authenticating \cup {"AuditHook"} \cup Handlers)
        /\ Len(r.chain) > 0
        /\ \A j \in DOMAIN r.chain :
              IF j = Len(r.chain) THEN r.chain[j] \in Handlers
                                  ELSE r.chain[j] \in Authenticating \cup {"AuditHook"}

\* A credential is nothing, an oat_ API token with the identity orbit-auth has
\* for it, or a JWT with its signing secret and claims.
ASSUME CredentialsAssumption ==
    \A r \in Requests : r.cred.kind \in {"none", "oat", "jwt"}

Secrets == {c.secret : c \in Configs} \cup {c.staffSecret : c \in Configs}

Credentials == {r.cred : r \in Requests}

ASSUME BoundAssumption == MaxRequests \in Nat

-----------------------------------------------------------------------------
VARIABLES
    secret, staffSecret,  \* TokenAuth's two secrets
    hasAudit,   \* Service.HasAudit
    expired,    \* the JWTs whose exp has passed
    log,        \* memory.AuditStore.entries
    sent,       \* ghost: the requests so far, in order
    vouched,    \* ghost: the requests that somebody entitled to vouches for
    handled,    \* ghost: requests that reached their handler since the last start
    job         \* job[p]: what goroutine p is doing

vars == <<secret, staffSecret, hasAudit, expired, log, sent, vouched, handled, job>>

\* The request context: what the ...FromContext getters find.
Background == [user |-> Empty, isStaff |-> FALSE, staffSubject |-> Empty,
               breakGlass |-> FALSE, reason |-> Empty, org |-> Empty]

\* phase: "down" towards the handler, "validate" while orbit-auth looks at an
\* API token, "grant" between the break-glass record and its answer, "up" when
\* answered but audit hooks are still to run.  hooks: the contexts of the audit
\* hooks passed, innermost last.  xUserID: the X-User-Id header.
Phases == {"done", "down", "validate", "grant", "up"}

NoJob == [id |-> 0, at |-> 1, phase |-> "done", ctx |-> Background,
          hooks |-> <<>>, xUserID |-> Empty, status |-> 0]

\* WithStaffSecret ignores the empty string; NewTokenAuth starts from one secret.
Init ==
    /\ \E config \in Configs :
          /\ secret = config.secret
          /\ staffSecret = IF config.staffSecret = Empty THEN config.secret
                                                         ELSE config.staffSecret
    /\ hasAudit \in BOOLEAN
    /\ expired = {}
    /\ log = <<>>
    /\ sent = <<>>
    /\ vouched = {}
    /\ handled = {}
    /\ job = [p \in Procs |-> NoJob]

-----------------------------------------------------------------------------
\* Tokens.

\* The first of two strings that is not empty.
Or(a, b) == IF a # Empty THEN a ELSE b

Misconfigured == secret = Empty /\ staffSecret = Empty

\* HS256 under either secret, an empty one never; jwt/v5 checks exp.
parseToken(c) ==
    c.kind = "jwt" /\ c \notin expired /\ c.signedBy \in {secret, staffSecret} \ {Empty}

\* The claims of extractStaffIdentity.
IsStaff(c) == c.isStaff \/ c.staffSubject # Empty

StaffSubject(c) == Or(c.staffSubject, c.sub)

TargetOrg(c) == Or(Or(c.org, c.orgID), c.targetOrg)

\* The subject of jwtSubject and of RequireStaff.
Subject(c) == Or(c.sub, c.staffSubject)

\* A staff identity that fails to replace the subject of the token.
enrichContext_OnlySub(ctx, c, subject) ==
    LET base == [ctx EXCEPT !.user = subject, !.isStaff = IsStaff(c)] IN
    IF ~IsStaff(c) THEN base
    ELSE [base EXCEPT !.staffSubject = c.sub,
                      !.breakGlass = c.breakGlass,
                      !.reason = c.reason,
                      !.org = Or(TargetOrg(c), ctx.org)]

\* Only a staff token adds a staff subject, a reason and a target organization.
enrichContext(ctx, c, subject) ==
    LET base == [ctx EXCEPT !.user = subject, !.isStaff = IsStaff(c)] IN
    IF ~IsStaff(c) THEN base
    ELSE [base EXCEPT !.staffSubject = Or(StaffSubject(c), subject),
                      !.breakGlass = c.breakGlass,
                      !.reason = c.reason,
                      !.org = Or(TargetOrg(c), ctx.org)]

\* No scopes is full access; reading needs read or write, the rest write.
scopesAllow(write, scopes) ==
    scopes = {} \/ "write" \in scopes \/ (~write /\ "read" \in scopes)

-----------------------------------------------------------------------------
\* Helpers.

Request(p) == sent[job[p].id]

Cred(p) == Request(p).cred

\* Goroutine p is about to enter this layer.
Enters(p, layer) == job[p].phase = "down" /\ Request(p).chain[job[p].at] = layer

config == <<secret, staffSecret, hasAudit>>

\* Every answer goes back through a hook.
Answer_AlwaysUp(p, status) ==
    job' = [job EXCEPT ![p].status = status, ![p].phase = "up"]

\* Write the response; the hooks that were passed run next.
Answer(p, status) ==
    job' = [job EXCEPT ![p].status = status,
                       ![p].phase = IF job[p].hooks = <<>> THEN "done" ELSE "up"]

\* Hand the request to the next layer with a context of its own.
Forward(p, ctx) == job' = [job EXCEPT ![p].ctx = ctx, ![p].at = @ + 1]

\* r.Header.Set works on the header every layer shares.
ForwardWithHeader(p, ctx) ==
    job' = [job EXCEPT ![p].ctx = ctx, ![p].at = @ + 1, ![p].xUserID = ctx.user,
                       ![p].phase = "down"]

\* Service.RecordAudit over memory.AuditStore.Record.
RecordAudit(entry) == log' = IF hasAudit THEN Append(log, entry) ELSE log

\* Where an action is filed: the token's target, the path, the X-Org-Id header.
OrgOf(ctx, r) == Or(Or(ctx.org, r.pathOrg), r.headerOrg)

-----------------------------------------------------------------------------
\* Ghost: a JWT under a secret that is configured, whose time has not passed.
Genuine(c) ==
    /\ c.kind = "jwt" /\ c.signedBy # Empty /\ c.signedBy \in {secret, staffSecret}
    /\ c \notin expired

Vouch(id, ok) == vouched' = vouched \cup IF ok THEN {id} ELSE {}

\* A request arrives at the outermost layer of its chain.
Arrive(p, r) ==
    /\ job[p].phase = "done"
    /\ Len(sent) < MaxRequests
    /\ sent' = Append(sent, r)
    /\ job' = [job EXCEPT ![p] = [NoJob EXCEPT !.id = Len(sent) + 1, !.phase = "down",
                                                !.xUserID = r.xUserID]]
    /\ Vouch(Len(sent) + 1, Genuine(r.cred))
    /\ UNCHANGED <<config, expired, log, handled>>

-----------------------------------------------------------------------------
\* The authenticating layers.

\* Dual accepts an API token that orbit-auth knows, or a JWT.
Dual(p) ==
    /\ Enters(p, "Dual")
    /\ CASE Misconfigured -> Answer(p, 500)
         [] ~Misconfigured /\ Cred(p).kind = "oat" ->
                job' = [job EXCEPT ![p].phase = "validate"]
         [] ~Misconfigured /\ parseToken(Cred(p)) ->
                ForwardWithHeader(p, enrichContext(job[p].ctx, Cred(p), Subject(Cred(p))))
         [] OTHER -> Answer(p, 401)
    /\ UNCHANGED <<config, expired, log, sent, vouched, handled>>

\* An error of orbit-auth taken for an identity without a name.
ServeAPIToken_IgnoresError(p, ok) ==
    IF scopesAllow(Request(p).write, IF ok THEN Cred(p).scopes ELSE {})
      THEN ForwardWithHeader(p, [job[p].ctx EXCEPT !.user = IF ok THEN Cred(p).user ELSE Empty,
                                                   !.isStaff = FALSE])
      ELSE Answer(p, 403)

\* What Dual makes of orbit-auth's answer: an identity, or any error at all.
ServeAPIToken(p, ok) ==
    IF ~ok THEN Answer(p, 401)
    ELSE IF scopesAllow(Request(p).write, Cred(p).scopes)
      THEN ForwardWithHeader(p, [job[p].ctx EXCEPT !.user = Cred(p).user, !.isStaff = FALSE])
      ELSE Answer(p, 403)

\* orbit-auth answers ValidateAPIToken.
ValidateAPIToken(p) ==
    /\ job[p].phase = "validate"
    /\ \E ok \in BOOLEAN : Vouch(job[p].id, ok) /\ ServeAPIToken(p, ok)
    /\ UNCHANGED <<config, expired, log, sent, handled>>

\* JWT accepts only a JWT, and sets no header.
JWT(p) ==
    /\ Enters(p, "JWT")
    /\ CASE Misconfigured -> Answer(p, 500)
         [] ~Misconfigured /\ parseToken(Cred(p)) ->
                Forward(p, enrichContext(job[p].ctx, Cred(p), Subject(Cred(p))))
         [] OTHER -> Answer(p, 401)
    /\ UNCHANGED <<config, expired, log, sent, vouched, handled>>

\* A staff gate that looks at the token again whatever an outer layer found.
RequireStaff_Reparses(p) ==
    /\ Enters(p, "RequireStaff")
    /\ LET ctx == job[p].ctx IN
       CASE Misconfigured -> Answer(p, 500)
         [] ~Misconfigured /\ ctx.isStaff -> Forward(p, ctx)
         [] ~Misconfigured /\ ~ctx.isStaff ->
                IF ~parseToken(Cred(p)) THEN Answer(p, 401)
                ELSE IF ~IsStaff(Cred(p)) THEN Answer(p, 403)
                ELSE Forward(p, enrichContext(ctx, Cred(p), Subject(Cred(p))))
    /\ UNCHANGED <<config, expired, log, sent, vouched, handled>>

\* A staff gate that names the staff subject as the user.
RequireStaff_StaffSubjectAsUser(p) ==
    /\ Enters(p, "RequireStaff")
    /\ LET ctx == job[p].ctx IN
       CASE Misconfigured -> Answer(p, 500)
         [] ~Misconfigured /\ ctx.isStaff -> Forward(p, ctx)
         [] ~Misconfigured /\ ~ctx.isStaff /\ ctx.user # Empty -> Answer(p, 403)
         [] OTHER ->
                IF ~parseToken(Cred(p)) THEN Answer(p, 401)
                ELSE IF ~IsStaff(Cred(p)) THEN Answer(p, 403)
                ELSE Forward(p, enrichContext(ctx, Cred(p), StaffSubject(Cred(p))))
    /\ UNCHANGED <<config, expired, log, sent, vouched, handled>>

\* RequireStaff trusts the context of an outer layer, staff or tenant, and looks
\* at the token itself only when there is none.
RequireStaff(p) ==
    /\ Enters(p, "RequireStaff")
    /\ LET ctx == job[p].ctx IN
       CASE Misconfigured -> Answer(p, 500)
         [] ~Misconfigured /\ ctx.isStaff -> Forward(p, ctx)
         [] ~Misconfigured /\ ~ctx.isStaff /\ ctx.user # Empty -> Answer(p, 403)
         [] OTHER ->
                IF ~parseToken(Cred(p)) THEN Answer(p, 401)
                ELSE IF ~IsStaff(Cred(p)) THEN Answer(p, 403)
                ELSE Forward(p, enrichContext(ctx, Cred(p), Subject(Cred(p))))
    /\ UNCHANGED <<config, expired, log, sent, vouched, handled>>

-----------------------------------------------------------------------------
\* AuditHook: straight through on the way down, a record on the way up.

AuditHook(p) ==
    /\ Enters(p, "AuditHook")
    /\ job' = [job EXCEPT ![p].hooks = Append(@, job[p].ctx), ![p].at = @ + 1]
    /\ UNCHANGED <<config, expired, log, sent, vouched, handled>>

\* The entry for context ctx: staff act under their staff subject.
HookEntry(p, ctx) ==
    [id |-> job[p].id, action |-> "request",
     actor |-> IF ctx.isStaff THEN Or(ctx.staffSubject, ctx.user) ELSE ctx.user,
     actorType |-> IF ctx.isStaff THEN "staff" ELSE "user",
     breakGlass |-> ctx.breakGlass, reason |-> ctx.reason,
     org |-> OrgOf(ctx, Request(p))]

LeaveHook(p) ==
    LET rest == SubSeq(job[p].hooks, 1, Len(job[p].hooks) - 1) IN
    job' = [job EXCEPT ![p].hooks = rest, ![p].phase = IF rest = <<>> THEN "done" ELSE "up"]

\* Only a successful request is recorded.
RecordHook_OnlySuccess(p) ==
    /\ job[p].phase = "up"
    /\ LET entry == HookEntry(p, job[p].hooks[Len(job[p].hooks)]) IN
       IF entry.actor = Empty \/ job[p].status # 200 THEN UNCHANGED log ELSE RecordAudit(entry)
    /\ LeaveHook(p)
    /\ UNCHANGED <<config, expired, sent, vouched, handled>>

\* The innermost hook gets control back.  It reads the context it was given, not
\* the one its own layers made, and records whatever was answered; without an
\* actor it records nothing.
RecordHook(p) ==
    /\ job[p].phase = "up"
    /\ LET entry == HookEntry(p, job[p].hooks[Len(job[p].hooks)]) IN
       IF entry.actor = Empty THEN UNCHANGED log ELSE RecordAudit(entry)
    /\ LeaveHook(p)
    /\ UNCHANGED <<config, expired, sent, vouched, handled>>

-----------------------------------------------------------------------------
\* The handlers.

Handle(p) ==
    handled' = handled \cup {[id |-> job[p].id, ctx |-> job[p].ctx, xUserID |-> job[p].xUserID]}

\* The deployment's own handler: external, any answer.
App(p) ==
    /\ Enters(p, "app")
    /\ Handle(p)
    /\ \E status \in {200, 500} : Answer(p, status)
    /\ UNCHANGED <<config, expired, log, sent, vouched>>

BreakGlassEntry(p) ==
    [id |-> job[p].id, action |-> "break_glass.access", actor |-> job[p].ctx.staffSubject,
     actorType |-> "staff", breakGlass |-> TRUE, reason |-> job[p].ctx.reason,
     org |-> OrgOf(job[p].ctx, Request(p))]

\* A grant that, like AuditHook, skips the record when there is no actor.
HandleStaffBreakGlass_NeedsActor(p) ==
    /\ Enters(p, "HandleStaffBreakGlass")
    /\ Handle(p)
    /\ LET ctx == job[p].ctx IN
       IF ~ctx.isStaff THEN Answer(p, 403) /\ UNCHANGED log
       ELSE IF ctx.reason = Empty THEN Answer(p, 400) /\ UNCHANGED log
       ELSE /\ job' = [job EXCEPT ![p].phase = "grant"]
            /\ IF ctx.staffSubject = Empty THEN UNCHANGED log ELSE RecordAudit(BreakGlassEntry(p))
    /\ UNCHANGED <<config, expired, sent, vouched>>

\* Staff with a reason are granted access, recorded first.  The record is made
\* even when no subject is known; the break_glass claim is not looked at.
HandleStaffBreakGlass(p) ==
    /\ Enters(p, "HandleStaffBreakGlass")
    /\ Handle(p)
    /\ LET ctx == job[p].ctx IN
       IF ~ctx.isStaff THEN Answer(p, 403) /\ UNCHANGED log
       ELSE IF ctx.reason = Empty THEN Answer(p, 400) /\ UNCHANGED log
       ELSE /\ job' = [job EXCEPT ![p].phase = "grant"]
            /\ RecordAudit(BreakGlassEntry(p))
    /\ UNCHANGED <<config, expired, sent, vouched>>

Grant(p) ==
    /\ job[p].phase = "grant"
    /\ Answer(p, 200)
    /\ UNCHANGED <<config, expired, log, sent, vouched, handled>>

-----------------------------------------------------------------------------
\* The environment.

\* The exp of a JWT in use passes, perhaps between two layers that parse it.
Expire(p) ==
    /\ job[p].phase # "done"
    /\ Cred(p).kind = "jwt" /\ Cred(p) \notin expired
    /\ expired' = expired \cup {Cred(p)}
    /\ UNCHANGED <<config, log, sent, vouched, handled, job>>

\* The log lives in process memory: a restart drops it with the requests in flight.
Restart ==
    /\ log' = <<>>
    /\ handled' = {}
    /\ job' = [p \in Procs |-> NoJob]
    /\ UNCHANGED <<config, expired, sent, vouched>>

Step(p) ==
    \/ Dual(p) \/ JWT(p) \/ RequireStaff(p) \/ AuditHook(p) \/ RecordHook(p)
    \/ App(p) \/ HandleStaffBreakGlass(p) \/ Grant(p)

Next ==
    \/ \E p \in Procs, r \in Requests : Arrive(p, r)
    \/ \E p \in Procs : Step(p) \/ ValidateAPIToken(p) \/ Expire(p)
    \/ Restart

Spec == Init /\ [][Next]_vars

\* Goroutines run; orbit-auth need not answer.
FairSpec == Spec /\ \A p \in Procs : WF_vars(Step(p))

-----------------------------------------------------------------------------
\* Vocabulary of the properties: what a credential and a chain say by themselves.

Has(r, layer) == \E j \in DOMAIN r.chain : r.chain[j] = layer

Guarded(r) == \E layer \in Authenticating : Has(r, layer)

OfStaff(c) == c.kind = "jwt" /\ IsStaff(c)

\* The name a person's actions are filed under.
AuditName(c) ==
    CASE c.kind = "none" -> Empty
      [] c.kind = "oat"  -> c.user
      [] OTHER -> IF OfStaff(c) THEN Or(c.staffSubject, c.sub) ELSE c.sub

\* The audit hooks of a chain that have an authenticating layer around them.
InnerHooks(r) ==
    {j \in DOMAIN r.chain : /\ r.chain[j] = "AuditHook"
                            /\ \E i \in 1..(j - 1) : r.chain[i] \in Authenticating}

Finished(n) == \A p \in Procs : job[p].id = n => job[p].phase = "done"

EntriesOf(n) == {i \in DOMAIN log : log[i].id = n /\ log[i].action = "request"}

\* memory.AuditStore.ListByOrg: an empty organization lists everything.  The
\* entries it returns, by their positions, in the order of the log.
ListByOrg(orgID) == {i \in DOMAIN log : orgID = Empty \/ log[i].org = orgID}

-----------------------------------------------------------------------------
\* Properties.

\* The state of each request on its way through its layers: inside its chain while it
\* runs, on its way up only past a hook; the log speaks of requests that were sent.
TypeOK ==
    /\ {secret, staffSecret} \subseteq Secrets
    /\ hasAudit \in BOOLEAN
    /\ expired \subseteq Credentials
    /\ \A i \in DOMAIN log : log[i].id \in DOMAIN sent
    /\ sent \in Seq(Requests)
    /\ vouched \subseteq DOMAIN sent
    /\ \A h \in handled : h.id \in DOMAIN sent
    /\ \A p \in Procs :
          /\ job[p].phase \in Phases
          /\ job[p].id \in 0..Len(sent)
          /\ job[p].phase # "done" => /\ job[p].id > 0
                                      /\ job[p].at \in DOMAIN Request(p).chain
          /\ job[p].phase = "up" => job[p].hooks # <<>>

\* However the layers are nested and whatever expires between them, a handler
\* behind an authenticating layer runs only for a request that is vouched for: its
\* JWT was under a configured secret and in time when it arrived, or orbit-auth
\* answered ValidateAPIToken for it with an identity.  One behind RequireStaff
\* runs only for staff, and an API token does not get further than its scopes.
OnlyEntitledHandled ==
    \A h \in handled : LET r == sent[h.id] IN
        Guarded(r) =>
            /\ h.id \in vouched
            /\ Has(r, "RequireStaff") => OfStaff(r.cred)
            /\ r.cred.kind = "oat" =>
                  \/ r.cred.scopes = {} \/ "write" \in r.cred.scopes
                  \/ ~r.write /\ "read" \in r.cred.scopes

\* One credential is one identity: whichever layers authenticated it and in
\* whichever order, the handler finds the same context, and behind Dual the
\* X-User-Id header names the same user.
SameIdentityInEveryNesting ==
    /\ \A g, h \in handled :
          /\ sent[g.id].cred = sent[h.id].cred
          /\ Guarded(sent[g.id]) /\ Guarded(sent[h.id])
          => g.ctx = h.ctx
    /\ \A h \in handled : Has(sent[h.id], "Dual") => h.xUserID = h.ctx.user

\* "If the caller is authenticated as a tenant user or admin, it returns 403":
\* RequireStaff never tells a caller that an outer layer knows to authenticate,
\* not even when the token has expired since.
KnownCallerIsForbidden ==
    \A p \in Procs :
        /\ job[p].status = 401
        /\ Request(p).chain[job[p].at] = "RequireStaff"
        => job[p].ctx.user = Empty /\ ~job[p].ctx.isStaff

\* A handled request of a named caller is in the log once per hook that can see
\* the caller, whatever it was answered; a hook outside the authenticating
\* layers adds nothing.
AuditComplete ==
    hasAudit =>
        \A h \in handled :
            Finished(h.id) /\ AuditName(sent[h.id].cred) # Empty =>
                Cardinality(EntriesOf(h.id)) = Cardinality(InnerHooks(sent[h.id]))

\* An entry names the caller of a request that is vouched for, under the name and type
\* that caller always has, and a staff action under the token's own target.
AuditTruthful ==
    \A i \in DOMAIN log :
        LET e == log[i]
            r == sent[e.id]
            c == r.cred IN
        /\ Guarded(r) /\ e.id \in vouched
        /\ e.actor = AuditName(c)
        /\ e.actorType = "staff" <=> OfStaff(c)
        /\ e.reason # Empty => OfStaff(c) /\ e.reason = c.reason
        /\ IF OfStaff(c) /\ TargetOrg(c) # Empty THEN e.org = TargetOrg(c)
                                               ELSE e.org \in {r.pathOrg, r.headerOrg}

\* Whoever is told that break-glass access was granted is staff with a reason,
\* and the grant is already listed under the organization the answer names.
BreakGlassRecorded ==
    \A p \in Procs :
        /\ job[p].status = 200
        /\ Has(Request(p), "HandleStaffBreakGlass")
        => /\ OfStaff(Cred(p)) /\ Cred(p).reason # Empty
           /\ hasAudit =>
                 \E i \in ListByOrg(OrgOf(job[p].ctx, Request(p))) :
                     /\ log[i].id = job[p].id /\ log[i].breakGlass
                     /\ log[i].action = "break_glass.access"
                     /\ log[i].reason = Cred(p).reason

\* A handled request of a named caller is recorded in the end, unless the
\* process restarts first (which empties handled).
HandledIsRecorded ==
    \A n \in 1..MaxRequests :
        LET owed == /\ hasAudit
                    /\ \E h \in handled : h.id = n
                    /\ AuditName(sent[n].cred) # Empty /\ InnerHooks(sent[n]) # {}
                    /\ EntriesOf(n) = {} IN
        owed ~> ~owed
=============================================================================
