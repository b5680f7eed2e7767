------------------------------ MODULE Gateway ------------------------------
(***************************************************************************)
(* The ownership plane and OTP requests over the identifier budget they      *)
(* share, across restarts of the process.  Challenges, their store and the   *)
(* requests in flight die with the process; the buckets of a Redis limiter   *)
(* do not, those of the in-memory limiter (dev only) do.                     *)
(*                                                                          *)
(* The actions on challenges are those of Ownership.tla; CheckIdentifierLimit *)
(* gets the outcome that the budget dictates.                                *)
(***************************************************************************)
EXTENDS Ownership, FiniteSets

CONSTANTS
    OTPProcs,      \* goroutines that serve POST /auth/otp/request
    Limit,         \* OTPRequestIdentifierPolicy.Limit
    MaxRefills,    \* bound: tokens each bucket regains
    MaxOTPs,       \* bound: OTP requests in one behaviour
    MaxRestarts    \* bound: restarts in one behaviour

ASSUME BudgetAssumption ==
    /\ Limit \in Nat \ {0}
    /\ MaxRefills \in Nat /\ MaxOTPs \in Nat /\ MaxRestarts \in Nat

ASSUME GoroutinesAssumption == IsFiniteSet(Procs) /\ IsFiniteSet(OTPProcs)

VARIABLES
    limiter,     \* "redis" or "memory", chosen at start-up
    tokens,      \* tokens[n]: what the bucket of identifier n has left
    refills,     \* ghost: refills[n]: tokens it regained
    otp,         \* otp[q]: where OTP request goroutine q is
    asked,       \* ghost: OTP requests so far
    dispatched,  \* ghost: dispatched[n]: codes made for n, OTPs and challenges
    restarts     \* ghost: restarts so far

budget == <<limiter, tokens, refills>>

gvars == <<vars, budget, otp, asked, dispatched, restarts>>

Identifiers == Names \ {Blank}

\* The state of the composition: no bucket beyond its limit or below zero, and only
\* an addressable identifier at the limit check of RequestOTP.
GTypeOK ==
    /\ TypeOK
    /\ limiter \in {"redis", "memory"}
    /\ tokens \in [Identifiers -> 0..Limit]
    /\ refills \in [Identifiers -> Nat]
    /\ otp \in [OTPProcs -> [pc : {"idle"}] \cup [pc : {"limit"}, identifier : Identifiers]
                                           \cup [pc : {"call"}, identifier : Names]]
    /\ asked \in Nat
    /\ dispatched \in [Identifiers -> Nat]
    /\ restarts \in Nat

GInit ==
    /\ Init
    /\ limiter \in {"redis", "memory"}
    /\ tokens = [n \in Identifiers |-> Limit]
    /\ refills = [n \in Identifiers |-> 0]
    /\ otp = [q \in OTPProcs |-> Idle]
    /\ asked = 0
    /\ dispatched = [n \in Identifiers |-> 0]
    /\ restarts = 0

-----------------------------------------------------------------------------
\* The budget.

\* The last token is handed out again and again.
Charge_Overdraws(n) ==
    /\ tokens' = [tokens EXCEPT ![n] = @ - 1]
    /\ UNCHANGED <<limiter, refills>>

Charge(n) ==
    /\ tokens[n] > 0
    /\ tokens' = [tokens EXCEPT ![n] = @ - 1]
    /\ UNCHANGED <<limiter, refills>>

\* An outage may or may not have taken the token.
Outage(n) ==
    /\ \E spent \in {0, 1} : spent <= tokens[n] /\ tokens' = [tokens EXCEPT ![n] = @ - spent]
    /\ UNCHANGED <<limiter, refills>>

Regain(n) ==
    /\ tokens[n] < Limit /\ refills[n] < MaxRefills
    /\ tokens' = [tokens EXCEPT ![n] = @ + 1]
    /\ refills' = [refills EXCEPT ![n] = @ + 1]
    /\ UNCHANGED <<vars, limiter, otp, asked, dispatched, restarts>>

-----------------------------------------------------------------------------
\* Challenge, with the budget deciding its check.

LimitChallenge(p) ==
    /\ CheckIdentifierLimit(p)
    /\ LET n == job[p].email IN
       CASE answer'[p] = "limited"     -> tokens[n] = 0 /\ UNCHANGED budget
         [] answer'[p] = "unavailable" -> Outage(n)
         [] OTHER                      -> Charge(n)
    /\ UNCHANGED <<otp, asked, dispatched, restarts>>

DispatchChallenge(p) ==
    /\ Mint(p)
    /\ dispatched' = [dispatched EXCEPT ![job[p].email] = @ + 1]
    /\ UNCHANGED <<budget, otp, asked, restarts>>

\* The steps of the ownership plane that no budget governs.
Unmetered(p) ==
    /\ \/ \E s \in Spellings : StartChallenge(p, s)
       \/ \E s \in Spellings, cs \in CodeSpellings : StartVerify(p, s, cs)
       \/ Save(p)
       \/ Confirm(p)
    /\ UNCHANGED <<budget, otp, asked, dispatched, restarts>>

-----------------------------------------------------------------------------
\* RequestOTP.

\* A blank identifier has no bucket and goes straight on.
RequestOTP(q, s) ==
    /\ otp[q].pc = "idle" /\ asked < MaxOTPs
    /\ asked' = asked + 1
    /\ otp' = [otp EXCEPT ![q] = [pc |-> IF Normalize[s] = Blank THEN "call" ELSE "limit",
                                  identifier |-> Normalize[s]]]
    /\ UNCHANGED <<vars, budget, dispatched, restarts>>

\* The OTP check lets a request through when the limiter is down.
LimitOTP_FailsOpen(q) ==
    /\ otp[q].pc = "limit"
    /\ LET n == otp[q].identifier IN
       \/ (Charge(n) \/ Outage(n)) /\ otp' = [otp EXCEPT ![q].pc = "call"]
       \/ tokens[n] = 0 /\ UNCHANGED budget /\ otp' = [otp EXCEPT ![q] = Idle]
    /\ UNCHANGED <<vars, asked, dispatched, restarts>>

\* checkIdentifierLimit: only an admitted request goes on.
LimitOTP(q) ==
    /\ otp[q].pc = "limit"
    /\ LET n == otp[q].identifier IN
       \/ Charge(n) /\ otp' = [otp EXCEPT ![q].pc = "call"]
       \/ tokens[n] = 0 /\ UNCHANGED budget /\ otp' = [otp EXCEPT ![q] = Idle]
       \/ Outage(n) /\ otp' = [otp EXCEPT ![q] = Idle]
    /\ UNCHANGED <<vars, asked, dispatched, restarts>>

\* The request leaves for orbit-auth, which sends the code.
DispatchOTP(q) ==
    /\ otp[q].pc = "call"
    /\ dispatched' = IF otp[q].identifier = Blank THEN dispatched
                     ELSE [dispatched EXCEPT ![otp[q].identifier] = @ + 1]
    /\ otp' = [otp EXCEPT ![q] = Idle]
    /\ UNCHANGED <<vars, budget, asked, restarts>>

-----------------------------------------------------------------------------
\* The process restarts with the same environment, hence the same limiter.
GRestart ==
    /\ restarts < MaxRestarts
    /\ restarts' = restarts + 1
    /\ Restart
    /\ otp' = [q \in OTPProcs |-> Idle]
    /\ tokens' = IF limiter = "redis" THEN tokens ELSE [n \in Identifiers |-> Limit]
    /\ UNCHANGED <<limiter, refills, asked, dispatched>>

GNext ==
    \/ \E p \in Procs : LimitChallenge(p) \/ DispatchChallenge(p) \/ Unmetered(p)
    \/ \E q \in OTPProcs : \/ \E s \in Spellings : RequestOTP(q, s)
                           \/ LimitOTP(q) \/ DispatchOTP(q)
    \/ \E n \in Identifiers : Regain(n)
    \/ Tick /\ UNCHANGED <<budget, otp, asked, dispatched, restarts>>
    \/ GRestart

GSpec == GInit /\ [][GNext]_gvars

-----------------------------------------------------------------------------
\* Properties.

\* Codes made for one identifier, OTPs and challenges together, stay within one
\* budget: a restart gives a person no new attempts under Redis, and exactly one
\* full bucket more under the in-memory limiter.
CodesWithinBudget ==
    \A n \in Identifiers :
        dispatched[n] <= Limit + refills[n]
                         + (IF limiter = "memory" THEN restarts * Limit ELSE 0)
=============================================================================
