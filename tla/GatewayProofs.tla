--------------------------- MODULE GatewayProofs ---------------------------
(***************************************************************************)
(* Theorems about Gateway: the composition implements Ownership, so what is *)
(* proved of Ownership holds of it, and the codes made for an identifier    *)
(* stay within its budget.                                                  *)
(*                                                                          *)
(* CodesWithinBudget is not inductive: a request that was admitted makes    *)
(* its code only later.  Accounted counts it from its admission on.         *)
(***************************************************************************)
EXTENDS Gateway, OwnershipProofs, FiniteSetTheorems

\* Admitted, and the code not made yet.
Permits(n) == {p \in Procs : job[p].pc = "mint" /\ job[p].email = n}

OTPPermits(n) == {q \in OTPProcs : otp[q].pc = "call" /\ otp[q].identifier = n}

Load(n) == dispatched[n] + tokens[n] + Cardinality(Permits(n)) + Cardinality(OTPPermits(n))

\* What the buckets of n have ever held.
Grants(n) == Limit + refills[n] + (IF limiter = "memory" THEN restarts * Limit ELSE 0)

Accounted == \A n \in Identifiers : Load(n) <= Grants(n)

GIInv == GTypeOK /\ Accounted

-----------------------------------------------------------------------------

\* Every step of the composition is a step of Ownership or leaves its state alone.
LEMMA StepsMapToSteps ==
    ASSUME [GNext]_gvars
    PROVE  [Next]_vars
PROOF
  <1>1. ASSUME NEW p \in Procs, LimitChallenge(p)
        PROVE  Next
    BY <1>1 DEF LimitChallenge, Next, Step
  <1>2. ASSUME NEW p \in Procs, DispatchChallenge(p)
        PROVE  Next
    BY <1>2 DEF DispatchChallenge, Next, Step
  <1>3. ASSUME NEW p \in Procs, Unmetered(p)
        PROVE  Next
    BY <1>3 DEF Unmetered, Next, Step
  <1>4. ASSUME NEW q \in OTPProcs, NEW s \in Spellings, RequestOTP(q, s)
        PROVE  UNCHANGED vars
    BY <1>4 DEF RequestOTP
  <1>5. ASSUME NEW q \in OTPProcs, LimitOTP(q) \/ DispatchOTP(q)
        PROVE  UNCHANGED vars
    BY <1>5 DEF LimitOTP, DispatchOTP
  <1>6. ASSUME NEW n \in Identifiers, Regain(n)
        PROVE  UNCHANGED vars
    BY <1>6 DEF Regain
  <1>7. ASSUME Tick \/ GRestart
        PROVE  Next
    BY <1>7 DEF Next, GRestart
  <1>8. ASSUME UNCHANGED gvars
        PROVE  UNCHANGED vars
    BY <1>8 DEF gvars
  <1> QED
    BY <1>1, <1>2, <1>3, <1>4, <1>5, <1>6, <1>7, <1>8 DEF GNext

\* The budget and the restarts of GRestart add no behaviour to the ownership plane:
\* LimitChallenge takes one of the outcomes CheckIdentifierLimit allows, and the
\* OTP requests leave the challenge store alone.
LEMMA Composition == GSpec => Spec
PROOF
  <1>1. GInit => Init
    BY DEF GInit
  <1>2. [GNext]_gvars => [Next]_vars
    BY StepsMapToSteps
  <1> QED
    BY <1>1, <1>2, PTL DEF GSpec, Spec

\* However verifications race under the budget, a challenge yields at most one
\* proof, and the composition implements OneTimeCode.
THEOREM OneTimeUnderBudget == GSpec => []OneProofPerChallenge /\ ImplementsOneTimeCode
PROOF
  BY Composition, AtMostOneProof, Refinement, PTL

-----------------------------------------------------------------------------
\* The budget.

\* The permits out at any time can be counted: there are finitely many goroutines.
LEMMA PermitsFinite ==
    ASSUME NEW n
    PROVE  /\ IsFiniteSet(Permits(n)) /\ Cardinality(Permits(n)) \in Nat
           /\ IsFiniteSet(OTPPermits(n)) /\ Cardinality(OTPPermits(n)) \in Nat
PROOF
  <1>1. Permits(n) \in SUBSET Procs /\ OTPPermits(n) \in SUBSET OTPProcs
    BY DEF Permits, OTPPermits
  <1>2. IsFiniteSet(Permits(n)) /\ IsFiniteSet(OTPPermits(n))
    BY <1>1, GoroutinesAssumption, FS_Subset
  <1> QED BY <1>2, FS_CardinalityType

\* A goroutine of the ownership plane that moves gains a permit, loses it, or does
\* neither.
LEMMA JobMoves ==
    ASSUME NEW p \in Procs, NEW next, TypeOK, job' = [job EXCEPT ![p] = next], NEW n
    PROVE  /\ next.pc = "mint" /\ next.email = n => Permits(n)' = Permits(n) \cup {p}
           /\ ~ (next.pc = "mint" /\ next.email = n) => Permits(n)' = Permits(n) \ {p}
  BY DEF TypeOK, Permits

\* Permits change only with the goroutines that hold them.
LEMMA SamePermits ==
    /\ UNCHANGED job => \A n : Permits(n)' = Permits(n)
    /\ UNCHANGED otp => \A n : OTPPermits(n)' = OTPPermits(n)
  BY DEF Permits, OTPPermits

\* A step that grants nothing new keeps the account if no load grows.
LEMMA Balance ==
    ASSUME Accounted, UNCHANGED <<limiter, refills, restarts>>, GTypeOK,
           \A n \in Identifiers : Load(n)' \in Int /\ Load(n) \in Int /\ Load(n)' <= Load(n)
    PROVE  Accounted'
PROOF
  <1> SUFFICES ASSUME NEW n \in Identifiers PROVE (Load(n) <= Grants(n))'
    BY DEF Accounted
  <1>1. Grants(n)' = Grants(n)
    BY DEF Grants
  <1>2. restarts * Limit \in Int
    BY BudgetAssumption DEF GTypeOK
  <1>3. Grants(n) \in Int
    BY <1>2, BudgetAssumption DEF Grants, GTypeOK
  <1>4. Load(n)' <= Load(n) /\ Load(n) <= Grants(n) /\ Load(n)' \in Int /\ Load(n) \in Int
    BY DEF Accounted
  <1> HIDE DEF Load, Grants
  <1> QED BY <1>1, <1>3, <1>4

\* The load of an identifier is a number.
LEMMA LoadType ==
    ASSUME GTypeOK, NEW n \in Identifiers
    PROVE  Load(n) \in Int
  BY PermitsFinite, BudgetAssumption DEF Load, GTypeOK

\* The job of a goroutine that is not about to make a code may change to any other
\* such job.
LEMMA QuietJob ==
    ASSUME GIInv, TypeOK', NEW p \in Procs, NEW next,
           job[p].pc # "mint", next.pc # "mint",
           job' = [job EXCEPT ![p] = next],
           UNCHANGED <<budget, otp, asked, dispatched, restarts>>
    PROVE  GIInv'
PROOF
  <1>1. GTypeOK'
    BY DEF GIInv, GTypeOK, budget
  <1>2. ASSUME NEW n \in Identifiers
        PROVE  Load(n)' = Load(n)
    <2>1. p \notin Permits(n)
      BY DEF Permits
    <2>2. Permits(n)' = Permits(n) \ {p}
      BY JobMoves DEF GIInv, GTypeOK
    <2>3. Permits(n)' = Permits(n)
      BY <2>1, <2>2
    <2>4. OTPPermits(n)' = OTPPermits(n)
      BY SamePermits
    <2> QED BY <2>3, <2>4 DEF Load, budget
  <1>3. \A n \in Identifiers : Load(n) \in Int
    BY LoadType DEF GIInv
  <1>4. \A n \in Identifiers : Load(n)' \in Int /\ Load(n)' <= Load(n)
    BY <1>2, <1>3
  <1>5. Accounted'
    BY <1>3, <1>4, Balance DEF GIInv, budget
  <1> QED BY <1>1, <1>5 DEF GIInv

\* Starting a call, saving a challenge and verifying one touch no account.
LEMMA UnmeteredGIInv ==
    ASSUME GIInv, TypeOK', NEW p \in Procs, Unmetered(p)
    PROVE  GIInv'
PROOF
  <1>0. UNCHANGED <<budget, otp, asked, dispatched, restarts>>
    BY DEF Unmetered
  <1>1. PICK next : job' = [job EXCEPT ![p] = next] /\ next.pc # "mint" /\ job[p].pc # "mint"
    <2>1. ASSUME NEW s \in Spellings, StartChallenge(p, s)
          PROVE  \E next : job' = [job EXCEPT ![p] = next] /\ next.pc # "mint" /\ job[p].pc # "mint"
      BY <2>1 DEF StartChallenge, Continue, Finish, Idle
    <2>2. ASSUME NEW s \in Spellings, NEW cs \in CodeSpellings, StartVerify(p, s, cs)
          PROVE  \E next : job' = [job EXCEPT ![p] = next] /\ next.pc # "mint" /\ job[p].pc # "mint"
      BY <2>2 DEF StartVerify, Continue, Finish, Idle
    <2>3. CASE Save(p) \/ Confirm(p)
      <3>1. job' = [job EXCEPT ![p] = Idle] /\ job[p].pc # "mint"
        BY <2>3 DEF Save, Confirm, Finish
      <3>2. Idle.pc # "mint"
        BY DEF Idle
      <3> QED BY <3>1, <3>2
    <2> QED BY <2>1, <2>2, <2>3 DEF Unmetered
  <1> QED BY <1>0, <1>1, QuietJob

\* An admitted challenge trades a token for a permit; a refused one takes nothing,
\* one that met an outage at most loses a token.
LEMMA LimitChallengeGIInv ==
    ASSUME GIInv, TypeOK', NEW p \in Procs, LimitChallenge(p)
    PROVE  GIInv'
PROOF
  <1> DEFINE e == job[p].email
  <1>1. /\ job[p].pc = "limit" /\ e \in Identifiers
        /\ UNCHANGED <<otp, asked, dispatched, restarts>>
        /\ UNCHANGED <<limiter, refills>>
        /\ GTypeOK /\ TypeOK
    BY InputsAssumption, JobShape
       DEF LimitChallenge, CheckIdentifierLimit, GIInv, GTypeOK, TypeOK, Identifiers,
           budget, Charge, Outage
  <1>2. CASE /\ job' = [job EXCEPT ![p] = [pc |-> "mint", email |-> e]]
             /\ Charge(e)
    <2>0. PICK next : next.pc = "mint" /\ next.email = e /\ job' = [job EXCEPT ![p] = next]
      BY <1>2
    <2>1. /\ tokens[e] \in 1..Limit
          /\ tokens' = [tokens EXCEPT ![e] = @ - 1]
      BY <1>1, <1>2, BudgetAssumption DEF Charge, GTypeOK
    <2>2. GTypeOK'
      BY <1>1, <2>1, BudgetAssumption DEF GTypeOK
    <2>3. ASSUME NEW n \in Identifiers
          PROVE  Load(n)' = Load(n)
      <3>1. OTPPermits(n)' = OTPPermits(n) /\ dispatched'[n] = dispatched[n]
        BY <1>1, SamePermits
      <3>2. p \notin Permits(n)
        BY <1>1 DEF Permits
      <3>3. CASE n = e
        <4>1. Permits(n)' = Permits(n) \cup {p}
          BY <1>1, <2>0, <3>3 DEF Permits, TypeOK
        <4>2. Cardinality(Permits(n)') = Cardinality(Permits(n)) + 1
          BY <4>1, <3>2, PermitsFinite, FS_AddElement
        <4>3. tokens'[n] = tokens[n] - 1
          BY <1>1, <2>1, <3>3 DEF GTypeOK
        <4> QED BY <1>1, <3>1, <4>2, <4>3, PermitsFinite, BudgetAssumption DEF Load, GTypeOK
      <3>4. CASE n # e
        <4>1. Permits(n)' = Permits(n)
          BY <1>1, <2>0, <3>2, <3>4 DEF Permits, TypeOK
        <4>2. tokens'[n] = tokens[n]
          BY <1>1, <2>1, <3>4 DEF GTypeOK
        <4> QED BY <3>1, <4>1, <4>2 DEF Load
      <3> QED BY <3>3, <3>4
    <2>4. \A n \in Identifiers : Load(n) \in Int /\ Load(n)' \in Int /\ Load(n)' <= Load(n)
      BY <1>1, <2>3, LoadType
    <2> QED BY <1>1, <2>2, <2>4, Balance DEF GIInv
  <1>3. CASE /\ job' = [job EXCEPT ![p] = Idle]
             /\ UNCHANGED budget \/ Outage(e)
    <2>0. PICK next : next.pc # "mint" /\ job' = [job EXCEPT ![p] = next]
      BY <1>3 DEF Idle
    <2>1. /\ tokens' \in [Identifiers -> 0..Limit]
          /\ \A n \in Identifiers : tokens'[n] <= tokens[n]
      BY <1>1, <1>3, BudgetAssumption DEF Outage, GTypeOK, budget
    <2>2. GTypeOK'
      BY <1>1, <2>1 DEF GTypeOK
    <2>3. ASSUME NEW n \in Identifiers
          PROVE  Load(n)' <= Load(n) /\ Load(n)' \in Int
      <3>1. OTPPermits(n)' = OTPPermits(n) /\ dispatched'[n] = dispatched[n]
        BY <1>1, SamePermits
      <3>2. p \notin Permits(n)
        BY <1>1 DEF Permits
      <3>3. Permits(n)' = Permits(n)
        BY <1>1, <2>0, <3>2 DEF Permits, TypeOK
      <3> QED BY <1>1, <2>1, <3>1, <3>3, PermitsFinite, BudgetAssumption DEF Load, GTypeOK
    <2>4. \A n \in Identifiers : Load(n) \in Int /\ Load(n)' \in Int /\ Load(n)' <= Load(n)
      BY <1>1, <2>3, LoadType
    <2> QED BY <1>1, <2>2, <2>4, Balance DEF GIInv
  <1>4. \/ /\ job' = [job EXCEPT ![p] = [pc |-> "mint", email |-> e]]
           /\ answer'[p] = "none"
        \/ /\ job' = [job EXCEPT ![p] = Idle]
           /\ answer'[p] \in {"limited", "unavailable"}
    BY <1>1 DEF LimitChallenge, CheckIdentifierLimit, Continue, Finish, TypeOK
  <1>5. /\ answer'[p] = "none" => Charge(e)
        /\ answer'[p] = "limited" => UNCHANGED budget
        /\ answer'[p] = "unavailable" => Outage(e)
    BY DEF LimitChallenge
  <1> QED BY <1>2, <1>3, <1>4, <1>5

\* Making the code turns the permit into a dispatch.
LEMMA DispatchChallengeGIInv ==
    ASSUME GIInv, TypeOK', NEW p \in Procs, DispatchChallenge(p)
    PROVE  GIInv'
PROOF
  <1> DEFINE e == job[p].email
  <1>1. /\ job[p].pc = "mint" /\ e \in Identifiers
        /\ UNCHANGED <<limiter, tokens, refills, otp, asked, restarts>>
        /\ dispatched' = [dispatched EXCEPT ![e] = @ + 1]
        /\ GTypeOK /\ TypeOK
    BY InputsAssumption, JobShape
       DEF DispatchChallenge, Mint, GIInv, GTypeOK, TypeOK, Identifiers, budget
  <1>2. PICK next : next.pc # "mint" /\ job' = [job EXCEPT ![p] = next]
    BY DEF DispatchChallenge, Mint, Continue
  <1>3. GTypeOK'
    BY <1>1 DEF GTypeOK
  <1>4. ASSUME NEW n \in Identifiers
        PROVE  Load(n)' = Load(n)
    <2>1. OTPPermits(n)' = OTPPermits(n) /\ tokens'[n] = tokens[n]
      BY <1>1, SamePermits
    <2>2. Permits(n)' = Permits(n) \ {p}
      BY <1>1, <1>2 DEF Permits, TypeOK
    <2>3. CASE n = e
      <3>1. p \in Permits(n)
        BY <1>1, <2>3 DEF Permits
      <3>2. Cardinality(Permits(n)') = Cardinality(Permits(n)) - 1
        BY <2>2, <3>1, PermitsFinite, FS_RemoveElement
      <3>3. dispatched'[n] = dispatched[n] + 1
        BY <1>1, <2>3 DEF GTypeOK
      <3> QED BY <1>1, <2>1, <3>2, <3>3, PermitsFinite, BudgetAssumption DEF Load, GTypeOK
    <2>4. CASE n # e
      <3>1. p \notin Permits(n)
        BY <2>4 DEF Permits
      <3>2. Permits(n)' = Permits(n)
        BY <2>2, <3>1
      <3>3. dispatched'[n] = dispatched[n]
        BY <1>1, <2>4 DEF GTypeOK
      <3> QED BY <2>1, <3>2, <3>3 DEF Load
    <2> QED BY <2>3, <2>4
  <1>5. \A n \in Identifiers : Load(n) \in Int /\ Load(n)' \in Int /\ Load(n)' <= Load(n)
    BY <1>1, <1>4, LoadType
  <1> QED BY <1>1, <1>3, <1>5, Balance DEF GIInv

\* A request that has only arrived holds no permit, or is blank and needs none.
LEMMA RequestOTPGIInv ==
    ASSUME GIInv, TypeOK', NEW q \in OTPProcs, NEW s \in Spellings, RequestOTP(q, s)
    PROVE  GIInv'
PROOF
  <1>1. /\ otp[q].pc = "idle"
        /\ UNCHANGED <<job, limiter, tokens, refills, dispatched, restarts>>
        /\ asked' = asked + 1
        /\ GTypeOK
    BY DEF RequestOTP, GIInv, vars, budget
  <1>2. PICK next :
           /\ next \in [pc : {"limit"}, identifier : Identifiers] \cup [pc : {"call"}, identifier : Names]
           /\ next.pc = "call" => next.identifier = Blank
           /\ otp' = [otp EXCEPT ![q] = next]
    <2>1. Normalize[s] \in Names
      BY InputsAssumption
    <2> DEFINE rec == [pc |-> IF Normalize[s] = Blank THEN "call" ELSE "limit",
                       identifier |-> Normalize[s]]
    <2>2. /\ rec \in [pc : {"limit"}, identifier : Identifiers] \cup [pc : {"call"}, identifier : Names]
          /\ rec.pc = "call" => rec.identifier = Blank
      BY <2>1 DEF Identifiers
    <2>3. otp' = [otp EXCEPT ![q] = rec]
      BY DEF RequestOTP
    <2> HIDE DEF rec
    <2> QED BY <2>2, <2>3
  <1>3. GTypeOK'
    BY <1>1, <1>2 DEF GTypeOK
  <1>4. ASSUME NEW n \in Identifiers
        PROVE  Load(n)' = Load(n)
    <2>1. Permits(n)' = Permits(n)
      BY <1>1, SamePermits
    <2>2. OTPPermits(n)' = OTPPermits(n)
      BY <1>1, <1>2 DEF OTPPermits, GTypeOK, Identifiers
    <2> QED BY <1>1, <2>1, <2>2 DEF Load
  <1>5. \A n \in Identifiers : Load(n) \in Int /\ Load(n)' \in Int /\ Load(n)' <= Load(n)
    BY <1>1, <1>4, LoadType
  <1> QED BY <1>1, <1>3, <1>5, Balance DEF GIInv

\* The same three outcomes for an OTP request.
LEMMA LimitOTPGIInv ==
    ASSUME GIInv, TypeOK', NEW q \in OTPProcs, LimitOTP(q)
    PROVE  GIInv'
PROOF
  <1> DEFINE e == otp[q].identifier
  <1>1. /\ otp[q].pc = "limit" /\ e \in Identifiers
        /\ UNCHANGED <<job, asked, dispatched, restarts, limiter, refills>>
        /\ GTypeOK
    BY DEF LimitOTP, GIInv, GTypeOK, vars, budget, Charge, Outage
  <1>2. CASE Charge(e) /\ otp' = [otp EXCEPT ![q].pc = "call"]
    <2>1. /\ tokens[e] \in 1..Limit
          /\ tokens' = [tokens EXCEPT ![e] = @ - 1]
      BY <1>1, <1>2, BudgetAssumption DEF Charge, GTypeOK
    <2>2. PICK next :
             /\ next \in [pc : {"call"}, identifier : Names]
             /\ next.pc = "call" /\ next.identifier = e
             /\ otp' = [otp EXCEPT ![q] = next]
      <3> DEFINE rec == [otp[q] EXCEPT !.pc = "call"]
      <3>1. otp[q] \in [pc : {"limit"}, identifier : Identifiers]
        BY <1>1 DEF GTypeOK
      <3>2. rec \in [pc : {"call"}, identifier : Names]
            /\ rec.pc = "call" /\ rec.identifier = e
        BY <3>1 DEF Identifiers
      <3>3. otp' = [otp EXCEPT ![q] = rec]
        BY <1>2
      <3> HIDE DEF rec
      <3> QED BY <3>2, <3>3
    <2>3. GTypeOK'
      BY <1>1, <2>1, <2>2, BudgetAssumption DEF GTypeOK
    <2>4. ASSUME NEW n \in Identifiers
          PROVE  Load(n)' = Load(n)
      <3>1. Permits(n)' = Permits(n) /\ dispatched'[n] = dispatched[n]
        BY <1>1, SamePermits
      <3>2. q \notin OTPPermits(n)
        BY <1>1 DEF OTPPermits
      <3>3. CASE n = e
        <4>1. OTPPermits(n)' = OTPPermits(n) \cup {q}
          BY <1>1, <2>2, <3>3 DEF OTPPermits, GTypeOK
        <4>2. Cardinality(OTPPermits(n)') = Cardinality(OTPPermits(n)) + 1
          BY <4>1, <3>2, PermitsFinite, FS_AddElement
        <4>3. tokens'[n] = tokens[n] - 1
          BY <1>1, <2>1, <3>3 DEF GTypeOK
        <4> QED BY <1>1, <3>1, <4>2, <4>3, PermitsFinite, BudgetAssumption DEF Load, GTypeOK
      <3>4. CASE n # e
        <4>1. OTPPermits(n)' = OTPPermits(n)
          BY <1>1, <2>2, <3>2, <3>4 DEF OTPPermits, GTypeOK
        <4>2. tokens'[n] = tokens[n]
          BY <1>1, <2>1, <3>4 DEF GTypeOK
        <4> QED BY <3>1, <4>1, <4>2 DEF Load
      <3> QED BY <3>3, <3>4
    <2>5. \A n \in Identifiers : Load(n) \in Int /\ Load(n)' \in Int /\ Load(n)' <= Load(n)
      BY <1>1, <2>4, LoadType
    <2> QED BY <1>1, <2>3, <2>5, Balance DEF GIInv
  <1>3. CASE /\ otp' = [otp EXCEPT ![q] = Idle]
             /\ UNCHANGED budget \/ Outage(e)
    <2>1. /\ tokens' \in [Identifiers -> 0..Limit]
          /\ \A n \in Identifiers : tokens'[n] <= tokens[n]
      BY <1>1, <1>3, BudgetAssumption DEF Outage, GTypeOK, budget
    <2>2. GTypeOK'
      BY <1>1, <1>3, <2>1 DEF GTypeOK, Idle
    <2>3. ASSUME NEW n \in Identifiers
          PROVE  Load(n)' <= Load(n) /\ Load(n)' \in Int
      <3>1. Permits(n)' = Permits(n) /\ dispatched'[n] = dispatched[n]
        BY <1>1, SamePermits
      <3>2. OTPPermits(n)' = OTPPermits(n)
        BY <1>1, <1>3 DEF OTPPermits, GTypeOK, Idle
      <3> QED BY <1>1, <2>1, <3>1, <3>2, PermitsFinite, BudgetAssumption DEF Load, GTypeOK
    <2>4. \A n \in Identifiers : Load(n) \in Int /\ Load(n)' \in Int /\ Load(n)' <= Load(n)
      BY <1>1, <2>3, LoadType
    <2> QED BY <1>1, <2>2, <2>4, Balance DEF GIInv
  <1> QED BY <1>2, <1>3 DEF LimitOTP

\* An OTP request of a blank identifier is nobody's; any other had a permit.
LEMMA DispatchOTPGIInv ==
    ASSUME GIInv, TypeOK', NEW q \in OTPProcs, DispatchOTP(q)
    PROVE  GIInv'
PROOF
  <1> DEFINE e == otp[q].identifier
  <1>1. /\ otp[q].pc = "call" /\ e \in Names
        /\ UNCHANGED <<job, limiter, tokens, refills, asked, restarts>>
        /\ otp' = [otp EXCEPT ![q] = Idle]
        /\ e = Blank => dispatched' = dispatched
        /\ e # Blank => dispatched' = [dispatched EXCEPT ![e] = @ + 1]
        /\ GTypeOK
    BY DEF DispatchOTP, GIInv, GTypeOK, Identifiers, vars, budget
  <1>2. GTypeOK'
    BY <1>1 DEF GTypeOK, Idle, Identifiers
  <1>3. ASSUME NEW n \in Identifiers
        PROVE  Load(n)' = Load(n)
    <2>1. Permits(n)' = Permits(n) /\ tokens'[n] = tokens[n]
      BY <1>1, SamePermits
    <2>2. OTPPermits(n)' = OTPPermits(n) \ {q}
      BY <1>1 DEF OTPPermits, GTypeOK, Idle
    <2>3. CASE n = e
      <3>1. q \in OTPPermits(n)
        BY <1>1, <2>3 DEF OTPPermits
      <3>2. Cardinality(OTPPermits(n)') = Cardinality(OTPPermits(n)) - 1
        BY <2>2, <3>1, PermitsFinite, FS_RemoveElement
      <3>3. dispatched'[n] = dispatched[n] + 1
        BY <1>1, <2>3 DEF GTypeOK, Identifiers
      <3> QED BY <1>1, <2>1, <3>2, <3>3, PermitsFinite, BudgetAssumption DEF Load, GTypeOK
    <2>4. CASE n # e
      <3>1. q \notin OTPPermits(n)
        BY <2>4 DEF OTPPermits
      <3>2. OTPPermits(n)' = OTPPermits(n)
        BY <2>2, <3>1
      <3>3. dispatched'[n] = dispatched[n]
        BY <1>1, <2>4 DEF GTypeOK, Identifiers
      <3> QED BY <2>1, <3>2, <3>3 DEF Load
    <2> QED BY <2>3, <2>4
  <1>4. \A n \in Identifiers : Load(n) \in Int /\ Load(n)' \in Int /\ Load(n)' <= Load(n)
    BY <1>1, <1>3, LoadType
  <1> QED BY <1>1, <1>2, <1>4, Balance DEF GIInv

\* A regained token is on both sides of the account.
LEMMA RegainGIInv ==
    ASSUME GIInv, TypeOK', NEW m \in Identifiers, Regain(m)
    PROVE  GIInv'
PROOF
  <1>1. /\ tokens[m] < Limit
        /\ tokens' = [tokens EXCEPT ![m] = @ + 1]
        /\ refills' = [refills EXCEPT ![m] = @ + 1]
        /\ UNCHANGED <<job, otp, limiter, asked, dispatched, restarts>>
        /\ GTypeOK /\ Accounted
    BY DEF Regain, GIInv, vars
  <1>2. GTypeOK'
    BY <1>1, BudgetAssumption DEF GTypeOK
  <1>3. ASSUME NEW n \in Identifiers
        PROVE  (Load(n) <= Grants(n))'
    <2>1. /\ Permits(n)' = Permits(n) /\ OTPPermits(n)' = OTPPermits(n)
          /\ dispatched'[n] = dispatched[n] /\ limiter' = limiter /\ restarts' = restarts
      BY <1>1, SamePermits
    <2>2. /\ tokens[n] \in Int /\ refills[n] \in Int /\ dispatched[n] \in Int
          /\ \/ tokens'[n] = tokens[n] + 1 /\ refills'[n] = refills[n] + 1
             \/ tokens'[n] = tokens[n] /\ refills'[n] = refills[n]
      BY <1>1, BudgetAssumption DEF GTypeOK
    <2>3. PICK r \in Int : r = (IF limiter = "memory" THEN restarts * Limit ELSE 0)
      BY <1>1, BudgetAssumption DEF GTypeOK
    <2>4. dispatched[n] + tokens[n] + Cardinality(Permits(n)) + Cardinality(OTPPermits(n))
            <= Limit + refills[n] + r
      BY <1>1, <2>3 DEF Accounted, Load, Grants
    <2>5. dispatched'[n] + tokens'[n] + Cardinality(Permits(n)') + Cardinality(OTPPermits(n)')
            <= Limit + refills'[n] + r
      BY <2>1, <2>2, <2>4, PermitsFinite, BudgetAssumption
    <2> QED BY <2>1, <2>3, <2>5 DEF Load, Grants
  <1> QED BY <1>2, <1>3 DEF GIInv, Accounted

\* A restart drops the permits.  Redis keeps the buckets; the in-memory limiter
\* starts with full ones, which its restarts account for.
LEMMA RestartGIInv ==
    ASSUME GIInv, TypeOK', GRestart
    PROVE  GIInv'
PROOF
  <1>1. /\ restarts' = restarts + 1
        /\ job' = [p \in Procs |-> Idle]
        /\ otp' = [q \in OTPProcs |-> Idle]
        /\ limiter = "redis" => tokens' = tokens
        /\ limiter # "redis" => tokens' = [n \in Identifiers |-> Limit]
        /\ UNCHANGED <<limiter, refills, asked, dispatched>>
        /\ GTypeOK /\ Accounted
    BY DEF GRestart, Restart, GIInv
  <1>2. GTypeOK'
    BY <1>1, BudgetAssumption DEF GTypeOK, Idle
  <1>3. ASSUME NEW n \in Identifiers
        PROVE  (Load(n) <= Grants(n))'
    <2>1. Permits(n)' = {} /\ OTPPermits(n)' = {}
      BY <1>1 DEF Permits, OTPPermits, Idle
    <2>2. Load(n)' = dispatched[n] + tokens'[n]
      BY <1>1, <1>2, <2>1, FS_EmptySet, BudgetAssumption DEF Load, GTypeOK
    <2>3. PICK r \in Int : r = restarts * Limit
      BY <1>1, BudgetAssumption DEF GTypeOK
    <2>4. (restarts + 1) * Limit = r + Limit
      BY <1>1, <2>3, BudgetAssumption DEF GTypeOK
    <2>5. /\ dispatched[n] + tokens[n] <= Limit + refills[n] + (IF limiter = "memory" THEN r ELSE 0)
          /\ tokens[n] \in 0..Limit /\ dispatched[n] \in Int /\ refills[n] \in Int
      BY <1>1, <2>3, PermitsFinite, BudgetAssumption DEF Accounted, Load, Grants, GTypeOK
    <2>6. CASE limiter = "redis"
      BY <1>1, <2>2, <2>5, <2>6, BudgetAssumption DEF Grants
    <2>7. CASE limiter = "memory"
      <3>1. tokens'[n] = Limit /\ Grants(n)' = Limit + refills[n] + (r + Limit)
        BY <1>1, <2>4, <2>7 DEF Grants
      <3> QED BY <2>2, <2>3, <2>5, <2>7, <3>1, BudgetAssumption
    <2> QED BY <1>1, <2>6, <2>7 DEF GTypeOK
  <1> QED BY <1>2, <1>3 DEF GIInv, Accounted

\* Every step of the composition keeps the account.
LEMMA NextGIInv == GIInv /\ TypeOK' /\ [GNext]_gvars => GIInv'
PROOF
  <1> SUFFICES ASSUME GIInv, TypeOK', [GNext]_gvars
               PROVE  GIInv'
    OBVIOUS
  <1>1. ASSUME NEW p \in Procs, LimitChallenge(p) \/ DispatchChallenge(p) \/ Unmetered(p)
        PROVE  GIInv'
    BY <1>1, LimitChallengeGIInv, DispatchChallengeGIInv, UnmeteredGIInv
  <1>2. ASSUME NEW q \in OTPProcs, NEW s \in Spellings, RequestOTP(q, s)
        PROVE  GIInv'
    BY <1>2, RequestOTPGIInv
  <1>3. ASSUME NEW q \in OTPProcs, LimitOTP(q) \/ DispatchOTP(q)
        PROVE  GIInv'
    BY <1>3, LimitOTPGIInv, DispatchOTPGIInv
  <1>4. ASSUME NEW n \in Identifiers, Regain(n)
        PROVE  GIInv'
    BY <1>4, RegainGIInv
  <1>5. CASE GRestart
    BY <1>5, RestartGIInv
  <1>6. ASSUME UNCHANGED <<job, budget, otp, asked, dispatched, restarts>>
        PROVE  GIInv'
    <2>1. GTypeOK'
      BY <1>6 DEF GIInv, GTypeOK, budget
    <2>2. \A n \in Identifiers : Load(n)' = Load(n) /\ Grants(n)' = Grants(n)
      BY <1>6, SamePermits DEF Load, Grants, budget
    <2> QED BY <2>1, <2>2 DEF GIInv, Accounted
  <1>7. CASE Tick /\ UNCHANGED <<budget, otp, asked, dispatched, restarts>>
    BY <1>6, <1>7 DEF Tick
  <1>8. CASE UNCHANGED gvars
    BY <1>6, <1>8 DEF gvars, vars
  <1> QED
    BY <1>1, <1>2, <1>3, <1>4, <1>5, <1>7, <1>8 DEF GNext

\* At start-up nothing is spent and each bucket is full.
LEMMA InitGIInv == GInit /\ TypeOK => GIInv
PROOF
  <1> SUFFICES ASSUME GInit, TypeOK
               PROVE  GIInv
    OBVIOUS
  <1>1. GTypeOK
    BY BudgetAssumption DEF GInit, GTypeOK, Idle
  <1>2. ASSUME NEW n \in Identifiers
        PROVE  Load(n) <= Grants(n)
    <2>1. Permits(n) = {} /\ OTPPermits(n) = {}
      BY DEF GInit, Init, Permits, OTPPermits, Idle
    <2>2. 0 * Limit = 0
      BY BudgetAssumption
    <2>3. Grants(n) = Limit
      BY <2>2, BudgetAssumption DEF GInit, Grants
    <2> QED BY <2>1, <2>3, FS_EmptySet, BudgetAssumption DEF GInit, Load
  <1> QED BY <1>1, <1>2 DEF GIInv, Accounted

\* Codes made are part of the load, so the account bounds them.
LEMMA AccountedGivesBudget == GIInv => CodesWithinBudget
PROOF
  <1> SUFFICES ASSUME GIInv, NEW n \in Identifiers
               PROVE  dispatched[n] <= Grants(n)
    BY DEF CodesWithinBudget, Grants
  <1>1. restarts * Limit \in Int
    BY BudgetAssumption DEF GIInv, GTypeOK
  <1>2. Grants(n) \in Int
    BY <1>1, BudgetAssumption DEF GIInv, GTypeOK, Grants
  <1>3. /\ dispatched[n] \in Nat /\ tokens[n] \in Nat
        /\ dispatched[n] + tokens[n] + Cardinality(Permits(n)) + Cardinality(OTPPermits(n)) <= Grants(n)
    BY BudgetAssumption DEF GIInv, GTypeOK, Accounted, Load
  <1> HIDE DEF Grants
  <1> QED BY <1>2, <1>3, PermitsFinite

\* The inductive invariant holds: codes made, codes admitted (LimitChallenge, LimitOTP)
\* and tokens left never exceed what the buckets of an identifier were given.
THEOREM GInvariance == GSpec => []GIInv
PROOF
  <1>1. GSpec => []TypeOK
    BY Composition, TypeCorrect, PTL
  <1>2. GInit /\ TypeOK => GIInv
    BY InitGIInv
  <1>3. GIInv /\ TypeOK' /\ [GNext]_gvars => GIInv'
    BY NextGIInv
  <1> QED
    BY <1>1, <1>2, <1>3, PTL DEF GSpec

\* The type invariant of the composition.
THEOREM GTypeCorrect == GSpec => []GTypeOK
PROOF
  <1>1. GIInv => GTypeOK
    BY DEF GIInv
  <1> QED BY <1>1, GInvariance, PTL

\* For any number of goroutines, identifiers and restarts: the OTPs and challenges
\* made for one identifier stay within its budget, plus one full bucket per restart
\* of the in-memory limiter.
THEOREM OneBudgetAcrossRestarts == GSpec => []CodesWithinBudget
PROOF
  <1> QED BY AccountedGivesBudget, GInvariance, PTL
=============================================================================
