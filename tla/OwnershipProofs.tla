-------------------------- MODULE OwnershipProofs --------------------------
(***************************************************************************)
(* Theorems about Ownership, for any set of goroutines, names and codes,    *)
(* any TTL and any bound on time and on the number of challenges.           *)
(*                                                                          *)
(* OneProofPerChallenge is not inductive: that Confirm removes what it      *)
(* accepts helps only if no other map entry, and no challenge still on its  *)
(* way to Save, carries the same identity.  Custody says exactly that: an   *)
(* identity is in one place at a time.                                      *)
(***************************************************************************)
EXTENDS Ownership, TLAPS

Held(n) == store[n] # NoChallenge

Custody ==
    /\ minted <= MaxChallenges
    /\ saved \subseteq 1..minted
    /\ \A p \in Procs : job[p].pc = "save" => job[p].challenge.id \in (1..minted) \ saved
    /\ \A p, q \in Procs :
          job[p].pc = "save" /\ job[q].pc = "save"
            /\ job[p].challenge.id = job[q].challenge.id => p = q
    /\ \A n \in Names : Held(n) => store[n].id \in saved
    /\ \A n, m \in Names : Held(n) /\ Held(m) /\ store[n].id = store[m].id => n = m
    /\ \A i \in DOMAIN proofs : proofs[i].challenge.id \in saved
    /\ \A i \in DOMAIN proofs, n \in Names :
          Held(n) => store[n].id # proofs[i].challenge.id

\* A goroutine's clock reading is never ahead of the clock.
ClockRead == \A p \in Procs : job[p].pc = "confirm" => job[p].at <= now

\* What does not depend on how the clock moves.
CInv == TypeOK /\ Custody /\ OneProofPerChallenge

IInv == CInv /\ ClockRead /\ ProofWithinTTL


-----------------------------------------------------------------------------
\* A job is one of four shapes, told apart by its pc.
LEMMA JobShape ==
    ASSUME NEW j \in Jobs
    PROVE  /\ j.pc \in {"idle", "limit", "mint", "save", "confirm"}
           /\ j.pc \in {"limit", "mint", "save"} => j.email \in Addresses
           /\ j.pc = "save" => j.challenge \in Challenge
           /\ j.pc = "confirm" => j.email \in Names /\ j.code \in Codes /\ j.at \in Nat
  BY DEF Jobs

\* Continue installs a new job for one goroutine and leaves the others alone.
LEMMA ContinueType ==
    ASSUME TypeOK, NEW p \in Procs, NEW next \in Jobs, Continue(p, next)
    PROVE  /\ job' \in [Procs -> Jobs]
           /\ answer' \in [Procs -> Answers]
           /\ job'[p] = next
           /\ \A q \in Procs \ {p} : job'[q] = job[q]
  BY DEF TypeOK, Continue, Answers

\* Finish makes one goroutine idle and leaves the others alone.
LEMMA FinishType ==
    ASSUME TypeOK, NEW p \in Procs, NEW o \in Answers, Finish(p, o)
    PROVE  /\ job' \in [Procs -> Jobs]
           /\ answer' \in [Procs -> Answers]
           /\ job'[p] = Idle
           /\ \A q \in Procs \ {p} : job'[q] = job[q]
  BY DEF TypeOK, Finish, Jobs, Idle

-----------------------------------------------------------------------------
\* Init establishes the inductive invariant.
LEMMA InitCInv == Init => CInv
  <1> SUFFICES ASSUME Init PROVE CInv
    OBVIOUS
  <1>1. TypeOK
    BY DEF Init, TypeOK, Idle, Jobs, Answers
  <1>2. Custody
    BY BoundsAssumption DEF Init, Custody, Idle, Held
  <1>3. OneProofPerChallenge
    BY DEF Init, OneProofPerChallenge
  <1> QED BY <1>1, <1>2, <1>3 DEF CInv

\* Starting or limiting a call moves one goroutine to a job that holds no
\* challenge; nothing else changes.
LEMMA QuietStep ==
    ASSUME CInv, NEW p \in Procs,
           job' \in [Procs -> Jobs], answer' \in [Procs -> Answers],
           job'[p].pc # "save",
           \A q \in Procs \ {p} : job'[q] = job[q],
           UNCHANGED <<now, store, minted, saved, proofs>>
    PROVE  CInv'
  <1>1. TypeOK'
    BY DEF CInv, TypeOK
  <1>2. Custody'
    BY DEF CInv, Custody, Held
  <1>3. OneProofPerChallenge'
    BY DEF CInv, OneProofPerChallenge
  <1> QED BY <1>1, <1>2, <1>3 DEF CInv

-----------------------------------------------------------------------------
\* One lemma per action that moves a challenge.

\* Mint gives a challenge an identity no other challenge has or had.
LEMMA MintCInv ==
    ASSUME CInv, NEW p \in Procs, Mint(p)
    PROVE  CInv'
  <1> USE DEF CInv
  <1>1. PICK c \in Codes :
          Continue(p, [pc |-> "save", email |-> job[p].email,
                       challenge |-> [code |-> c, expiresAt |-> now + TTL,
                                      id |-> minted + 1]])
    BY DEF Mint
  <1> DEFINE ch   == [code |-> c, expiresAt |-> now + TTL, id |-> minted + 1]
             next == [pc |-> "save", email |-> job[p].email, challenge |-> ch]
  <1>2. job[p].email \in Addresses
    BY JobShape DEF Mint, TypeOK
  <1>3. ch \in Challenge
    BY BoundsAssumption DEF TypeOK, Challenge
  <1>4. next \in Jobs
    BY <1>2, <1>3 DEF Jobs
  <1> HIDE DEF ch
  <1>5. /\ job' \in [Procs -> Jobs]
        /\ answer' \in [Procs -> Answers]
        /\ job'[p] = next
        /\ \A q \in Procs \ {p} : job'[q] = job[q]
    BY <1>1, <1>4, ContinueType DEF ch
  <1>6. /\ job'[p].pc = "save" /\ job'[p].challenge = ch
        /\ ch.id = minted + 1
        /\ minted' = minted + 1 /\ minted < MaxChallenges
        /\ UNCHANGED <<now, store, saved, proofs>>
    BY <1>5 DEF Mint, ch
  <1>7. TypeOK'
    BY <1>5, <1>6 DEF TypeOK
  <1>8. Custody'
    <2>1. minted' <= MaxChallenges
      BY <1>6, BoundsAssumption DEF TypeOK
    <2>2. saved' \subseteq 1..minted'
      BY <1>6 DEF Custody, TypeOK
    <2>3. \A q \in Procs : job'[q].pc = "save" => job'[q].challenge.id \in (1..minted') \ saved'
      BY <1>5, <1>6 DEF Custody, TypeOK
    <2>4. \A q, r \in Procs :
            job'[q].pc = "save" /\ job'[r].pc = "save"
              /\ job'[q].challenge.id = job'[r].challenge.id => q = r
      BY <1>5, <1>6 DEF Custody, TypeOK
    <2> QED BY <2>1, <2>2, <2>3, <2>4, <1>6 DEF Custody, Held
  <1>9. OneProofPerChallenge'
    BY <1>6 DEF OneProofPerChallenge
  <1> QED BY <1>7, <1>8, <1>9

\* Save moves an identity from one goroutine to one map entry.
LEMMA SaveCInv ==
    ASSUME CInv, NEW p \in Procs, Save(p)
    PROVE  CInv'
  <1> USE DEF CInv
  <1> DEFINE e == job[p].email
             ch == job[p].challenge
  <1>1. /\ e \in Addresses /\ e \in Names /\ ch \in Challenge
        /\ ch.id \in (1..minted) \ saved
    BY JobShape, InputsAssumption DEF Save, TypeOK, Custody
  <1>2. /\ job' \in [Procs -> Jobs]
        /\ answer' \in [Procs -> Answers]
        /\ job'[p] = Idle
        /\ \A q \in Procs \ {p} : job'[q] = job[q]
    BY FinishType DEF Save, Answers
  <1>3. /\ store' = [store EXCEPT ![e] = ch]
        /\ saved' = saved \cup {ch.id}
        /\ job[p].pc = "save" /\ job'[p].pc = "idle"
        /\ UNCHANGED <<now, minted, proofs>>
    BY <1>2 DEF Save, Idle
  <1>4. TypeOK'
    BY <1>1, <1>2, <1>3 DEF TypeOK, Challenge
  <1>5. /\ store'[e] = ch
        /\ \A n \in Names \ {e} : store'[n] = store[n]
    BY <1>1, <1>3 DEF TypeOK
  <1>6. Custody'
    <2>1. saved' \subseteq 1..minted'
      BY <1>1, <1>3 DEF Custody
    <2>2. \A q \in Procs : job'[q].pc = "save" => job'[q].challenge.id \in (1..minted') \ saved'
      BY <1>1, <1>2, <1>3 DEF Custody
    <2>3. \A q, r \in Procs :
            job'[q].pc = "save" /\ job'[r].pc = "save"
              /\ job'[q].challenge.id = job'[r].challenge.id => q = r
      BY <1>2, <1>3 DEF Custody
    <2>4. \A n \in Names : Held(n)' => store'[n].id \in saved'
      BY <1>3, <1>5 DEF Custody, Held
    <2>5. \A n, m \in Names : Held(n)' /\ Held(m)' /\ store'[n].id = store'[m].id => n = m
      BY <1>1, <1>3, <1>5 DEF Custody, Held
    <2>6. \A i \in DOMAIN proofs', n \in Names :
            Held(n)' => store'[n].id # proofs'[i].challenge.id
      BY <1>1, <1>3, <1>5 DEF Custody, Held
    <2> QED BY <2>1, <2>2, <2>3, <2>4, <2>5, <2>6, <1>3 DEF Custody
  <1>7. OneProofPerChallenge'
    BY <1>3 DEF OneProofPerChallenge
  <1> QED BY <1>4, <1>6, <1>7

\* The accepting branch of Confirm: the challenge leaves the map and its proof
\* joins the proofs.
LEMMA AcceptCInv ==
    ASSUME CInv, NEW p \in Procs, job[p].pc = "confirm",
           Held(job[p].email), Accepts(store[job[p].email], job[p].code, job[p].at),
           proofs' = Append(proofs, [email |-> job[p].email, verifiedAt |-> job[p].at,
                                     challenge |-> store[job[p].email], takenAt |-> now]),
           store' = [store EXCEPT ![job[p].email] = NoChallenge],
           Finish(p, "verified"),
           UNCHANGED <<now, minted, saved>>
    PROVE  CInv'
  <1> USE DEF CInv
  <1> DEFINE e  == job[p].email
             ch == store[e]
             pr == [email |-> e, verifiedAt |-> job[p].at, challenge |-> ch, takenAt |-> now]
  <1>1. e \in Names /\ job[p].at \in Nat /\ ch \in Challenge
    BY JobShape DEF TypeOK, Held
  <1>2. pr \in Proof
    BY <1>1 DEF Proof, TypeOK
  <1>3. /\ job' \in [Procs -> Jobs]
        /\ answer' \in [Procs -> Answers]
        /\ job'[p].pc = "idle"
        /\ \A q \in Procs \ {p} : job'[q] = job[q]
    BY FinishType DEF Answers, Idle
  <1>4. /\ proofs' \in Seq(Proof) /\ Len(proofs') = Len(proofs) + 1
        /\ DOMAIN proofs' = DOMAIN proofs \cup {Len(proofs) + 1}
        /\ proofs'[Len(proofs) + 1] = pr
        /\ \A i \in DOMAIN proofs : i # Len(proofs) + 1 /\ proofs'[i] = proofs[i]
    BY <1>2 DEF TypeOK
  <1>5. /\ store' \in [Names -> Challenge \cup {NoChallenge}]
        /\ store'[e] = NoChallenge
        /\ \A n \in Names \ {e} : store'[n] = store[n]
    BY <1>1 DEF TypeOK, Held
  <1>6. TypeOK'
    BY <1>3, <1>4, <1>5 DEF TypeOK
  <1>7. pr.challenge.id = ch.id /\ pr.verifiedAt = job[p].at /\ pr.challenge = ch /\ pr.takenAt = now
    OBVIOUS
  <1> HIDE DEF pr
  <1>8. Custody'
    <2>1. \A q \in Procs : job'[q].pc = "save" => job'[q].challenge.id \in (1..minted') \ saved'
      BY <1>3 DEF Custody
    <2>2. \A q, r \in Procs :
            job'[q].pc = "save" /\ job'[r].pc = "save"
              /\ job'[q].challenge.id = job'[r].challenge.id => q = r
      BY <1>3 DEF Custody
    <2>3. \A n \in Names : Held(n)' => store'[n].id \in saved'
      BY <1>5 DEF Custody, Held
    <2>4. \A n, m \in Names : Held(n)' /\ Held(m)' /\ store'[n].id = store'[m].id => n = m
      BY <1>5 DEF Custody, Held
    <2>5. \A i \in DOMAIN proofs' : proofs'[i].challenge.id \in saved'
      BY <1>1, <1>4, <1>7 DEF Custody
    <2>6. \A i \in DOMAIN proofs', n \in Names :
            Held(n)' => store'[n].id # proofs'[i].challenge.id
      BY <1>1, <1>4, <1>5, <1>7 DEF Custody, Held
    <2> QED BY <2>1, <2>2, <2>3, <2>4, <2>5, <2>6 DEF Custody
  <1>9. OneProofPerChallenge'
    BY <1>1, <1>4, <1>7 DEF OneProofPerChallenge, Custody
  <1> QED BY <1>6, <1>8, <1>9

\* Confirm either consumes the stored challenge or changes no shared state.
LEMMA ConfirmCInv ==
    ASSUME CInv, NEW p \in Procs, Confirm(p)
    PROVE  CInv'
  <1>1. CASE Held(job[p].email) /\ Accepts(store[job[p].email], job[p].code, job[p].at)
    BY <1>1, AcceptCInv DEF Confirm, Held
  <1>2. CASE ~ (Held(job[p].email) /\ Accepts(store[job[p].email], job[p].code, job[p].at))
    <2>1. Finish(p, "rejected") /\ UNCHANGED <<now, store, minted, saved, proofs>>
      BY <1>2 DEF Confirm, Held
    <2>2. /\ job' \in [Procs -> Jobs] /\ answer' \in [Procs -> Answers]
          /\ job'[p] = Idle
          /\ \A q \in Procs \ {p} : job'[q] = job[q]
      BY <2>1, FinishType DEF CInv, Answers
    <2> QED BY <2>1, <2>2, QuietStep DEF Idle
  <1> QED BY <1>1, <1>2

\* Validating a request touches no shared state.
LEMMA StartCInv ==
    ASSUME CInv, NEW p \in Procs, NEW s \in Spellings
    PROVE  /\ StartChallenge(p, s) => CInv'
           /\ \A cs \in CodeSpellings : StartVerify(p, s, cs) => CInv'
  <1>1. ASSUME StartChallenge(p, s) PROVE CInv'
    <2>1. CASE Normalize[s] \in Addresses
      <3> DEFINE next == [pc |-> "limit", email |-> Normalize[s]]
      <3>1. next \in Jobs
        BY <2>1 DEF Jobs
      <3>2. Continue(p, next) /\ UNCHANGED <<now, store, minted, saved, proofs>>
        BY <1>1, <2>1 DEF StartChallenge
      <3> QED BY <3>1, <3>2, ContinueType, QuietStep DEF CInv
    <2>2. CASE Normalize[s] \notin Addresses
      <3>1. Finish(p, "invalid") /\ UNCHANGED <<now, store, minted, saved, proofs>>
        BY <1>1, <2>2 DEF StartChallenge
      <3>2. "invalid" \in Answers
        BY DEF Answers
      <3> QED BY <3>1, <3>2, FinishType, QuietStep DEF CInv, Idle
    <2> QED BY <2>1, <2>2
  <1>2. ASSUME NEW cs \in CodeSpellings, StartVerify(p, s, cs) PROVE CInv'
    <2>1. CASE Normalize[s] # Blank /\ Trim[cs] # Blank
      <3> DEFINE next == [pc |-> "confirm", email |-> Normalize[s], code |-> Trim[cs], at |-> now]
      <3>1. next \in Jobs
        BY <2>1, InputsAssumption DEF Jobs, CInv, TypeOK
      <3>2. Continue(p, next) /\ UNCHANGED <<now, store, minted, saved, proofs>>
        BY <1>2, <2>1 DEF StartVerify
      <3> QED BY <3>1, <3>2, ContinueType, QuietStep DEF CInv
    <2>2. CASE ~ (Normalize[s] # Blank /\ Trim[cs] # Blank)
      <3>1. Finish(p, "invalid") /\ UNCHANGED <<now, store, minted, saved, proofs>>
        BY <1>2, <2>2 DEF StartVerify
      <3>2. "invalid" \in Answers
        BY DEF Answers
      <3> QED BY <3>1, <3>2, FinishType, QuietStep DEF CInv, Idle
    <2> QED BY <2>1, <2>2
  <1> QED BY <1>1, <1>2

\* The identifier limit admits the call or ends it; no challenge exists yet.
LEMMA LimitCInv ==
    ASSUME CInv, NEW p \in Procs, CheckIdentifierLimit(p)
    PROVE  CInv'
  <1>1. job[p].email \in Addresses
    BY JobShape DEF CInv, TypeOK, CheckIdentifierLimit
  <1>2. CASE Continue(p, [pc |-> "mint", email |-> job[p].email])
    <2> DEFINE next == [pc |-> "mint", email |-> job[p].email]
    <2>1. next \in Jobs
      BY <1>1 DEF Jobs
    <2> QED BY <1>2, <2>1, ContinueType, QuietStep DEF CInv, CheckIdentifierLimit
  <1>3. CASE \E o \in {"limited", "unavailable"} : Finish(p, o)
    <2>1. PICK o \in {"limited", "unavailable"} : Finish(p, o)
      BY <1>3
    <2>2. o \in Answers
      BY DEF Answers
    <2> QED BY <2>1, <2>2, FinishType, QuietStep DEF CInv, CheckIdentifierLimit, Idle
  <1> QED BY <1>2, <1>3 DEF CheckIdentifierLimit

\* A restart drops identities but never duplicates one.
LEMMA RestartCInv == CInv /\ Restart => CInv'
  <1> SUFFICES ASSUME CInv, Restart PROVE CInv'
    OBVIOUS
  <1>1. TypeOK'
    BY DEF CInv, TypeOK, Restart, Idle, Jobs, Answers
  <1>2. Custody' /\ OneProofPerChallenge'
    BY DEF CInv, Custody, Held, OneProofPerChallenge, Restart, Idle
  <1> QED BY <1>1, <1>2 DEF CInv

\* The clock may show any time: identities do not depend on it.
LEMMA ClockCInv ==
    ASSUME CInv, now' \in Nat, UNCHANGED <<store, job, answer, minted, saved, proofs>>
    PROVE  CInv'
  <1>1. TypeOK'
    BY DEF CInv, TypeOK
  <1>2. Custody' /\ OneProofPerChallenge'
    BY DEF CInv, Custody, Held, OneProofPerChallenge
  <1> QED BY <1>1, <1>2 DEF CInv

\* Every step keeps the identities in their places.
LEMMA NextCInv == CInv /\ [Next]_vars => CInv'
  <1> SUFFICES ASSUME CInv, [Next]_vars PROVE CInv'
    OBVIOUS
  <1>1. CASE \E p \in Procs, s \in Spellings : StartChallenge(p, s)
    BY <1>1, StartCInv
  <1>2. CASE \E p \in Procs, s \in Spellings, cs \in CodeSpellings : StartVerify(p, s, cs)
    BY <1>2, StartCInv
  <1>3. CASE \E p \in Procs : Step(p)
    BY <1>3, LimitCInv, MintCInv, SaveCInv, ConfirmCInv DEF Step
  <1>4. CASE Tick
    BY <1>4, ClockCInv DEF Tick, CInv, TypeOK
  <1>5. CASE Restart
    BY <1>5, RestartCInv
  <1>6. CASE UNCHANGED vars
    BY <1>6, ClockCInv DEF CInv, TypeOK, vars
  <1> QED BY <1>1, <1>2, <1>3, <1>4, <1>5, <1>6 DEF Next

-----------------------------------------------------------------------------
\* Where the clock only moves forward.

\* A verification's clock reading is the current time, and stays in the past.
LEMMA NextClockRead == CInv /\ ClockRead /\ [Next]_vars => ClockRead'
  <1> SUFFICES ASSUME CInv, ClockRead, [Next]_vars, NEW q \in Procs, job'[q].pc = "confirm"
               PROVE  job'[q].at <= now'
    BY DEF ClockRead
  <1> USE DEF CInv, TypeOK
  <1>1. now \in Nat /\ now' \in Nat /\ now <= now'
    <2>1. CASE Tick
      BY <2>1 DEF Tick
    <2>2. CASE Restart
      BY <2>2 DEF Restart
    <2>3. CASE \E p \in Procs : Step(p)
      BY <2>3 DEF Step, CheckIdentifierLimit, Mint, Save, Confirm
    <2>4. CASE \E p \in Procs, s \in Spellings : StartChallenge(p, s)
      BY <2>4 DEF StartChallenge
    <2>5. CASE \E p \in Procs, s \in Spellings, cs \in CodeSpellings : StartVerify(p, s, cs)
      BY <2>5 DEF StartVerify
    <2>6. CASE UNCHANGED vars
      BY <2>6 DEF vars
    <2> QED BY <2>1, <2>2, <2>3, <2>4, <2>5, <2>6 DEF Next
  <1>2. CASE job'[q] = job[q]
    BY <1>1, <1>2, JobShape DEF ClockRead
  <1>3. CASE job'[q] # job[q]
    <2>1. \A p \in Procs : \A next : Continue(p, next) => p = q /\ job'[q] = next
      BY <1>3 DEF Continue
    <2>2. \A p \in Procs : \A o : ~Finish(p, o)
      BY <1>3 DEF Finish, Idle
    <2>3. ~(UNCHANGED vars) /\ ~Tick
      BY <1>3 DEF vars, Tick
    <2>4. ASSUME Restart PROVE FALSE
      <3>1. job'[q] = Idle
        BY <2>4 DEF Restart
      <3> QED BY <3>1 DEF Idle
    <2>5. ASSUME NEW p \in Procs PROVE ~Step(p)
      <3>1. ~CheckIdentifierLimit(p)
        BY <2>1, <2>2 DEF CheckIdentifierLimit
      <3>2. ASSUME Mint(p) PROVE FALSE
        <4>1. PICK c \in Codes :
                 Continue(p, [pc |-> "save", email |-> job[p].email,
                              challenge |-> [code |-> c, expiresAt |-> now + TTL, id |-> minted + 1]])
          BY <3>2 DEF Mint
        <4>2. job'[q] = [pc |-> "save", email |-> job[p].email,
                         challenge |-> [code |-> c, expiresAt |-> now + TTL, id |-> minted + 1]]
          BY <2>1, <4>1
        <4> QED BY <4>2
      <3>3. ~Save(p) /\ ~Confirm(p)
        BY <2>2 DEF Save, Confirm
      <3> QED BY <3>1, <3>2, <3>3 DEF Step
    <2>6. ASSUME NEW p \in Procs, NEW s \in Spellings PROVE ~StartChallenge(p, s)
      BY <2>1, <2>2 DEF StartChallenge
    <2>7. PICK p \in Procs, s \in Spellings, cs \in CodeSpellings : StartVerify(p, s, cs)
      BY <2>3, <2>4, <2>5, <2>6 DEF Next
    <2>8. Continue(p, [pc |-> "confirm", email |-> Normalize[s], code |-> Trim[cs], at |-> now])
      BY <2>2, <2>7 DEF StartVerify
    <2> QED BY <1>1, <2>1, <2>8
  <1> QED BY <1>2, <1>3

\* Only Confirm grants a proof, and it has compared the reading with the deadline.
LEMMA NextWithinTTL == CInv /\ ClockRead /\ ProofWithinTTL /\ [Next]_vars => ProofWithinTTL'
  <1> SUFFICES ASSUME CInv, ClockRead, ProofWithinTTL, [Next]_vars PROVE ProofWithinTTL'
    OBVIOUS
  <1>1. CASE UNCHANGED proofs
    BY <1>1 DEF ProofWithinTTL
  <1>2. CASE proofs' # proofs
    <2>1. PICK p \in Procs : Confirm(p)
      BY <1>2 DEF Next, StartChallenge, StartVerify, Step, CheckIdentifierLimit, Mint, Save, Tick,
                  Restart, vars
    <2> DEFINE e  == job[p].email
               ch == store[e]
               pr == [email |-> e, verifiedAt |-> job[p].at, challenge |-> ch, takenAt |-> now]
    <2>2. /\ job[p].pc = "confirm" /\ Held(e) /\ Accepts(ch, job[p].code, job[p].at)
          /\ proofs' = Append(proofs, pr)
      BY <1>2, <2>1 DEF Confirm, Held
    <2>3. pr \in Proof
      BY <2>2, JobShape DEF Proof, CInv, TypeOK, Held
    <2>4. pr.verifiedAt <= pr.challenge.expiresAt /\ pr.verifiedAt <= pr.takenAt
      BY <2>2 DEF ClockRead, Accepts
    <2> HIDE DEF pr
    <2> QED BY <2>2, <2>3, <2>4 DEF ProofWithinTTL, CInv, TypeOK
  <1> QED BY <1>1, <1>2

-----------------------------------------------------------------------------
\* The inductive invariant holds in every behaviour of Challenge and
\* VerifyChallenge.
THEOREM Invariance == Spec => []IInv
  <1>1. Init => IInv
    BY InitCInv DEF IInv, Init, ClockRead, ProofWithinTTL, Idle
  <1>2. IInv /\ [Next]_vars => IInv'
    BY NextCInv, NextClockRead, NextWithinTTL DEF IInv
  <1> QED BY <1>1, <1>2, PTL DEF Spec

\* The store, the goroutines' locals and the granted proofs always have the
\* shape the code declares for them.
THEOREM TypeCorrect == Spec => []TypeOK
  <1>1. IInv => TypeOK
    BY DEF IInv, CInv
  <1> QED BY <1>1, Invariance, PTL

\* However verifications and re-issues interleave, one challenge is worth at
\* most one proof: the guarantee of memory.Challenges.Confirm.
THEOREM AtMostOneProof == Spec => []OneProofPerChallenge
  <1>1. IInv => OneProofPerChallenge
    BY DEF IInv, CInv
  <1> QED BY <1>1, Invariance, PTL

\* A proof never certifies an instant past the deadline of the challenge it
\* consumed, although VerifyChallenge reads the clock before it takes the lock.
THEOREM ProofsInTime == Spec => []ProofWithinTTL
  <1>1. IInv => ProofWithinTTL
    BY DEF IInv
  <1> QED BY <1>1, Invariance, PTL

-----------------------------------------------------------------------------
\* Refinement.  LiveTicket and Spent are the expressions Ownership substitutes
\* for the variables of OneTimeCode.

LiveTicket == [n \in Names |-> IF store[n] = NoChallenge THEN 0 ELSE store[n].id]

Spent == {proofs[i].challenge.id : i \in DOMAIN proofs}

\* A step that leaves the store and the proofs alone is a stutter above.
LEMMA StutterRefines ==
    ASSUME UNCHANGED <<store, saved, proofs>>
    PROVE  UNCHANGED Promise!vars
  BY DEF Promise!vars

\* Save is the abstract Issue of the challenge's identity.
LEMMA SaveRefines ==
    ASSUME CInv, NEW p \in Procs, Save(p)
    PROVE  Promise!Next
  <1> DEFINE e  == job[p].email
             ch == job[p].challenge
  <1>1. /\ e \in Names /\ ch \in Challenge
        /\ ch.id \in (1..minted) \ saved
    BY JobShape, InputsAssumption DEF CInv, Save, TypeOK, Custody
  <1>2. ch.id \in 1..MaxChallenges
    BY <1>1, BoundsAssumption DEF CInv, Custody, TypeOK
  <1>3. /\ store' = [store EXCEPT ![e] = ch]
        /\ saved' = saved \cup {ch.id}
        /\ UNCHANGED proofs
    BY DEF Save
  <1>4. LiveTicket' = [LiveTicket EXCEPT ![e] = ch.id]
    BY <1>1, <1>3, NoChallengeAssumption DEF LiveTicket, CInv, TypeOK
  <1>5. PICK n \in Names, t \in 1..MaxChallenges : n = e /\ t = ch.id
    BY <1>1, <1>2
  <1>6. Promise!Issue(n, t)
    BY <1>1, <1>3, <1>4, <1>5 DEF Promise!Issue, LiveTicket
  <1> QED BY <1>6 DEF Promise!Next

\* An accepting Confirm is the abstract Redeem; a rejecting one is a stutter.
LEMMA ConfirmRefines ==
    ASSUME CInv, NEW p \in Procs, Confirm(p)
    PROVE  Promise!Next \/ UNCHANGED Promise!vars
  <1> DEFINE e  == job[p].email
             ch == store[e]
  <1>1. CASE Held(e) /\ Accepts(ch, job[p].code, job[p].at)
    <2>1. e \in Names /\ ch \in Challenge
      BY <1>1, JobShape DEF CInv, Confirm, TypeOK, Held
    <2>2. /\ proofs' = Append(proofs, [email |-> e, verifiedAt |-> job[p].at,
                                       challenge |-> ch, takenAt |-> now])
          /\ store' = [store EXCEPT ![e] = NoChallenge]
          /\ UNCHANGED saved
      BY <1>1 DEF Confirm, Held
    <2>3. LiveTicket[e] = ch.id /\ ch.id \in saved /\ ch.id # 0
      BY <1>1, <2>1 DEF LiveTicket, Held, CInv, Custody, TypeOK
    <2>4. ch.id \notin Spent
      BY <1>1, <2>1 DEF Spent, Held, CInv, Custody
    <2>5. LiveTicket' = [LiveTicket EXCEPT ![e] = 0]
      BY <2>1, <2>2 DEF LiveTicket, CInv, TypeOK
    <2>6. Spent' = Spent \cup {ch.id}
      <3> DEFINE pr == [email |-> e, verifiedAt |-> job[p].at, challenge |-> ch, takenAt |-> now]
                 k  == Len(proofs) + 1
      <3>1. pr \in Proof /\ pr.challenge.id = ch.id
        BY <2>1, JobShape DEF Proof, CInv, TypeOK, Confirm
      <3> HIDE DEF pr
      <3>2. /\ DOMAIN proofs' = DOMAIN proofs \cup {k}
            /\ proofs'[k] = pr
            /\ \A i \in DOMAIN proofs : i # k /\ proofs'[i] = proofs[i]
        BY <2>2, <3>1 DEF CInv, TypeOK, pr
      <3> QED BY <3>1, <3>2 DEF Spent
    <2>7. PICK n \in Names : n = e
      BY <2>1
    <2>8. Promise!Redeem(n)
      BY <2>2, <2>3, <2>4, <2>5, <2>6, <2>7 DEF Promise!Redeem, LiveTicket, Spent
    <2> QED BY <2>8 DEF Promise!Next
  <1>2. CASE ~ (Held(e) /\ Accepts(ch, job[p].code, job[p].at))
    BY <1>2, StutterRefines DEF Confirm, Held
  <1> QED BY <1>1, <1>2

\* Every step maps to a step of OneTimeCode or to a stutter.
LEMMA NextRefines == CInv /\ [Next]_vars => [Promise!Next]_(Promise!vars)
  <1> SUFFICES ASSUME CInv, [Next]_vars
               PROVE  Promise!Next \/ UNCHANGED Promise!vars
    OBVIOUS
  <1>1. CASE \E p \in Procs, s \in Spellings : StartChallenge(p, s)
    BY <1>1, StutterRefines DEF StartChallenge
  <1>2. CASE \E p \in Procs, s \in Spellings, cs \in CodeSpellings : StartVerify(p, s, cs)
    BY <1>2, StutterRefines DEF StartVerify
  <1>3. ASSUME NEW p \in Procs, Step(p)
        PROVE  Promise!Next \/ UNCHANGED Promise!vars
    <2>1. CASE CheckIdentifierLimit(p)
      BY <2>1, StutterRefines DEF CheckIdentifierLimit
    <2>2. CASE Mint(p)
      BY <2>2, StutterRefines DEF Mint
    <2>3. CASE Save(p)
      BY <2>3, SaveRefines
    <2>4. CASE Confirm(p)
      BY <2>4, ConfirmRefines
    <2> QED BY <1>3, <2>1, <2>2, <2>3, <2>4 DEF Step
  <1>4. CASE Tick
    BY <1>4, StutterRefines DEF Tick
  <1>5. CASE Restart
    <2>1. LiveTicket' = [n \in Names |-> 0]
      BY <1>5 DEF Restart, LiveTicket
    <2> QED BY <1>5, <2>1 DEF Restart, LiveTicket, Promise!Next, Promise!Forget
  <1>6. CASE UNCHANGED vars
    BY <1>6, StutterRefines DEF vars
  <1> QED BY <1>1, <1>2, <1>3, <1>4, <1>5, <1>6 DEF Next

\* The ownership plane implements the one-time code of OneTimeCode.tla: one live
\* challenge per address, replaced by a newer one, redeemed at most once.
THEOREM Refinement == Spec => ImplementsOneTimeCode
  <1>1. Init => Promise!Init
    BY DEF Init, Promise!Init
  <1>2. IInv => CInv
    BY DEF IInv
  <1> QED BY <1>1, <1>2, NextRefines, Invariance, PTL DEF Spec, ImplementsOneTimeCode
=============================================================================
