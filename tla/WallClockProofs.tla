-------------------------- MODULE WallClockProofs --------------------------
(***************************************************************************)
(* Theorems about WallClock: what the ownership plane still guarantees when *)
(* the system clock is set, ahead or back, at any moment.                    *)
(*                                                                          *)
(* now - elapsed + back never decreases: time moves both clocks, a clock set *)
(* ahead moves only now, one set back moves now and back by the same amount. *)
(* Deadline and reading are compared through this quantity: NotLate says how *)
(* far the clock can be behind a challenge, ReadNotLate how far a reading    *)
(* taken since it was minted can be.                                         *)
(***************************************************************************)
EXTENDS WallClock, OwnershipProofs

Moments == [time : Nat, back : Nat]

\* The ghosts have one moment per challenge minted and per proof granted.
GhostsOK ==
    /\ elapsed \in Nat /\ back \in Nat
    /\ mintedAt \in Seq(Moments) /\ Len(mintedAt) = minted
    /\ provedAt \in Seq(Moments) /\ Len(provedAt) = Len(proofs)
    /\ readAt \in [Procs -> Moments]
    /\ \A p \in Procs : readAt[p].time <= elapsed
    /\ \A i \in 1..minted : mintedAt[i].time <= elapsed

\* At moment r, with the clock showing w, the clock is behind where challenge c
\* expects it by at most what it was set back since c was minted.
Behind(c, r, w) ==
    r.time + c.expiresAt + mintedAt[c.id].back <= mintedAt[c.id].time + TTL + r.back + w

\* So it is now,
NotLate(c) == Behind(c, Moment, now)

\* and so it was when p read it, unless that was before c was minted.
ReadNotLate(c, p) ==
    readAt[p].time <= mintedAt[c.id].time \/ Behind(c, readAt[p], job[p].at)

\* Both hold of a challenge that can still be accepted.
Sound(c) == NotLate(c) /\ \A p \in Procs : job[p].pc = "confirm" => ReadNotLate(c, p)

\* Challenges on their way to the store, and stored ones.
Minted == \A q \in Procs : job[q].pc = "save" => Sound(job[q].challenge)

Stored == \A n \in Names : Held(n) => Sound(store[n])

WInv == CInv /\ GhostsOK /\ Minted /\ Stored /\ LateByNoMoreThanSetBack

\* What every step does to clock and readings: now - elapsed + back does not
\* decrease, and a reading stays as it is or is the present instant.
ClockForward ==
    /\ now + back + elapsed' <= now' + back' + elapsed
    /\ \A i \in 1..minted : mintedAt'[i] = mintedAt[i]
    /\ \A p \in Procs : job'[p].pc = "confirm" =>
          \/ job[p].pc = "confirm" /\ job'[p].at = job[p].at /\ readAt'[p] = readAt[p]
          \/ job'[p].at = now /\ readAt'[p] = Moment

-----------------------------------------------------------------------------
\* A minted challenge has its moment.
LEMMA MintedAtType ==
    ASSUME GhostsOK, NEW i \in 1..minted
    PROVE  mintedAt[i] \in Moments
  <1>1. mintedAt \in Seq(Moments) /\ i \in 1..Len(mintedAt)
    BY DEF GhostsOK
  <1> QED BY <1>1

\* The present is a moment.
LEMMA MomentType ==
    ASSUME GhostsOK
    PROVE  Moment \in Moments /\ Moment.time = elapsed /\ Moment.back = back
  BY DEF GhostsOK, Moment, Moments

\* A sound challenge stays sound, against readings taken meanwhile too.
LEMMA SoundKept ==
    ASSUME TypeOK, TypeOK', GhostsOK, GhostsOK', ClockForward,
           NEW c \in Challenge, c.id \in 1..minted, Sound(c)
    PROVE  Sound(c)'
  <1>1. mintedAt[c.id] \in Moments /\ c.expiresAt \in Nat
    BY MintedAtType DEF Challenge
  <1>2. PICK e \in Nat, w \in Nat, b \in Nat, e2 \in Nat, w2 \in Nat, b2 \in Nat,
             m \in Nat, n \in Nat, x \in Nat, t \in Nat :
          /\ e = elapsed /\ w = now /\ b = back
          /\ e2 = elapsed' /\ w2 = now' /\ b2 = back'
          /\ m = mintedAt[c.id].time /\ n = mintedAt[c.id].back /\ x = c.expiresAt /\ t = TTL
    BY <1>1, BoundsAssumption DEF TypeOK, GhostsOK, Moments
  <1>3. mintedAt'[c.id] = mintedAt[c.id] /\ w + b + e2 <= w2 + b2 + e
    BY <1>2 DEF ClockForward
  <1>4. e + x + n <= m + t + b + w
    BY <1>2, MomentType DEF Sound, NotLate, Behind
  <1>5. NotLate(c)'
    <2>1. e2 + x + n <= m + t + b2 + w2
      BY <1>3, <1>4
    <2> QED BY <1>2, <1>3, <2>1 DEF NotLate, Behind, Moment
  <1>6. ASSUME NEW p \in Procs, job'[p].pc = "confirm" PROVE ReadNotLate(c, p)'
    <2>1. CASE job[p].pc = "confirm" /\ job'[p].at = job[p].at /\ readAt'[p] = readAt[p]
      BY <1>3, <2>1 DEF Sound, ReadNotLate, Behind
    <2>2. CASE job'[p].at = now /\ readAt'[p] = Moment
      BY <1>3, <2>2 DEF Sound, NotLate, ReadNotLate, Behind
    <2> QED BY <1>6, <2>1, <2>2 DEF ClockForward
  <1> QED BY <1>5, <1>6 DEF Sound

\* The challenges of a state that still can be accepted: well formed and numbered.
LEMMA LiveChallenge ==
    ASSUME CInv
    PROVE  /\ \A q \in Procs : job[q].pc = "save" =>
                  job[q].challenge \in Challenge /\ job[q].challenge.id \in 1..minted
           /\ \A n \in Names : Held(n) => store[n] \in Challenge /\ store[n].id \in 1..minted
  <1>1. \A q \in Procs : job[q].pc = "save" => job[q].challenge \in Challenge
    BY JobShape DEF CInv, TypeOK
  <1>2. \A n \in Names : Held(n) => store[n] \in Challenge
    BY DEF CInv, TypeOK, Held
  <1> QED BY <1>1, <1>2 DEF CInv, Custody

\* A step that mints nothing: what can be accepted afterwards could be before.
LEMMA CarriedOver ==
    ASSUME WInv, CInv', GhostsOK', ClockForward,
           \A q \in Procs : job'[q].pc = "save" =>
               job[q].pc = "save" /\ job'[q].challenge = job[q].challenge,
           \A n \in Names : Held(n)' =>
               \/ Held(n) /\ store'[n] = store[n]
               \/ \E q \in Procs : job[q].pc = "save" /\ store'[n] = job[q].challenge
    PROVE  Minted' /\ Stored'
  <1> USE DEF WInv
  <1>1. TypeOK /\ TypeOK' /\ GhostsOK
    BY DEF CInv
  <1>2. ASSUME NEW q \in Procs, job[q].pc = "save", NEW c, c = job[q].challenge
        PROVE  Sound(c)'
    <2>1. c \in Challenge /\ c.id \in 1..minted /\ Sound(c)
      BY <1>2, LiveChallenge DEF Minted
    <2> QED BY <1>1, <2>1, SoundKept
  <1>3. ASSUME NEW n \in Names, Held(n), NEW c, c = store[n]
        PROVE  Sound(c)'
    <2>1. c \in Challenge /\ c.id \in 1..minted /\ Sound(c)
      BY <1>3, LiveChallenge DEF Stored
    <2> QED BY <1>1, <2>1, SoundKept
  <1>4. Minted'
    <2> SUFFICES ASSUME NEW q \in Procs, job'[q].pc = "save", NEW c, c = job'[q].challenge
                 PROVE  Sound(c)'
      BY DEF Minted, Sound, NotLate, ReadNotLate, Behind, Moment
    <2> QED BY <1>2
  <1>5. Stored'
    <2> SUFFICES ASSUME NEW n \in Names, Held(n)', NEW c, c = store'[n]
                 PROVE  Sound(c)'
      BY DEF Stored, Sound, NotLate, ReadNotLate, Behind, Moment
    <2> QED BY <1>2, <1>3
  <1> QED BY <1>4, <1>5

\* A granted proof has its moment, and its challenge was minted.
LEMMA ProvedAtType ==
    ASSUME CInv, GhostsOK, NEW i \in DOMAIN proofs
    PROVE  /\ provedAt[i] \in Moments
           /\ proofs[i].challenge.id \in 1..minted
           /\ mintedAt[proofs[i].challenge.id] \in Moments
  <1>1. provedAt \in Seq(Moments) /\ i \in 1..Len(provedAt)
    BY DEF GhostsOK, CInv, TypeOK
  <1>2. proofs[i].challenge.id \in 1..minted
    BY DEF CInv, Custody
  <1> QED BY <1>1, <1>2, MintedAtType

\* What is known of the proofs granted does not change.
LEMMA LateKept ==
    ASSUME WInv, UNCHANGED <<proofs, provedAt>>,
           \A i \in 1..minted : mintedAt'[i] = mintedAt[i]
    PROVE  LateByNoMoreThanSetBack'
  <1>1. \A i \in DOMAIN proofs :
           mintedAt'[proofs[i].challenge.id] = mintedAt[proofs[i].challenge.id]
    BY ProvedAtType DEF WInv
  <1> QED BY <1>1 DEF WInv, LateByNoMoreThanSetBack, SetBackBetween

-----------------------------------------------------------------------------
\* One lemma per action.

\* A fresh challenge expires TTL after the instant it was minted at, on a clock
\* that shows now; readings already taken are no later than that instant.
LEMMA ReadsForMintWInv ==
    ASSUME WInv, NEW p \in Procs, ReadsForMint(p)
    PROVE  WInv'
  <1>1. Mint(p) /\ mintedAt' = Append(mintedAt, Moment)
        /\ UNCHANGED <<elapsed, back, readAt, provedAt>>
    BY DEF ReadsForMint
  <1>2. CInv'
    BY <1>1, MintCInv DEF WInv
  <1>3. PICK code \in Codes :
          Continue(p, [pc |-> "save", email |-> job[p].email,
                       challenge |-> [code |-> code, expiresAt |-> now + TTL, id |-> minted + 1]])
    BY <1>1 DEF Mint
  <1>4. /\ minted' = minted + 1 /\ minted \in Nat
        /\ UNCHANGED <<now, store, saved, proofs>>
    BY <1>1 DEF Mint, WInv, CInv, TypeOK
  <1>5. /\ job'[p].pc = "save"
        /\ job'[p].challenge.expiresAt = now + TTL /\ job'[p].challenge.id = minted + 1
        /\ \A q \in Procs \ {p} : job'[q] = job[q]
    BY <1>3 DEF Continue, WInv, CInv, TypeOK
  <1>6. /\ mintedAt' \in Seq(Moments) /\ Len(mintedAt') = minted'
        /\ mintedAt'[minted + 1] = Moment
        /\ \A i \in 1..minted : mintedAt'[i] = mintedAt[i]
    BY <1>1, <1>4, MomentType DEF WInv, GhostsOK
  <1>7. GhostsOK'
    <2>1. \A i \in 1..minted' : mintedAt'[i].time <= elapsed'
      BY <1>1, <1>4, <1>6, MomentType DEF WInv, GhostsOK
    <2> QED BY <1>1, <1>4, <1>6, <2>1 DEF WInv, GhostsOK
  <1>8. ClockForward
    <2>1. now + back + elapsed <= now + back + elapsed
      BY DEF WInv, CInv, TypeOK, GhostsOK
    <2> QED BY <1>1, <1>4, <1>5, <1>6, <2>1 DEF ClockForward
  <1>9. ASSUME NEW c \in Challenge, c.id \in 1..minted, Sound(c) PROVE Sound(c)'
    BY <1>2, <1>7, <1>8, <1>9, SoundKept DEF WInv, CInv
  <1>10. ASSUME NEW c, c = job'[p].challenge PROVE Sound(c)'
    <2>1. NotLate(c)'
      <3>1. PICK e \in Nat, w \in Nat, t \in Nat, b \in Nat :
               e = elapsed /\ w = now /\ t = TTL /\ b = back
        BY BoundsAssumption DEF WInv, CInv, TypeOK, GhostsOK
      <3>2. e + (w + t) + b <= e + t + b + w
        OBVIOUS
      <3>3. mintedAt'[c.id].time = e /\ mintedAt'[c.id].back = b
        BY <1>5, <1>6, <1>10, <3>1, MomentType DEF WInv
      <3>4. Moment' = Moment
        BY <1>1 DEF Moment
      <3> QED BY <1>4, <1>5, <1>10, <3>1, <3>2, <3>3, <3>4, MomentType DEF WInv, NotLate, Behind
    <2>2. \A q \in Procs : ReadNotLate(c, q)'
      BY <1>1, <1>5, <1>6, <1>10, MomentType DEF ReadNotLate, WInv, GhostsOK
    <2> QED BY <2>1, <2>2 DEF Sound
  <1>11. Minted'
    <2> SUFFICES ASSUME NEW q \in Procs, job'[q].pc = "save", NEW c, c = job'[q].challenge
                 PROVE  Sound(c)'
      BY DEF Minted, Sound, NotLate, ReadNotLate, Behind, Moment
    <2>1. CASE q = p
      BY <1>10, <2>1
    <2>2. CASE q # p
      BY <1>5, <1>9, <2>2, LiveChallenge DEF WInv, Minted
    <2> QED BY <2>1, <2>2
  <1>12. Stored'
    <2> SUFFICES ASSUME NEW n \in Names, Held(n)', NEW c, c = store'[n]
                 PROVE  Sound(c)'
      BY DEF Stored, Sound, NotLate, ReadNotLate, Behind, Moment
    <2> QED BY <1>4, <1>9, LiveChallenge DEF WInv, Stored, Held
  <1>13. LateByNoMoreThanSetBack'
    BY <1>1, <1>4, <1>6, LateKept DEF WInv, GhostsOK
  <1> QED BY <1>2, <1>7, <1>11, <1>12, <1>13 DEF WInv

\* A step of one goroutine that mints nothing and leaves the clock alone.
LEMMA PlainStep ==
    ASSUME WInv, CInv', GhostsOK', NEW p \in Procs,
           \A q \in Procs \ {p} : job'[q] = job[q] /\ readAt'[q] = readAt[q],
           job'[p].pc # "save",
           job'[p].pc = "confirm" => job'[p].at = now /\ readAt'[p] = Moment,
           \A n \in Names : Held(n)' =>
               \/ Held(n) /\ store'[n] = store[n]
               \/ \E q \in Procs : job[q].pc = "save" /\ store'[n] = job[q].challenge,
           UNCHANGED <<now, minted, elapsed, back, mintedAt>>
    PROVE  /\ Minted' /\ Stored'
           /\ UNCHANGED <<proofs, provedAt>> => WInv'
  <1>1. ClockForward
    <2>1. now + back + elapsed <= now + back + elapsed
      BY DEF WInv, CInv, TypeOK, GhostsOK
    <2> QED BY <2>1 DEF ClockForward
  <1>2. Minted' /\ Stored'
    BY <1>1, CarriedOver
  <1>3. UNCHANGED <<proofs, provedAt>> => LateByNoMoreThanSetBack'
    BY LateKept DEF WInv, GhostsOK
  <1> QED BY <1>2, <1>3 DEF WInv

\* A verification's reading is the present instant.
LEMMA ReadsForVerifyWInv ==
    ASSUME WInv, NEW p \in Procs, ReadsForVerify(p)
    PROVE  WInv'
  <1>1. PICK s \in Spellings, cs \in CodeSpellings : StartVerify(p, s, cs)
    BY DEF ReadsForVerify
  <1>2. CInv'
    BY <1>1, StartCInv DEF WInv
  <1>3. /\ readAt' = [readAt EXCEPT ![p] = Moment]
        /\ UNCHANGED <<now, store, minted, saved, proofs, elapsed, back, mintedAt, provedAt>>
    BY <1>1 DEF ReadsForVerify, StartVerify
  <1>4. GhostsOK'
    BY <1>3, MomentType DEF WInv, GhostsOK
  <1>5. /\ \A q \in Procs \ {p} : job'[q] = job[q]
        /\ job'[p].pc # "save" /\ (job'[p].pc = "confirm" => job'[p].at = now)
    <2>1. CASE Normalize[s] # Blank /\ Trim[cs] # Blank
      BY <1>1, <2>1 DEF StartVerify, Continue, WInv, CInv, TypeOK
    <2>2. CASE ~(Normalize[s] # Blank /\ Trim[cs] # Blank)
      BY <1>1, <2>2 DEF StartVerify, Finish, Idle, WInv, CInv, TypeOK
    <2> QED BY <2>1, <2>2
  <1>6. readAt'[p] = Moment /\ \A q \in Procs \ {p} : readAt'[q] = readAt[q]
    BY <1>3 DEF WInv, GhostsOK
  <1> QED BY <1>2, <1>3, <1>4, <1>5, <1>6, PlainStep DEF Held

\* An accepted code: the reading is no later than the deadline, and the challenge
\* was sound against it.
LEMMA DecidesWInv ==
    ASSUME WInv, NEW p \in Procs, Decides(p)
    PROVE  WInv'
  <1> DEFINE e  == job[p].email
             ch == store[e]
             pr == [email |-> e, verifiedAt |-> job[p].at, challenge |-> ch, takenAt |-> now]
  <1>1. /\ Confirm(p) /\ readAt' = [readAt EXCEPT ![p] = Origin]
        /\ provedAt' = IF answer'[p] = "verified" THEN Append(provedAt, readAt[p]) ELSE provedAt
        /\ job[p].pc = "confirm"
        /\ UNCHANGED <<now, minted, saved, elapsed, back, mintedAt>>
    BY DEF Decides, Confirm
  <1>2. CInv'
    BY <1>1, ConfirmCInv DEF WInv
  <1>3. /\ readAt' \in [Procs -> Moments] /\ \A q \in Procs : readAt'[q].time <= elapsed
        /\ \A q \in Procs \ {p} : readAt'[q] = readAt[q]
    BY <1>1 DEF WInv, GhostsOK, Origin, Moments
  <1>4. e \in Names /\ job[p].at \in Nat
    BY <1>1, JobShape DEF WInv, CInv, TypeOK
  <1>5. CASE Held(e) /\ Accepts(ch, job[p].code, job[p].at)
    <2>1. /\ proofs' = Append(proofs, pr)
          /\ store' = [store EXCEPT ![e] = NoChallenge]
          /\ Finish(p, "verified")
      BY <1>1, <1>5 DEF Confirm, Held
    <2>2. /\ job'[p].pc = "idle" /\ answer'[p] = "verified"
          /\ \A q \in Procs \ {p} : job'[q] = job[q]
      BY <2>1 DEF Finish, Idle, WInv, CInv, TypeOK
    <2>3. provedAt' = Append(provedAt, readAt[p])
      BY <1>1, <2>2
    <2>4. ch \in Challenge /\ ch.id \in 1..minted /\ Sound(ch)
      BY <1>4, <1>5, LiveChallenge DEF WInv, Stored
    <2>5. pr \in Proof /\ pr.challenge = ch
      BY <1>4, <2>4 DEF Proof, WInv, CInv, TypeOK
    <2> HIDE DEF pr
    <2>6. /\ DOMAIN proofs' = DOMAIN proofs \cup {Len(proofs) + 1}
          /\ proofs'[Len(proofs) + 1] = pr /\ Len(proofs') = Len(proofs) + 1
          /\ \A i \in DOMAIN proofs : proofs'[i] = proofs[i]
      BY <2>1, <2>5 DEF WInv, CInv, TypeOK
    <2>7. /\ provedAt' \in Seq(Moments) /\ Len(provedAt') = Len(proofs) + 1
          /\ provedAt'[Len(proofs) + 1] = readAt[p]
          /\ \A i \in DOMAIN proofs : provedAt'[i] = provedAt[i]
      BY <2>3 DEF WInv, CInv, TypeOK, GhostsOK
    <2>8. GhostsOK'
      BY <1>1, <1>3, <2>6, <2>7 DEF WInv, GhostsOK
    <2>9. \A n \in Names : Held(n)' => Held(n) /\ store'[n] = store[n]
      BY <2>1 DEF Held, WInv, CInv, TypeOK
    <2>10. Minted' /\ Stored'
      BY <1>1, <1>2, <1>3, <2>2, <2>8, <2>9, PlainStep
    <2>11. LET m == mintedAt[ch.id]
               r == readAt[p]
           IN  r.time > m.time => r.time <= m.time + TTL + SetBackBetween(m, r)
      <3>1. mintedAt[ch.id] \in Moments /\ readAt[p] \in Moments /\ ch.expiresAt \in Nat
        BY <2>4, MintedAtType DEF WInv, GhostsOK, Challenge
      <3>2. PICK mt \in Nat, mb \in Nat, rt \in Nat, rb \in Nat, x \in Nat, t \in Nat, a \in Nat :
               /\ mt = mintedAt[ch.id].time /\ mb = mintedAt[ch.id].back
               /\ rt = readAt[p].time /\ rb = readAt[p].back
               /\ x = ch.expiresAt /\ t = TTL /\ a = job[p].at
        BY <1>4, <3>1, BoundsAssumption DEF Moments
      <3>3. rt <= mt \/ rt + x + mb <= mt + t + rb + a
        BY <1>1, <2>4, <3>2 DEF Sound, ReadNotLate, Behind
      <3>4. a <= x
        BY <1>5, <3>2 DEF Accepts
      <3>5. rt > mt => rt <= mt + t + (rb - mb)
        BY <3>3, <3>4
      <3> QED BY <3>2, <3>5 DEF SetBackBetween
    <2>12. LateByNoMoreThanSetBack'
      <3> SUFFICES ASSUME NEW i \in DOMAIN proofs', NEW m, NEW r,
                          m = mintedAt[proofs'[i].challenge.id], r = provedAt'[i]
                   PROVE  r.time > m.time => r.time <= m.time + TTL + SetBackBetween(m, r)
        BY <1>1 DEF LateByNoMoreThanSetBack, SetBackBetween
      <3>1. CASE i \in DOMAIN proofs
        BY <2>6, <2>7, <3>1 DEF WInv, LateByNoMoreThanSetBack
      <3>2. CASE i = Len(proofs) + 1
        BY <2>5, <2>6, <2>7, <2>11, <3>2
      <3> QED BY <2>6, <3>1, <3>2
    <2> QED BY <1>2, <2>8, <2>10, <2>12 DEF WInv
  <1>6. CASE ~(Held(e) /\ Accepts(ch, job[p].code, job[p].at))
    <2>1. Finish(p, "rejected") /\ UNCHANGED <<store, proofs>>
      BY <1>1, <1>6 DEF Confirm, Held
    <2>2. /\ job'[p].pc = "idle" /\ answer'[p] = "rejected"
          /\ \A q \in Procs \ {p} : job'[q] = job[q]
      BY <2>1 DEF Finish, Idle, WInv, CInv, TypeOK
    <2>3. UNCHANGED provedAt
      BY <1>1, <2>2
    <2>4. GhostsOK'
      BY <1>1, <1>3, <2>1, <2>3 DEF WInv, GhostsOK
    <2> QED BY <1>1, <1>2, <1>3, <2>1, <2>2, <2>3, <2>4, PlainStep DEF Held
  <1> QED BY <1>5, <1>6

\* Storing a challenge takes it from the goroutine that minted it; the other
\* steps hold none.
LEMMA ClocklessWInv ==
    ASSUME WInv, NEW p \in Procs, Clockless(p)
    PROVE  WInv'
  <1>1. UNCHANGED <<elapsed, back, mintedAt, readAt, provedAt>>
    BY DEF Clockless, ghosts
  <1>2. ASSUME NEW s \in Spellings, StartChallenge(p, s) PROVE WInv'
    <2>1. CInv'
      BY <1>2, StartCInv DEF WInv
    <2>2. UNCHANGED <<now, store, minted, proofs>>
      BY <1>2 DEF StartChallenge
    <2>3. job'[p].pc \in {"limit", "idle"} /\ \A q \in Procs \ {p} : job'[q] = job[q]
      BY <1>2 DEF StartChallenge, Continue, Finish, Idle, WInv, CInv, TypeOK
    <2>4. GhostsOK'
      BY <1>1, <2>2 DEF WInv, GhostsOK
    <2> QED BY <1>1, <2>1, <2>2, <2>3, <2>4, PlainStep DEF Held
  <1>3. ASSUME CheckIdentifierLimit(p) PROVE WInv'
    <2>1. CInv'
      BY <1>3, LimitCInv DEF WInv
    <2>2. UNCHANGED <<now, store, minted, proofs>>
      BY <1>3 DEF CheckIdentifierLimit
    <2>3. job'[p].pc \in {"mint", "idle"} /\ \A q \in Procs \ {p} : job'[q] = job[q]
      BY <1>3 DEF CheckIdentifierLimit, Continue, Finish, Idle, WInv, CInv, TypeOK
    <2>4. GhostsOK'
      BY <1>1, <2>2 DEF WInv, GhostsOK
    <2> QED BY <1>1, <2>1, <2>2, <2>3, <2>4, PlainStep DEF Held
  <1>4. ASSUME Save(p) PROVE WInv'
    <2>1. CInv'
      BY <1>4, SaveCInv DEF WInv
    <2>2. UNCHANGED <<now, minted, proofs>> /\ job[p].pc = "save"
      BY <1>4 DEF Save
    <2>3. job'[p].pc = "idle" /\ \A q \in Procs \ {p} : job'[q] = job[q]
      BY <1>4 DEF Save, Finish, Idle, WInv, CInv, TypeOK
    <2>4. GhostsOK'
      BY <1>1, <2>2 DEF WInv, GhostsOK
    <2>5. \A n \in Names : store'[n] = store[n] \/ store'[n] = job[p].challenge
      BY <1>4 DEF Save, WInv, CInv, TypeOK
    <2> QED BY <1>1, <2>1, <2>2, <2>3, <2>4, <2>5, PlainStep DEF Held
  <1> QED BY <1>2, <1>3, <1>4 DEF Clockless

\* The environment moves the clocks and nothing else.
LEMMA EnvironmentWInv ==
    ASSUME WInv, UNCHANGED <<store, job, minted, saved, proofs, ghosts>>, CInv',
           elapsed' \in Nat, elapsed <= elapsed', back' \in Nat,
           now + back + elapsed' <= now' + back' + elapsed
    PROVE  WInv'
  <1>1. UNCHANGED <<mintedAt, readAt, provedAt>>
    BY DEF ghosts
  <1>2. GhostsOK'
    <2>1. ASSUME NEW k \in Nat, k <= elapsed PROVE k <= elapsed'
      BY <2>1 DEF WInv, GhostsOK
    <2>2. /\ \A p \in Procs : readAt[p].time <= elapsed'
          /\ \A i \in 1..minted : mintedAt[i].time <= elapsed'
      BY <2>1, MintedAtType DEF WInv, GhostsOK, Moments
    <2> QED BY <1>1, <2>2 DEF WInv, GhostsOK
  <1>3. ClockForward
    BY <1>1 DEF ClockForward
  <1>4. Minted' /\ Stored'
    BY <1>2, <1>3, CarriedOver DEF Held
  <1>5. LateByNoMoreThanSetBack'
    BY <1>1, LateKept
  <1> QED BY <1>2, <1>4, <1>5 DEF WInv

\* A tick moves both clocks.
LEMMA TimePassesWInv == WInv /\ TimePasses => WInv'
  <1> SUFFICES ASSUME WInv, TimePasses PROVE WInv'
    OBVIOUS
  <1>1. PICK e \in Nat, w \in Nat, b \in Nat : e = elapsed /\ w = now /\ b = back
    BY DEF WInv, CInv, TypeOK, GhostsOK
  <1>2. /\ elapsed' = e + 1 /\ now' = w + 1 /\ back' = b
        /\ UNCHANGED <<store, job, answer, minted, saved, proofs, ghosts>>
    BY <1>1 DEF TimePasses, Tick
  <1>3. w + b + (e + 1) <= (w + 1) + b + e /\ e <= e + 1 /\ b <= b
    OBVIOUS
  <1>4. CInv'
    BY <1>1, <1>2, ClockCInv DEF WInv
  <1> QED BY <1>1, <1>2, <1>3, <1>4, EnvironmentWInv

\* The clock set back moves now and back alike; set ahead, only now.
LEMMA SetClockWInv ==
    ASSUME WInv, NEW t \in 0..MaxTime, SetClock(t)
    PROVE  WInv'
  <1>1. PICK e \in Nat, w \in Nat, b \in Nat, w2 \in Nat :
          e = elapsed /\ w = now /\ b = back /\ w2 = t
    BY BoundsAssumption DEF WInv, CInv, TypeOK, GhostsOK
  <1>2. /\ elapsed' = e /\ now' = w2 /\ back' = IF w2 < w THEN b + (w - w2) ELSE b
        /\ UNCHANGED <<store, job, answer, minted, saved, proofs, ghosts>>
    BY <1>1 DEF SetClock
  <1>3. PICK b2 \in Nat : b2 = back' /\ b <= b2 /\ w + b + e <= w2 + b2 + e
    <2>1. CASE w2 < w
      <3>1. PICK b2 \in Nat : b2 = b + (w - w2)
        BY <2>1
      <3>2. b <= b2 /\ w + b + e <= w2 + b2 + e
        BY <2>1, <3>1
      <3> QED BY <1>2, <2>1, <3>1, <3>2
    <2>2. CASE ~(w2 < w)
      BY <1>2, <2>2
    <2> QED BY <2>1, <2>2
  <1>4. CInv'
    BY <1>1, <1>2, ClockCInv DEF WInv
  <1>5. e <= e
    OBVIOUS
  <1> QED BY <1>1, <1>2, <1>3, <1>4, <1>5, EnvironmentWInv

\* A restart leaves nothing that can be accepted.
LEMMA WRestartWInv == WInv /\ WRestart => WInv'
  <1> SUFFICES ASSUME WInv, WRestart PROVE WInv'
    OBVIOUS
  <1>1. CInv'
    BY RestartCInv DEF WRestart, WInv
  <1>2. /\ readAt' = [p \in Procs |-> Origin]
        /\ UNCHANGED <<now, minted, proofs, elapsed, back, mintedAt, provedAt>>
    BY DEF WRestart, Restart
  <1>3. GhostsOK'
    BY <1>2 DEF WInv, GhostsOK, Origin, Moments
  <1>4. Minted' /\ Stored'
    BY DEF WRestart, Restart, Idle, Minted, Stored, Held
  <1>5. LateByNoMoreThanSetBack'
    BY <1>2, LateKept DEF WInv, GhostsOK
  <1> QED BY <1>1, <1>3, <1>4, <1>5 DEF WInv

\* Every step preserves the invariant.
LEMMA WNextWInv == WInv /\ [WNext]_wvars => WInv'
  <1> SUFFICES ASSUME WInv, [WNext]_wvars PROVE WInv'
    OBVIOUS
  <1>1. CASE \E p \in Procs : ReadsForMint(p) \/ ReadsForVerify(p) \/ Decides(p) \/ Clockless(p)
    BY <1>1, ReadsForMintWInv, ReadsForVerifyWInv, DecidesWInv, ClocklessWInv
  <1>2. CASE TimePasses
    BY <1>2, TimePassesWInv
  <1>3. CASE WRestart
    BY <1>3, WRestartWInv
  <1>4. CASE \E t \in 0..MaxTime : SetClock(t)
    BY <1>4, SetClockWInv
  <1>5. CASE UNCHANGED wvars
    <2>1. UNCHANGED <<now, store, job, answer, minted, saved, proofs, elapsed, back, ghosts>>
      BY <1>5 DEF wvars, vars
    <2>2. CInv'
      BY <2>1, ClockCInv DEF WInv, CInv, TypeOK
    <2>3. PICK e \in Nat, w \in Nat, b \in Nat : e = elapsed /\ w = now /\ b = back
      BY DEF WInv, CInv, TypeOK, GhostsOK
    <2>4. w + b + e <= w + b + e /\ e <= e /\ b <= b
      OBVIOUS
    <2> QED BY <2>1, <2>2, <2>3, <2>4, EnvironmentWInv
  <1> QED BY <1>1, <1>2, <1>3, <1>4, <1>5 DEF WNext

-----------------------------------------------------------------------------
\* The invariant holds however the clock is set.
THEOREM WInvariance == WSpec => []WInv
  <1>1. WInit => WInv
    <2> SUFFICES ASSUME WInit PROVE WInv
      OBVIOUS
    <2>1. CInv
      BY InitCInv DEF WInit
    <2>2. GhostsOK
      BY DEF WInit, Init, GhostsOK, Origin, Moments
    <2>3. Minted /\ Stored /\ LateByNoMoreThanSetBack
      BY DEF WInit, Init, Idle, Minted, Stored, Held, LateByNoMoreThanSetBack
    <2> QED BY <2>1, <2>2, <2>3 DEF WInv
  <1> QED BY <1>1, WNextWInv, PTL DEF WSpec

\* For any TTL and however the clock is set, VerifyChallenge accepts a code at most
\* as much later than its TTL as the clock was set back since it was minted.
THEOREM LateBounded == WSpec => []LateByNoMoreThanSetBack
  <1>1. WInv => LateByNoMoreThanSetBack
    BY DEF WInv
  <1> QED BY <1>1, WInvariance, PTL

\* Setting the clock lets no challenge be redeemed twice.
THEOREM OneProofWhateverTheClock == WSpec => []OneProofPerChallenge
  <1>1. WInv => OneProofPerChallenge
    BY DEF WInv, CInv
  <1> QED BY <1>1, WInvariance, PTL

\* The ownership plane implements the one-time code of OneTimeCode.tla however the
\* clock is set: identities and their removal do not depend on it.
THEOREM WRefinement == WSpec => ImplementsOneTimeCode
  <1>1. WInit => Promise!Init
    BY DEF WInit, Init, Promise!Init
  <1>2. WInv /\ [WNext]_wvars => [Promise!Next]_(Promise!vars)
    <2> SUFFICES ASSUME WInv, [WNext]_wvars PROVE [Promise!Next]_(Promise!vars)
      OBVIOUS
    <2>1. CInv
      BY DEF WInv
    <2>2. CASE UNCHANGED <<store, saved, proofs>>
      BY <2>2, StutterRefines
    <2>3. CASE \E p \in Procs : ReadsForMint(p) \/ ReadsForVerify(p) \/ Decides(p) \/ Clockless(p)
      <3>1. Next
        BY <2>3 DEF ReadsForMint, ReadsForVerify, Decides, Clockless, Next, Step
      <3> QED BY <2>1, <3>1, NextRefines
    <2>4. CASE WRestart
      <3>1. Next
        BY <2>4 DEF WRestart, Next
      <3> QED BY <2>1, <3>1, NextRefines
    <2>5. CASE TimePasses
      BY <2>2, <2>5 DEF TimePasses, Tick
    <2>6. CASE \E t \in 0..MaxTime : SetClock(t)
      BY <2>2, <2>6 DEF SetClock
    <2>7. CASE UNCHANGED wvars
      BY <2>2, <2>7 DEF wvars, vars
    <2> QED BY <2>3, <2>4, <2>5, <2>6, <2>7 DEF WNext
  <1> QED BY <1>1, <1>2, WInvariance, PTL DEF WSpec, ImplementsOneTimeCode
=============================================================================
