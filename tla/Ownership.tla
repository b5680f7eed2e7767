----------------------------- MODULE Ownership -----------------------------
(***************************************************************************)
(* The ownership plane: application.Service.Challenge and VerifyChallenge   *)
(* over the in-memory challenge store.  Every HTTP request runs in its own  *)
(* goroutine, so a call is split wherever it touches something another      *)
(* goroutine can change: the limiter, the code generator and the clock, and *)
(* the two critical sections of memory.Challenges (Save and Confirm).       *)
(*                                                                          *)
(* A challenge carries a ghost identity, id, that no code of the gateway    *)
(* reads: two challenges may share code and expiry, and the properties have *)
(* to tell them apart.                                                      *)
(***************************************************************************)
EXTENDS Naturals, Sequences

CONSTANTS
    Procs,           \* request goroutines
    Spellings,       \* spellings of the email field of a request
    Names,           \* what they normalise to
    Normalize,       \* [Spellings -> Names]: trim and lower-case
    Addresses,       \* the names that contain "@"
    CodeSpellings,   \* spellings of the code field of a request
    Codes,           \* codes the generator can draw
    Trim,            \* [CodeSpellings -> Codes \cup {Blank}]: trim
    Blank,           \* the empty string
    NoChallenge,     \* an absent map entry
    TTL,             \* domain.ChallengeTTL, in clock ticks
    MaxTime,         \* bound: the last clock tick explored
    MaxChallenges    \* bound: challenges minted in one behaviour

ASSUME InputsAssumption ==
    /\ Normalize \in [Spellings -> Names]
    /\ Addresses \subseteq Names \ {Blank}
    /\ Blank \notin Codes
    /\ Trim \in [CodeSpellings -> Codes \cup {Blank}]

ASSUME BoundsAssumption ==
    /\ TTL \in Nat
    /\ MaxTime \in Nat
    /\ MaxChallenges \in Nat

\* domain.Challenge, with its ghost identity.
Challenge == [code : Codes, expiresAt : Nat, id : Nat]

ASSUME NoChallengeAssumption == NoChallenge \notin Challenge

VARIABLES
    now,      \* the process clock
    store,    \* memory.Challenges.items
    job,      \* job[p]: where goroutine p is, and its locals
    answer,   \* answer[p]: outcome of p's last call
    minted,   \* ghost: number of challenges minted
    saved,    \* ghost: ids of the challenges ever stored
    proofs    \* ghost: the proofs granted, in order

vars == <<now, store, job, answer, minted, saved, proofs>>

Answers == {"none", "invalid", "limited", "unavailable",
            "dispatched", "verified", "rejected"}

Jobs ==
    [pc : {"idle"}]
    \cup [pc : {"limit", "mint"}, email : Addresses]
    \cup [pc : {"save"}, email : Addresses, challenge : Challenge]
    \cup [pc : {"confirm"}, email : Names, code : Codes, at : Nat]

\* domain.OwnershipProof: VerifiedAt, with the challenge it consumed and the
\* instant of the critical section as ghosts.
Proof == [email : Names, verifiedAt : Nat, challenge : Challenge, takenAt : Nat]

Idle == [pc |-> "idle"]

\* The state of the challenge store and of each call in progress: what is stored is
\* a challenge, what is verified is a trimmed, non-blank code.
TypeOK ==
    /\ now \in Nat
    /\ store \in [Names -> Challenge \cup {NoChallenge}]
    /\ job \in [Procs -> Jobs]
    /\ answer \in [Procs -> Answers]
    /\ minted \in Nat
    /\ saved \subseteq Nat
    /\ proofs \in Seq(Proof)

Init ==
    /\ now = 0
    /\ store = [n \in Names |-> NoChallenge]
    /\ job = [p \in Procs |-> Idle]
    /\ answer = [p \in Procs |-> "none"]
    /\ minted = 0
    /\ saved = {}
    /\ proofs = <<>>

-----------------------------------------------------------------------------
\* Helpers: how a call ends, and how it goes on.

Finish(p, outcome) ==
    /\ job' = [job EXCEPT ![p] = Idle]
    /\ answer' = [answer EXCEPT ![p] = outcome]

Continue(p, next) ==
    /\ job' = [job EXCEPT ![p] = next]
    /\ answer' = [answer EXCEPT ![p] = "none"]

-----------------------------------------------------------------------------
\* Challenge.

\* The email is normalised and validated before any budget is spent.
StartChallenge(p, s) ==
    /\ job[p].pc = "idle"
    /\ LET email == Normalize[s] IN
       IF email \in Addresses
         THEN Continue(p, [pc |-> "limit", email |-> email])
         ELSE Finish(p, "invalid")
    /\ UNCHANGED <<now, store, minted, saved, proofs>>

\* checkIdentifierLimit: the budget itself is modelled in Edge.tla; here any
\* outcome is possible, and only an admitted call goes on.
CheckIdentifierLimit(p) ==
    /\ job[p].pc = "limit"
    /\ \/ Continue(p, [pc |-> "mint", email |-> job[p].email])
       \/ \E outcome \in {"limited", "unavailable"} : Finish(p, outcome)
    /\ UNCHANGED <<now, store, minted, saved, proofs>>

\* NewCode and the clock are read while no lock is held.
Mint(p) ==
    /\ job[p].pc = "mint"
    /\ minted < MaxChallenges
    /\ \E c \in Codes :
         Continue(p, [pc |-> "save", email |-> job[p].email,
                      challenge |-> [code |-> c, expiresAt |-> now + TTL,
                                     id |-> minted + 1]])
    /\ minted' = minted + 1
    /\ UNCHANGED <<now, store, saved, proofs>>

\* memory.Challenges.Save: store or replace, under the write lock.
Save(p) ==
    /\ job[p].pc = "save"
    /\ store' = [store EXCEPT ![job[p].email] = job[p].challenge]
    /\ saved' = saved \cup {job[p].challenge.id}
    /\ Finish(p, "dispatched")
    /\ UNCHANGED <<now, minted, proofs>>

-----------------------------------------------------------------------------
\* VerifyChallenge.

\* A verification that checks only the email.
StartVerify_AnyCode(p, s, cs) ==
    /\ job[p].pc = "idle"
    /\ LET email == Normalize[s]
           code  == Trim[cs] IN
       IF email # Blank
         THEN Continue(p, [pc |-> "confirm", email |-> email, code |-> code, at |-> now])
         ELSE Finish(p, "invalid")
    /\ UNCHANGED <<now, store, minted, saved, proofs>>

\* Normalise, reject blanks, read the clock; the lock is taken only later.
StartVerify(p, s, cs) ==
    /\ job[p].pc = "idle"
    /\ LET email == Normalize[s]
           code  == Trim[cs] IN
       IF email # Blank /\ code # Blank
         THEN Continue(p, [pc |-> "confirm", email |-> email, code |-> code, at |-> now])
         ELSE Finish(p, "invalid")
    /\ UNCHANGED <<now, store, minted, saved, proofs>>

\* The deadline itself counted as too late.
Accepts_Strict(candidate, code, at) ==
    candidate.code = code /\ at < candidate.expiresAt

\* The expiry is not looked at.
Accepts_NoExpiry(candidate, code, at) == candidate.code = code

\* The accept callback of VerifyChallenge: an instant equal to the deadline is
\* still in time (!now.After(ExpiresAt)).
Accepts(candidate, code, at) ==
    candidate.code = code /\ at <= candidate.expiresAt

\* A confirm that leaves the accepted challenge in the map.
Confirm_Keeps(p) ==
    /\ job[p].pc = "confirm"
    /\ LET email == job[p].email
           held  == store[email] IN
       IF held # NoChallenge /\ Accepts(held, job[p].code, job[p].at)
         THEN /\ proofs' = Append(proofs, [email |-> email, verifiedAt |-> job[p].at,
                                           challenge |-> held, takenAt |-> now])
              /\ UNCHANGED store
              /\ Finish(p, "verified")
         ELSE /\ Finish(p, "rejected")
              /\ UNCHANGED <<store, proofs>>
    /\ UNCHANGED <<now, minted, saved>>

\* memory.Challenges.Confirm: load, decide and remove in one critical section.
Confirm(p) ==
    /\ job[p].pc = "confirm"
    /\ LET email == job[p].email
           held  == store[email] IN
       IF held # NoChallenge /\ Accepts(held, job[p].code, job[p].at)
         THEN /\ proofs' = Append(proofs, [email |-> email, verifiedAt |-> job[p].at,
                                           challenge |-> held, takenAt |-> now])
              /\ store' = [store EXCEPT ![email] = NoChallenge]
              /\ Finish(p, "verified")
         ELSE /\ Finish(p, "rejected")
              /\ UNCHANGED <<store, proofs>>
    /\ UNCHANGED <<now, minted, saved>>

-----------------------------------------------------------------------------
\* The environment.

Tick ==
    /\ now < MaxTime
    /\ now' = now + 1
    /\ UNCHANGED <<store, job, answer, minted, saved, proofs>>

\* The store lives in process memory: a restart drops it together with every
\* request in flight.
Restart ==
    /\ store' = [n \in Names |-> NoChallenge]
    /\ job' = [p \in Procs |-> Idle]
    /\ answer' = [p \in Procs |-> "none"]
    /\ UNCHANGED <<now, minted, saved, proofs>>

Step(p) == CheckIdentifierLimit(p) \/ Mint(p) \/ Save(p) \/ Confirm(p)

Next ==
    \/ \E p \in Procs, s \in Spellings : StartChallenge(p, s)
    \/ \E p \in Procs, s \in Spellings, cs \in CodeSpellings : StartVerify(p, s, cs)
    \/ \E p \in Procs : Step(p)
    \/ Tick
    \/ Restart

Spec == Init /\ [][Next]_vars

\* A goroutine that can run is run: the store's critical sections are straight
\* line code, so the mutex is always released.
FairSpec == Spec /\ \A p \in Procs : WF_vars(Step(p))

-----------------------------------------------------------------------------
\* Properties.

\* Confirm's compare-and-remove: however many verifications race on one
\* challenge, and however often it is re-issued in between, it yields at most
\* one proof.
OneProofPerChallenge ==
    \A i, j \in DOMAIN proofs :
        proofs[i].challenge.id = proofs[j].challenge.id => i = j

\* VerifyChallenge reads the clock before it takes the lock, so the challenge it
\* consumes may have been saved meanwhile: still the instant it certifies is
\* never past that challenge's deadline, nor in the future.
ProofWithinTTL ==
    \A i \in DOMAIN proofs :
        /\ proofs[i].verifiedAt <= proofs[i].challenge.expiresAt
        /\ proofs[i].verifiedAt <= proofs[i].takenAt

\* A right code submitted in time is not lost to races with wrong or repeated
\* submissions: once the verification runs, the challenge is consumed, unless a
\* newer challenge or a restart took it away first.
RightCodeSettles ==
    \A p \in Procs, n \in Addresses, i \in 1..MaxChallenges :
        (/\ job[p].pc = "confirm" /\ job[p].email = n
         /\ store[n] # NoChallenge /\ store[n].id = i
         /\ store[n].code = job[p].code /\ job[p].at <= store[n].expiresAt)
        ~> (store[n] = NoChallenge \/ store[n].id # i)

\* The promise of OneTimeCode.tla, read off the store: the live ticket of a name
\* is the id of its stored challenge.
Promise == INSTANCE OneTimeCode WITH
    Emails   <- Names,
    Tickets  <- 1..MaxChallenges,
    NoTicket <- 0,
    live     <- [n \in Names |-> IF store[n] = NoChallenge THEN 0 ELSE store[n].id],
    issued   <- saved,
    spent    <- {proofs[i].challenge.id : i \in DOMAIN proofs}

\* Challenge and VerifyChallenge implement one live, once-redeemable challenge
\* per address, under every interleaving of requests and restarts.
ImplementsOneTimeCode == Promise!Init /\ [][Promise!Next]_(Promise!vars)
=============================================================================
