-------------------------- MODULE OnboardingProofs --------------------------
(***************************************************************************)
(* Theorems about Onboarding, for any claims, any trimming of tokens and    *)
(* UIDs and any number of goroutines.                                       *)
(*                                                                          *)
(* The properties speak of what was answered; what a replay answers is      *)
(* decided at Get and what a retry finds at Put, both before the answer.    *)
(* ReturnOK says of a result, given or about to be, all that is known of it *)
(* and of the cache; JobOK what a goroutine relies on before it has one.    *)
(* Every step but a restart moves Forward: it forgets no claim, empties no  *)
(* entry and leaves a settled key settled and its entry as it is.           *)
(***************************************************************************)
EXTENDS Onboarding, TLAPS

CachedFromClaim ==
    \A k \in Keys : cache[k] # None =>
        \E in \in ClaimsOn(k) : cache[k] = Result(Body(in), FALSE)

\* a: an answer, or a goroutine that has its result.
ReturnOK(a) ==
    /\ cache[Key(a.in)] # None
    /\ \E in \in ClaimsOn(Key(a.in)) : a.result.body = Body(in)
    /\ ~a.result.replay => a.result.body = Body(a.in)
    /\ a.known.answered => a.result.replay
    /\ a.known.settled => /\ Settled(Key(a.in))
                          /\ a.result = Result(cache[Key(a.in)].body, TRUE)

\* A retry finds its key cached, so it is never on its way to Put.
JobOK(p) ==
    job[p].pc # "idle" =>
        /\ job[p].known.answered => cache[Key(job[p].in)] # None
        /\ job[p].known.settled => Settled(Key(job[p].in))
        /\ job[p].pc = "put" => ~job[p].known.answered /\ ~job[p].known.settled
        /\ job[p].pc = "reply" => ReturnOK(job[p])

IInv ==
    /\ TypeOK
    /\ CachedFromClaim
    /\ \A i \in DOMAIN answers : ReturnOK(answers[i])
    /\ \A p \in Procs : JobOK(p)

\* What every step but a restart keeps of each key.
Forward ==
    \A k \in Keys :
        /\ ClaimsOn(k) \subseteq ClaimsOn(k)'
        /\ cache[k] # None => cache'[k] # None
        /\ Settled(k) => Settled(k)' /\ cache'[k] = cache[k]

Answers == [in : Claims, known : Known, result : Results]

-----------------------------------------------------------------------------
\* What a claim computes is a result, and marking a result keeps it one.
LEMMA ResultType ==
    /\ \A in \in Claims, r \in BOOLEAN : Result(Body(in), r) \in Results
    /\ \A held \in Results, r \in BOOLEAN : Result(held.body, r) \in Results
  <1> DEFINE Mix(i, j, k, l) == [uid |-> Body(i).uid, email |-> Body(j).email,
                                 name |-> Body(k).name, digest |-> Body(l).digest]
  <1>1. \A x : x \in Results <=>
            \E i, j, k, l \in Claims, r \in BOOLEAN : x = Result(Mix(i, j, k, l), r)
    BY DEF Results
  <1>2. ASSUME NEW in \in Claims, NEW r \in BOOLEAN
        PROVE  Result(Body(in), r) \in Results
    <2>1. Body(in) = Mix(in, in, in, in)
      BY DEF Body
    <2> HIDE DEF Mix
    <2>2. QED
      BY <1>1, <2>1
  <1>3. ASSUME NEW held \in Results, NEW r \in BOOLEAN
        PROVE  Result(held.body, r) \in Results
    <2> HIDE DEF Mix
    <2>1. PICK i, j, k, l \in Claims, q \in BOOLEAN : held = Result(Mix(i, j, k, l), q)
      BY <1>1
    <2>2. held.body = Mix(i, j, k, l)
      BY <2>1 DEF Result
    <2>3. QED
      BY <1>1, <2>2
  <1>4. QED
    BY <1>2, <1>3

\* A claim's key is one of the keys of the cache.
LEMMA KeyType == \A in \in Claims : Key(in) \in Keys
  BY DEF Keys

\* A goroutine inside Claim has a claim, and its result once it will reply.
LEMMA JobType ==
    ASSUME TypeOK, NEW p \in Procs, job[p].pc # "idle"
    PROVE  /\ job[p].in \in Claims /\ job[p].known \in Known /\ Key(job[p].in) \in Keys
           /\ job[p].pc = "reply" => job[p].result \in Results
  <1>1. job[p] \in Jobs /\ job[p] # Idle
    BY DEF TypeOK, Idle
  <1>2. /\ job[p].in \in Claims /\ job[p].known \in Known
        /\ job[p].pc = "reply" => job[p].result \in Results
    BY <1>1 DEF Jobs
  <1> QED BY <1>2, KeyType

\* An answer has a claim, of a key of the cache.
LEMMA AnswerType ==
    ASSUME TypeOK, NEW i \in DOMAIN answers
    PROVE  answers[i] \in Answers /\ answers[i].in \in Claims /\ Key(answers[i].in) \in Keys
  <1>1. answers \in Seq(Answers)
    BY DEF TypeOK, Answers
  <1>2. answers[i] \in Answers
    BY <1>1
  <1> QED BY <1>2, KeyType DEF Answers

\* No claim is forgotten when answers stay and a goroutine keeps its claim until it
\* has answered it.
LEMMA ClaimsKept ==
    ASSUME \A i \in DOMAIN answers : i \in DOMAIN answers' /\ answers'[i] = answers[i],
           \A p \in Procs : job[p].pc # "idle" =>
               \/ job'[p].pc # "idle" /\ job'[p].in = job[p].in
               \/ \E i \in DOMAIN answers' : answers'[i].in = job[p].in,
           NEW k
    PROVE  ClaimsOn(k) \subseteq ClaimsOn(k)'
  <1> SUFFICES ASSUME NEW c \in ClaimsOn(k) PROVE c \in ClaimsOn(k)'
    OBVIOUS
  <1>1. CASE \E i \in DOMAIN answers : Key(answers[i].in) = k /\ c = answers[i].in
    BY <1>1 DEF ClaimsOn
  <1>2. CASE \E p \in Procs : job[p].pc # "idle" /\ Key(job[p].in) = k /\ c = job[p].in
    <2>1. PICK p \in Procs : job[p].pc # "idle" /\ Key(job[p].in) = k /\ c = job[p].in
      BY <1>2
    <2>2. CASE job'[p].pc # "idle" /\ job'[p].in = job[p].in
      BY <2>1, <2>2 DEF ClaimsOn
    <2>3. CASE \E i \in DOMAIN answers' : answers'[i].in = job[p].in
      BY <2>1, <2>3 DEF ClaimsOn
    <2> QED BY <2>1, <2>2, <2>3
  <1> QED BY <1>1, <1>2 DEF ClaimsOn

\* What is known of a result stays known.
LEMMA ReturnKept ==
    ASSUME Forward, NEW a, Key(a.in) \in Keys, ReturnOK(a)
    PROVE  ReturnOK(a)'
  BY DEF Forward, ReturnOK

\* A forward step of goroutine p: it is left to show what it means for p itself, for
\* an entry it stored and for an answer it gave.
LEMMA ForwardIInv ==
    ASSUME IInv, TypeOK', Forward, CachedFromClaim',
           NEW p \in Procs, \A q \in Procs \ {p} : job'[q] = job[q],
           JobOK(p)',
           \A i \in DOMAIN answers' :
               (i \in DOMAIN answers /\ answers'[i] = answers[i]) \/ ReturnOK(answers[i])'
    PROVE  IInv'
  <1>1. ASSUME NEW i \in DOMAIN answers' PROVE ReturnOK(answers[i])'
    <2>1. CASE i \in DOMAIN answers /\ answers'[i] = answers[i]
      <3>1. PICK a : a = answers[i]
        OBVIOUS
      <3>2. ReturnOK(a) /\ Key(a.in) \in Keys
        BY <2>1, <3>1, AnswerType DEF IInv
      <3>3. ReturnOK(a)'
        BY <3>2, ReturnKept
      <3> QED BY <2>1, <3>1, <3>3 DEF ReturnOK
    <2> QED BY <1>1, <2>1
  <1>2. ASSUME NEW q \in Procs \ {p} PROVE JobOK(q)'
    <2> SUFFICES ASSUME job[q].pc # "idle"
                 PROVE  JobOK(q)'
      BY DEF JobOK
    <2>1. JobOK(q) /\ Key(job[q].in) \in Keys /\ job'[q] = job[q]
      BY JobType DEF IInv
    <2>2. ASSUME job[q].pc = "reply" PROVE ReturnOK(job[q])'
      <3>1. PICK a : a = job[q]
        OBVIOUS
      <3>2. ReturnOK(a) /\ Key(a.in) \in Keys
        BY <2>1, <2>2, <3>1 DEF JobOK
      <3>3. ReturnOK(a)'
        BY <3>2, ReturnKept
      <3> QED BY <2>1, <3>1, <3>3 DEF ReturnOK
    <2>3. /\ job'[q].known.answered => cache'[Key(job'[q].in)] # None
          /\ job'[q].known.settled => Settled(Key(job[q].in))'
          /\ job'[q].pc = "put" => ~job'[q].known.answered /\ ~job'[q].known.settled
      BY <2>1 DEF JobOK, Forward
    <2> QED BY <2>1, <2>2, <2>3 DEF JobOK
  <1> QED BY <1>1, <1>2 DEF IInv

\* A step that changes none of them.
LEMMA QuietIInv ==
    ASSUME IInv, TypeOK', UNCHANGED <<cache, job, answers>>
    PROVE  IInv'
  <1>1. \A k : (ClaimsOn(k)' = ClaimsOn(k)) /\ (Settled(k)' <=> Settled(k))
    BY DEF ClaimsOn, Settled
  <1>2. \A a : ReturnOK(a) => ReturnOK(a)'
    BY <1>1 DEF ReturnOK
  <1>3. CachedFromClaim'
    BY <1>1 DEF IInv, CachedFromClaim
  <1>4. ASSUME NEW i \in DOMAIN answers PROVE ReturnOK(answers[i])'
    <2>1. PICK a : a = answers[i]
      OBVIOUS
    <2>2. ReturnOK(a)'
      BY <1>2, <2>1 DEF IInv
    <2> QED BY <2>1, <2>2 DEF ReturnOK
  <1>5. ASSUME NEW p \in Procs PROVE JobOK(p)'
    <2>1. PICK a : a = job[p]
      OBVIOUS
    <2>2. ReturnOK(a) => ReturnOK(job[p])'
      BY <1>2, <2>1 DEF ReturnOK
    <2> QED BY <1>1, <2>1, <2>2 DEF IInv, JobOK
  <1> QED BY <1>3, <1>4, <1>5 DEF IInv

\* An entry that a forward step leaves alone is still some claim's result.
LEMMA CachedKept ==
    ASSUME CachedFromClaim, Forward, NEW k \in Keys, cache'[k] = cache[k], cache[k] # None
    PROVE  \E in \in ClaimsOn(k)' : cache'[k] = Result(Body(in), FALSE)
  BY DEF CachedFromClaim, Forward

-----------------------------------------------------------------------------
\* One lemma per action.

\* Initially nothing is cached and nothing is answered.
LEMMA InitIInv == Init => IInv
  <1> SUFFICES ASSUME Init
               PROVE  IInv
    OBVIOUS
  <1>1. TypeOK
    BY MaxAssumption DEF Init, TypeOK, Jobs
  <1>2. DOMAIN answers = {}
    BY DEF Init
  <1>3. CachedFromClaim
    BY DEF Init, CachedFromClaim
  <1>4. \A p \in Procs : JobOK(p)
    BY DEF Init, Idle, JobOK
  <1> QED BY <1>1, <1>2, <1>3, <1>4 DEF IInv

\* Claim's validation: only a valid claim gets a goroutine to the cache.  A key that
\* has been answered is cached.
LEMMA StartIInv ==
    ASSUME IInv, NEW p \in Procs, NEW in \in Inputs, Start(p, in)
    PROVE  IInv'
  <1>1. UNCHANGED <<cache, answers>> /\ started' \in 0..MaxClaims /\ job[p].pc = "idle"
    BY MaxAssumption DEF IInv, TypeOK, Start
  <1>2. CASE Valid(in)
    <2> DEFINE new == [pc |-> "get", in |-> in, known |-> KnownOf(Key(in))]
    <2>1. in \in Claims /\ Key(in) \in Keys
      BY <1>2, KeyType DEF Claims
    <2>2. KnownOf(Key(in)) \in Known
      BY DEF KnownOf, Known, Answered, Settled
    <2>3. new \in Jobs
      BY <2>1, <2>2 DEF Jobs
    <2>4. job' = [job EXCEPT ![p] = new]
      BY <1>2 DEF Start, Begin
    <2>5. TypeOK'
      BY <1>1, <2>3, <2>4 DEF IInv, TypeOK
    <2>6. job'[p] = new /\ \A q \in Procs \ {p} : job'[q] = job[q]
      BY <2>4 DEF IInv, TypeOK
    <2>7. job'[p].pc = "get" /\ job'[p].in = in /\ job'[p].known = KnownOf(Key(in))
      BY <2>6
    <2> HIDE DEF new
    <2>8. Forward
      <3>1. \A k : Settled(k) => Settled(k)'
        BY <1>1, <2>6, <2>7 DEF Settled
      <3>2. \A k : ClaimsOn(k) \subseteq ClaimsOn(k)'
        BY <1>1, <2>6, ClaimsKept
      <3> QED BY <1>1, <3>1, <3>2 DEF Forward
    <2>9. CachedFromClaim'
      BY <1>1, <2>8, CachedKept DEF IInv, CachedFromClaim
    <2>10. Answered(Key(in)) => cache[Key(in)] # None
      BY DEF Answered, IInv, ReturnOK
    <2>11. /\ job'[p].known.answered => cache'[Key(in)] # None
           /\ job'[p].known.settled => Settled(Key(in))'
      BY <1>1, <2>1, <2>7, <2>8, <2>10 DEF KnownOf, Forward
    <2>12. JobOK(p)'
      BY <2>7, <2>11 DEF JobOK
    <2> QED BY <1>1, <2>5, <2>6, <2>8, <2>9, <2>12, ForwardIInv
  <1>3. CASE ~Valid(in)
    <2>1. UNCHANGED job
      BY <1>3 DEF Start
    <2>2. TypeOK'
      BY <1>1, <2>1 DEF IInv, TypeOK
    <2> QED BY <1>1, <2>1, <2>2, QuietIInv
  <1> QED BY <1>2, <1>3

\* What WillReply does to goroutine p: it keeps its claim and has its result.
LEMMA WillReplyFacts ==
    ASSUME TypeOK, NEW p \in Procs, job[p].pc # "idle", NEW result \in Results, WillReply(p, result)
    PROVE  /\ job' \in [Procs -> Jobs]
           /\ job'[p].pc = "reply" /\ job'[p].result = result
           /\ job'[p].in = job[p].in /\ job'[p].known = job[p].known
           /\ \A q \in Procs \ {p} : job'[q] = job[q]
  <1> DEFINE new == [pc |-> "reply", in |-> job[p].in, known |-> job[p].known, result |-> result]
  <1>1. new \in Jobs
    BY JobType DEF Jobs
  <1>2. job' = [job EXCEPT ![p] = new]
    BY DEF WillReply
  <1>3. job' \in [Procs -> Jobs]
    BY <1>1, <1>2 DEF TypeOK
  <1>4. job'[p] = new /\ \A q \in Procs \ {p} : job'[q] = job[q]
    BY <1>2 DEF TypeOK
  <1> QED BY <1>3, <1>4

\* claims.Get: a hit copies the entry into the result, a miss goes on to Put.
LEMMA GetIInv ==
    ASSUME IInv, NEW p \in Procs, Get(p)
    PROVE  IInv'
  <1>0. PICK in, held : in = job[p].in /\ held = cache[Key(in)]
    OBVIOUS
  <1>1. /\ job[p].pc = "get" /\ in \in Claims /\ Key(in) \in Keys /\ JobOK(p)
        /\ TypeOK /\ UNCHANGED <<cache, started, answers>>
    BY <1>0, JobType DEF Get, IInv
  <1>2. held \in Results \cup {None}
    BY <1>0, <1>1 DEF TypeOK
  <1>3. CASE held # None
    <2>1. PICK result : result = Result(held.body, TRUE)
      OBVIOUS
    <2>2. result \in Results
      BY <1>2, <1>3, <2>1, ResultType
    <2>3. WillReply(p, result)
      BY <1>0, <1>3, <2>1, Zenon DEF Get
    <2>4. /\ job' \in [Procs -> Jobs]
          /\ job'[p].pc = "reply" /\ job'[p].result = result
          /\ job'[p].in = in /\ job'[p].known = job[p].known
          /\ \A q \in Procs \ {p} : job'[q] = job[q]
      BY <1>0, <1>1, <2>2, <2>3, WillReplyFacts
    <2>5. TypeOK'
      BY <1>1, <2>4 DEF TypeOK
    <2>6. Forward
      <3>1. \A k : Settled(k) => Settled(k)'
        BY <1>1, <2>4 DEF Settled
      <3>2. \A k : ClaimsOn(k) \subseteq ClaimsOn(k)'
        BY <1>0, <1>1, <2>4, ClaimsKept
      <3> QED BY <1>1, <3>1, <3>2 DEF Forward
    <2>7. CachedFromClaim'
      BY <1>1, <2>6, CachedKept DEF IInv, CachedFromClaim
    <2>8. PICK c \in ClaimsOn(Key(in)) : held = Result(Body(c), FALSE)
      BY <1>0, <1>1, <1>3 DEF IInv, CachedFromClaim
    <2>9. result.body = Body(c) /\ result.replay = TRUE
      BY <2>1, <2>8 DEF Result
    <2>10. c \in ClaimsOn(Key(in))'
      BY <1>1, <2>6 DEF Forward
    <2>11. job[p].known.settled => Settled(Key(in))'
      BY <1>0, <1>1, <2>6 DEF JobOK, Forward
    <2>12. ReturnOK(job[p])'
      BY <1>0, <1>1, <1>3, <2>1, <2>4, <2>9, <2>10, <2>11 DEF ReturnOK
    <2>13. JobOK(p)'
      BY <1>0, <1>1, <1>3, <2>4, <2>11, <2>12 DEF JobOK
    <2> QED BY <1>1, <2>4, <2>5, <2>6, <2>7, <2>13, ForwardIInv
  <1>4. CASE held = None
    <2>1. job' = [job EXCEPT ![p].pc = "put"]
      BY <1>0, <1>4 DEF Get, WillPut
    <2>2. job[p] \in [pc : {"get", "put"}, in : Claims, known : Known]
      BY <1>1 DEF TypeOK, Jobs, Idle
    <2>3. /\ job'[p] \in Jobs
          /\ job'[p].pc = "put" /\ job'[p].in = in /\ job'[p].known = job[p].known
          /\ \A q \in Procs \ {p} : job'[q] = job[q]
      BY <1>0, <1>1, <2>1, <2>2 DEF TypeOK, Jobs
    <2>4. TypeOK'
      <3>1. job' \in [Procs -> Jobs]
        BY <1>1, <2>1, <2>3 DEF TypeOK
      <3> QED BY <1>1, <3>1 DEF TypeOK
    <2>5. Forward
      <3>1. ASSUME NEW k, Settled(k) PROVE Settled(k)'
        <4>1. k # Key(in)
          BY <1>0, <1>4, <3>1 DEF Settled
        <4> QED BY <1>1, <2>3, <3>1, <4>1 DEF Settled
      <3>2. \A k : ClaimsOn(k) \subseteq ClaimsOn(k)'
        BY <1>0, <1>1, <2>3, ClaimsKept
      <3> QED BY <1>1, <3>1, <3>2 DEF Forward
    <2>6. CachedFromClaim'
      BY <1>1, <2>5, CachedKept DEF IInv, CachedFromClaim
    <2>7. ~job[p].known.answered /\ ~job[p].known.settled
      BY <1>0, <1>1, <1>4 DEF JobOK, Settled
    <2>8. JobOK(p)'
      BY <2>3, <2>7 DEF JobOK
    <2> QED BY <1>1, <2>3, <2>4, <2>5, <2>6, <2>8, ForwardIInv
  <1> QED BY <1>3, <1>4

\* claims.Put overwrites the entry of a key that is not settled, with a result of
\* a claim that began before its key was answered.
LEMMA PutIInv ==
    ASSUME IInv, NEW p \in Procs, Put(p)
    PROVE  IInv'
  <1>0. PICK in, k, fresh : in = job[p].in /\ k = Key(in) /\ fresh = Result(Body(in), FALSE)
    OBVIOUS
  <1>1. /\ job[p].pc = "put" /\ in \in Claims /\ k \in Keys /\ JobOK(p)
        /\ TypeOK /\ UNCHANGED <<started, answers>>
    BY <1>0, JobType DEF Put, IInv
  <1>2. cache' = [cache EXCEPT ![k] = fresh] /\ WillReply(p, fresh)
    BY <1>0, Zenon DEF Put
  <1>3. fresh \in Results /\ fresh # None
    <2>1. \A r \in BOOLEAN : Result(Body(in), r) \in Results
      BY <1>1, ResultType
    <2>2. Result(Body(in), FALSE) \in Results
      BY <2>1, Zenon
    <2>3. fresh \in Results
      BY <1>0, <2>2, Zenon
    <2> QED BY <2>3, MissAssumption
  <1>4. /\ job' \in [Procs -> Jobs]
        /\ job'[p].pc = "reply" /\ job'[p].result = fresh
        /\ job'[p].in = in /\ job'[p].known = job[p].known
        /\ \A q \in Procs \ {p} : job'[q] = job[q]
    BY <1>0, <1>1, <1>2, <1>3, WillReplyFacts
  <1>5. cache'[k] = fresh /\ \A l \in Keys \ {k} : cache'[l] = cache[l]
    BY <1>1, <1>2 DEF TypeOK
  <1>6. TypeOK'
    BY <1>1, <1>2, <1>3, <1>4 DEF TypeOK
  <1>7. Forward
    <2>1. ASSUME NEW l \in Keys, Settled(l) PROVE Settled(l)' /\ cache'[l] = cache[l]
      <3>1. l # k
        BY <1>0, <1>1, <2>1 DEF Settled
      <3> QED BY <1>4, <1>5, <2>1, <3>1 DEF Settled
    <2>2. \A l : ClaimsOn(l) \subseteq ClaimsOn(l)'
      BY <1>0, <1>1, <1>4, ClaimsKept
    <2> QED BY <1>3, <1>5, <2>1, <2>2 DEF Forward
  <1>8. in \in ClaimsOn(k)'
    BY <1>0, <1>4 DEF ClaimsOn
  <1>9. CachedFromClaim'
    <2> SUFFICES ASSUME NEW l \in Keys, cache'[l] # None
                 PROVE  \E c \in ClaimsOn(l)' : cache'[l] = Result(Body(c), FALSE)
      BY DEF CachedFromClaim
    <2>1. CASE l = k
      BY <1>0, <1>5, <1>8, <2>1
    <2>2. CASE l # k
      BY <1>5, <1>7, <2>2, CachedKept DEF IInv
    <2> QED BY <2>1, <2>2
  <1>10. ~job[p].known.answered /\ ~job[p].known.settled
    BY <1>1 DEF JobOK
  <1>11. fresh.body = Body(in) /\ fresh.replay = FALSE
    BY <1>0 DEF Result
  <1>12. ReturnOK(job[p])'
    BY <1>0, <1>3, <1>4, <1>5, <1>8, <1>10, <1>11 DEF ReturnOK
  <1>13. JobOK(p)'
    BY <1>4, <1>10, <1>12 DEF JobOK
  <1> QED BY <1>1, <1>4, <1>6, <1>7, <1>9, <1>13, ForwardIInv

\* The answer is the result the goroutine had.
LEMMA RespondIInv ==
    ASSUME IInv, NEW p \in Procs, Respond(p)
    PROVE  IInv'
  <1>0. PICK e : e = [in |-> job[p].in, known |-> job[p].known, result |-> job[p].result]
    OBVIOUS
  <1>1. /\ job[p].pc = "reply" /\ TypeOK /\ UNCHANGED <<cache, started>>
        /\ answers' = Append(answers, e) /\ job' = [job EXCEPT ![p] = Idle]
    BY <1>0 DEF Respond, IInv
  <1>2. e.in = job[p].in /\ e.known = job[p].known /\ e.result = job[p].result
    BY <1>0
  <1>3. e \in Answers /\ Key(e.in) \in Keys
    BY <1>0, <1>1, JobType DEF Answers
  <1>4. job'[p].pc = "idle" /\ (\A q \in Procs \ {p} : job'[q] = job[q]) /\ job' \in [Procs -> Jobs]
    BY <1>1 DEF TypeOK, Idle, Jobs
  <1>5. /\ answers' \in Seq(Answers)
        /\ \A i \in DOMAIN answers : i \in DOMAIN answers' /\ answers'[i] = answers[i]
        /\ \A i \in DOMAIN answers' : i \in DOMAIN answers \/ answers'[i] = e
        /\ \E i \in DOMAIN answers' : answers'[i] = e
    BY <1>1, <1>3 DEF TypeOK, Answers
  <1>6. TypeOK'
    BY <1>1, <1>4, <1>5 DEF TypeOK, Answers
  <1>7. Forward
    <2>1. \A k : Settled(k) => Settled(k)'
      BY <1>1, <1>4 DEF Settled
    <2>2. \A k : ClaimsOn(k) \subseteq ClaimsOn(k)'
      BY <1>1, <1>2, <1>4, <1>5, ClaimsKept
    <2> QED BY <1>1, <2>1, <2>2 DEF Forward
  <1>8. CachedFromClaim'
    BY <1>1, <1>7, CachedKept DEF IInv, CachedFromClaim
  <1>9. ReturnOK(e)'
    <2>1. ReturnOK(job[p])
      BY <1>1 DEF IInv, JobOK
    <2>2. ReturnOK(e)
      BY <1>2, <2>1 DEF ReturnOK
    <2> QED BY <1>3, <1>7, <2>2, ReturnKept
  <1>10. \A i \in DOMAIN answers' :
            (i \in DOMAIN answers /\ answers'[i] = answers[i]) \/ ReturnOK(answers[i])'
    <2> SUFFICES ASSUME NEW i \in DOMAIN answers', answers'[i] = e
                 PROVE  ReturnOK(answers[i])'
      BY <1>5
    <2> QED BY <1>9 DEF ReturnOK
  <1>11. JobOK(p)'
    BY <1>4 DEF JobOK
  <1> QED BY <1>4, <1>6, <1>7, <1>8, <1>10, <1>11, ForwardIInv

\* A restart forgets cache, jobs and answers together.
LEMMA RestartIInv == IInv /\ Restart => IInv'
  <1> SUFFICES ASSUME IInv, Restart
               PROVE  IInv'
    OBVIOUS
  <1>1. TypeOK'
    BY DEF IInv, TypeOK, Restart, Jobs
  <1>2. DOMAIN answers' = {}
    BY DEF Restart
  <1>3. CachedFromClaim'
    BY DEF Restart, CachedFromClaim
  <1>4. \A p \in Procs : JobOK(p)'
    BY DEF Restart, Idle, JobOK
  <1> QED BY <1>1, <1>2, <1>3, <1>4 DEF IInv

\* Every step of the onboarding plane keeps the inductive invariant.
LEMMA NextIInv == IInv /\ [Next]_vars => IInv'
  <1> SUFFICES ASSUME IInv, [Next]_vars
               PROVE  IInv'
    OBVIOUS
  <1>1. ASSUME NEW p \in Procs, NEW in \in Inputs, Start(p, in) PROVE IInv'
    BY <1>1, StartIInv
  <1>2. ASSUME NEW p \in Procs, Get(p) PROVE IInv'
    BY <1>2, GetIInv
  <1>3. ASSUME NEW p \in Procs, Put(p) PROVE IInv'
    BY <1>3, PutIInv
  <1>4. ASSUME NEW p \in Procs, Respond(p) PROVE IInv'
    BY <1>4, RespondIInv
  <1>5. CASE Restart
    BY <1>5, RestartIInv
  <1>6. CASE UNCHANGED vars
    <2>1. TypeOK'
      BY <1>6 DEF vars, IInv, TypeOK
    <2> QED BY <1>6, <2>1, QuietIInv DEF vars
  <1> QED BY <1>1, <1>2, <1>3, <1>4, <1>5, <1>6 DEF Next

-----------------------------------------------------------------------------
\* The onboarding plane always satisfies its inductive invariant: the cache, the
\* goroutines and the answers tell the same story.
THEOREM Invariance == Spec => []IInv
  BY InitIInv, NextIInv, PTL DEF Spec

\* Type correctness: what is cached and answered is a result of the claims made,
\* and no goroutine works on an invalid claim.
THEOREM TypeCorrect == Spec => []TypeOK
  <1>1. IInv => TypeOK
    BY DEF IInv
  <1> QED BY <1>1, Invariance, PTL

\* Claim never mixes two claims: every answer, fresh or replayed, however Get and
\* Put interleave, is the whole result of one claim made under its key.
THEOREM WholeAnswers == Spec => []AnswersAreWhole
  <1>1. IInv => AnswersAreWhole
    BY DEF IInv, ReturnOK, AnswersAreWhole
  <1> QED BY <1>1, Invariance, PTL

\* A claim that begins after its key has been answered is answered with a replay,
\* whatever races with it.
THEOREM RetriesReplay == Spec => []RetryIsReplay
  <1>1. IInv => RetryIsReplay
    BY DEF IInv, ReturnOK, RetryIsReplay
  <1> QED BY <1>1, Invariance, PTL

\* A claim that begins on a settled key is answered with what is cached under it
\* for as long as the process lives.
THEOREM SettledKeys == Spec => []SettledKeyStays
  <1>1. IInv => SettledKeyStays
    BY DEF IInv, ReturnOK, SettledKeyStays
  <1> QED BY <1>1, Invariance, PTL

-----------------------------------------------------------------------------
\* What the two disagreements with the documentation come down to.

\* A claim without an Idempotency-Key is answered with another one's result only
\* when some key, derived or sent by a client, coincides with its token:uid.
THEOREM ForeignReplayNeedsCollision ==
    ASSUME \A a, b \in Claims : a.header = <<>> /\ Key(a) = Key(b) =>
               Token(a) = Token(b) /\ UID(a) = UID(b)
    PROVE  Spec => []NoForeignReplay
  <1>1. IInv => NoForeignReplay
    <2> SUFFICES ASSUME IInv, NEW i \in DOMAIN answers, answers[i].in.header = <<>>
                 PROVE  \E in \in ClaimsOn(Key(answers[i].in)) :
                            /\ Token(in) = Token(answers[i].in) /\ UID(in) = UID(answers[i].in)
                            /\ answers[i].result.body = Body(in)
      BY DEF NoForeignReplay
    <2>1. PICK c \in ClaimsOn(Key(answers[i].in)) : answers[i].result.body = Body(c)
      BY DEF IInv, ReturnOK
    <2>2. c \in Claims /\ Key(c) = Key(answers[i].in)
      BY JobType, AnswerType DEF IInv, ClaimsOn
    <2>3. answers[i].in \in Claims
      BY AnswerType DEF IInv
    <2> QED BY <2>1, <2>2, <2>3
  <1> QED BY <1>1, Invariance, PTL

\* Claims one after another: a miss is still a miss at Put, and every result of a
\* key, returned or about to be, has the body that is cached under it.
MissesLast == \A p \in Procs : job[p].pc = "put" => cache[Key(job[p].in)] = None

FromCache(a) == cache[Key(a.in)] # None /\ a.result.body = cache[Key(a.in)].body

ResultsFromCache ==
    /\ \A i \in DOMAIN answers : FromCache(answers[i])
    /\ \A p \in Procs : job[p].pc = "reply" => FromCache(job[p])

\* One goroutine keeps it so.
LEMMA SequentialNext ==
    ASSUME \A p, q \in Procs : p = q,
           IInv, MissesLast, ResultsFromCache, [Next]_vars
    PROVE  MissesLast' /\ ResultsFromCache'
  <1>0. TypeOK
    BY DEF IInv
  <1>1. ASSUME UNCHANGED <<cache, answers>>,
               \A p \in Procs : job'[p].pc \in {"put", "reply"} => job'[p] = job[p]
        PROVE  MissesLast' /\ ResultsFromCache'
    BY <1>1 DEF MissesLast, ResultsFromCache, FromCache
  <1>2. ASSUME NEW p \in Procs, NEW in \in Inputs, Start(p, in)
        PROVE  MissesLast' /\ ResultsFromCache'
    <2>1. UNCHANGED <<cache, answers>>
      BY <1>2 DEF Start
    <2>2. \A q \in Procs : job'[q].pc \in {"put", "reply"} => job'[q] = job[q]
      <3>1. CASE Valid(in)
        BY <1>0, <1>2, <3>1 DEF Start, Begin, TypeOK
      <3>2. CASE ~Valid(in)
        BY <1>2, <3>2 DEF Start
      <3> QED BY <3>1, <3>2
    <2> QED BY <1>1, <2>1, <2>2
  <1>3. ASSUME NEW p \in Procs, Get(p) PROVE MissesLast' /\ ResultsFromCache'
    <2>0. PICK held : held = cache[Key(job[p].in)]
      OBVIOUS
    <2>1. /\ UNCHANGED <<cache, answers>> /\ job[p].pc = "get"
          /\ job[p].in \in Claims /\ Key(job[p].in) \in Keys
      BY <1>0, <1>3, JobType DEF Get
    <2>2. CASE held = None
      <3>1. job' = [job EXCEPT ![p].pc = "put"]
        BY <1>3, <2>0, <2>2 DEF Get, WillPut
      <3>2. job[p] \in [pc : {"get", "put"}, in : Claims, known : Known]
        BY <1>0, <2>1 DEF TypeOK, Jobs, Idle
      <3>3. job'[p].pc = "put" /\ job'[p].in = job[p].in
        BY <1>0, <3>1, <3>2 DEF TypeOK
      <3> QED BY <2>0, <2>1, <2>2, <3>3 DEF MissesLast, ResultsFromCache, FromCache
    <2>3. CASE held # None
      <3>1. PICK result : result = Result(held.body, TRUE)
        OBVIOUS
      <3>2. WillReply(p, result)
        BY <1>3, <2>0, <2>3, <3>1, Zenon DEF Get
      <3>3. held \in Results
        BY <1>0, <2>0, <2>1, <2>3 DEF TypeOK
      <3>4. result \in Results
        BY <3>1, <3>3, ResultType
      <3>5. job'[p].pc = "reply" /\ job'[p].result = result /\ job'[p].in = job[p].in
        BY <1>0, <2>1, <3>2, <3>4, WillReplyFacts
      <3>6. result.body = held.body
        BY <3>1 DEF Result
      <3> QED BY <2>0, <2>1, <2>3, <3>5, <3>6 DEF MissesLast, ResultsFromCache, FromCache
    <2> QED BY <2>2, <2>3
  <1>4. ASSUME NEW p \in Procs, Put(p) PROVE MissesLast' /\ ResultsFromCache'
    <2>1. PICK in, k, fresh : in = job[p].in /\ k = Key(in) /\ fresh = Result(Body(in), FALSE)
      OBVIOUS
    <2>2. /\ job[p].pc = "put" /\ cache' = [cache EXCEPT ![k] = fresh]
          /\ WillReply(p, fresh) /\ UNCHANGED answers
      BY <1>4, <2>1, Zenon DEF Put
    <2>3. in \in Claims /\ k \in Keys
      BY <1>0, <2>1, <2>2, JobType
    <2>4. fresh \in Results /\ fresh # None
      <3>1. \A r \in BOOLEAN : Result(Body(in), r) \in Results
        BY <2>3, ResultType
      <3>2. Result(Body(in), FALSE) \in Results
        BY <3>1, Zenon
      <3>3. fresh \in Results
        BY <2>1, <3>2, Zenon
      <3> QED BY <3>3, MissAssumption
    <2>5. job'[p].pc = "reply" /\ job'[p].result = fresh /\ job'[p].in = in
      BY <1>0, <2>1, <2>2, <2>4, WillReplyFacts
    <2>6. cache'[k] = fresh /\ \A l \in Keys \ {k} : cache'[l] = cache[l]
      BY <1>0, <2>2, <2>3 DEF TypeOK
    <2>7. \A i \in DOMAIN answers : Key(answers[i].in) \in Keys \ {k}
      <3>1. cache[k] = None
        BY <2>1, <2>2 DEF MissesLast
      <3> QED BY <1>0, <3>1, AnswerType DEF ResultsFromCache, FromCache
    <2>8. MissesLast'
      BY <2>5 DEF MissesLast
    <2>9. \A i \in DOMAIN answers : FromCache(answers[i])'
      BY <2>2, <2>6, <2>7 DEF ResultsFromCache, FromCache
    <2>10. FromCache(job[p])'
      BY <2>1, <2>4, <2>5, <2>6 DEF FromCache
    <2>11. \A q \in Procs : job'[q].pc = "reply" => FromCache(job[q])'
      <3> SUFFICES ASSUME NEW q \in Procs PROVE FromCache(job[q])'
        OBVIOUS
      <3>1. q = p
        OBVIOUS
      <3> QED BY <2>10, <3>1
    <2> QED BY <2>2, <2>8, <2>9, <2>11 DEF ResultsFromCache
  <1>5. ASSUME NEW p \in Procs, Respond(p) PROVE MissesLast' /\ ResultsFromCache'
    <2>1. PICK e : e = [in |-> job[p].in, known |-> job[p].known, result |-> job[p].result]
      OBVIOUS
    <2>2. /\ job[p].pc = "reply" /\ UNCHANGED cache
          /\ answers' = Append(answers, e) /\ job' = [job EXCEPT ![p] = Idle]
      BY <1>5, <2>1 DEF Respond
    <2>3. e.in = job[p].in /\ e.result = job[p].result
      BY <2>1
    <2>4. e \in Answers
      BY <1>0, <2>1, <2>2, JobType DEF Answers
    <2>5. \A i \in DOMAIN answers' : (i \in DOMAIN answers /\ answers'[i] = answers[i]) \/ answers'[i] = e
      BY <1>0, <2>2, <2>4 DEF TypeOK, Answers
    <2>6. \A q \in Procs : job'[q].pc = "idle"
      BY <1>0, <2>2 DEF TypeOK, Idle
    <2>7. FromCache(e)
      BY <2>2, <2>3 DEF ResultsFromCache, FromCache
    <2> QED BY <2>2, <2>5, <2>6, <2>7 DEF MissesLast, ResultsFromCache, FromCache
  <1>6. CASE Restart
    BY <1>6 DEF Restart, Idle, MissesLast, ResultsFromCache
  <1>7. CASE UNCHANGED vars
    BY <1>1, <1>7 DEF vars
  <1> QED BY <1>2, <1>3, <1>4, <1>5, <1>6, <1>7 DEF Next

\* The race between Get and Put is the only way to a replay that differs from the
\* first answer: one goroutine that serves claims one after another replays
\* exactly what the first call returned.
THEOREM ReplayDiffersOnlyInRace ==
    ASSUME \A p, q \in Procs : p = q
    PROVE  Spec => []ReplayReturnsFirst
  <1> DEFINE SInv == IInv /\ MissesLast /\ ResultsFromCache
  <1>1. Init => SInv
    BY InitIInv DEF Init, Idle, MissesLast, ResultsFromCache
  <1>2. SInv /\ [Next]_vars => SInv'
    BY NextIInv, SequentialNext
  <1>3. SInv => ReplayReturnsFirst
    BY DEF ResultsFromCache, FromCache, ReplayReturnsFirst
  <1> HIDE DEF SInv
  <1> QED BY <1>1, <1>2, <1>3, PTL DEF Spec
=============================================================================
