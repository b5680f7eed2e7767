----------------------------- MODULE EdgeProofs -----------------------------
(***************************************************************************)
(* Theorems about Edge, for any route table that ends every route with its  *)
(* service call, any requests, limits and number of goroutines.             *)
(*                                                                          *)
(* The invariants of Edge relate what was served to what was admitted; they *)
(* become inductive with two facts about requests still on their way:       *)
(* Passed, that a request beyond a limit stage was admitted there, and      *)
(* Conservation, that a bucket never lets through more than it held.        *)
(*                                                                          *)
(* What responses say (AInv) needs the serial numbers to tell requests      *)
(* apart, and what is known of a request before it is answered.             *)
(***************************************************************************)
EXTENDS Edge, Routes, FiniteSetTheorems, TLAPS

Stages(r) == Pipeline[r.route]

Passed ==
    hasLimiter =>
        \A p \in Procs : \A j \in DOMAIN Stages(req[p]) :
            j < at[p] /\ KeyOf(req[p], Stages(req[p])[j]) # NoKey
              => id[p] \in admitted[KeyOf(req[p], Stages(req[p])[j])]

Conservation ==
    \A k \in Keys :
        /\ IsFiniteSet(admitted[k])
        /\ Limit[k.name] > 0 =>
              Cardinality(admitted[k]) + tokens[k] <= Limit[k.name] + refills[k]

\* Only a request at its upstream call waits.
WaitsUpstream ==
    \A p \in Procs : waiting[p] =>
        at[p] > 0 /\ StageOf(p).do = "call" /\ Family(p) \in Upstream

IInv == TypeOK /\ WaitsUpstream /\ Passed /\ Conservation /\ ServedOnlyIfAdmitted

-----------------------------------------------------------------------------
\* Facts about the route table and the keys.

\* An entry of a sequence is in the set the sequence is over.
LEMMA SeqElement ==
    ASSUME NEW S, NEW s \in Seq(S), NEW j \in DOMAIN s
    PROVE  s[j] \in S
  OBVIOUS

\* A stage a request can be at is a stage of its route.
LEMMA StageType ==
    ASSUME NEW r \in Requests, NEW j \in DOMAIN Stages(r)
    PROVE  /\ Stages(r) \in Seq([do : Kinds, name : STRING])
           /\ Stages(r)[j] \in [do : Kinds, name : STRING]
           /\ Len(Stages(r)) \in Nat \ {0}
           /\ DOMAIN Stages(r) = 1..Len(Stages(r))
           /\ Stages(r)[j].do = "call" <=> j = Len(Stages(r))
           /\ Stages(r)[j].do = "identifier" => Stages(r)[j].name = "identifier"
           /\ Stages(r)[j].do \in LimitKinds => Limit[Stages(r)[j].name] \in Nat
  <1>1. r.route \in DOMAIN Pipeline
    BY RequestsAssumption
  <1>2. /\ Stages(r) \in Seq([do : Kinds, name : STRING])
        /\ Len(Stages(r)) > 0
    BY <1>1, PipelineAssumption DEF Stages
  <1>3. /\ Stages(r)[j].do = "call" <=> j = Len(Stages(r))
        /\ Stages(r)[j].do = "identifier" => Stages(r)[j].name = "identifier"
    BY <1>1, PipelineAssumption DEF Stages
  <1>4. Stages(r)[j].do \in LimitKinds => Limit[Stages(r)[j].name] \in Nat
    BY <1>1, LimitAssumption DEF Stages
  <1>5. /\ Len(Stages(r)) \in Nat \ {0}
        /\ DOMAIN Stages(r) = 1..Len(Stages(r))
    BY <1>2
  <1>6. Stages(r)[j] \in [do : Kinds, name : STRING]
    BY <1>2, SeqElement
  <1> QED BY <1>2, <1>3, <1>4, <1>5, <1>6

\* A key is one of its request's keys, and names a policy with a limit.
LEMMA KeyFacts ==
    ASSUME NEW r \in Requests, NEW j \in DOMAIN Stages(r),
           KeyOf(r, Stages(r)[j]) # NoKey
    PROVE  /\ KeyOf(r, Stages(r)[j]) \in KeysOf(r)
           /\ KeyOf(r, Stages(r)[j]) \in Keys
           /\ Stages(r)[j].do \in LimitKinds
           /\ Limit[KeyOf(r, Stages(r)[j]).name] \in Nat
  <1>1. KeyOf(r, Stages(r)[j]) \in KeysOf(r)
    BY DEF KeysOf, Stages
  <1>2. KeyOf(r, Stages(r)[j]) \in Keys
    BY <1>1 DEF Keys
  <1>3. Stages(r)[j].do \in LimitKinds
    BY DEF KeyOf, LimitKinds
  <1>4. KeyOf(r, Stages(r)[j]).name = Stages(r)[j].name
    BY <1>3, StageType DEF KeyOf, LimitKinds, ClientKey, KeyForIP, KeyForOrg, IdentifierKey
  <1> QED BY <1>1, <1>2, <1>3, <1>4, StageType

\* Every bucket has a limit.
LEMMA KeyLimit == \A k \in Keys : Limit[k.name] \in Nat
  <1> SUFFICES ASSUME NEW k \in Keys PROVE Limit[k.name] \in Nat
    OBVIOUS
  <1>1. PICK r \in Requests : k \in KeysOf(r)
    BY DEF Keys
  <1>2. PICK j \in DOMAIN Stages(r) : k = KeyOf(r, Stages(r)[j]) /\ k # NoKey
    BY <1>1 DEF KeysOf, Stages
  <1> QED BY <1>2, KeyFacts

\* The stage a running goroutine is at.
LEMMA AtStage ==
    ASSUME TypeOK, NEW p \in Procs, at[p] > 0
    PROVE  /\ req[p] \in Requests
           /\ at[p] \in DOMAIN Stages(req[p])
           /\ StageOf(p) = Stages(req[p])[at[p]]
           /\ at[p] \in Nat /\ at[p] <= Len(Stages(req[p]))
           /\ StageOf(p).do = "call" <=> at[p] = Len(Stages(req[p]))
  <1>1. req[p] \in Requests /\ at[p] \in Nat /\ at[p] <= Len(Stages(req[p]))
    BY DEF TypeOK, Stages
  <1>2. Stages(req[p]) \in Seq([do : Kinds, name : STRING])
    BY <1>1, PipelineAssumption, RequestsAssumption DEF Stages
  <1>3. at[p] \in DOMAIN Stages(req[p])
    BY <1>1, <1>2
  <1>4. StageOf(p) = Stages(req[p])[at[p]]
    BY DEF StageOf, Stages
  <1> QED BY <1>1, <1>3, <1>4, StageType

\* At its service call, a request has been admitted by all its buckets.
LEMMA AllPassed ==
    ASSUME IInv, NEW p \in Procs, at[p] > 0, StageOf(p).do = "call", hasLimiter
    PROVE  \A k \in KeysOf(req[p]) : id[p] \in admitted[k]
  <1> SUFFICES ASSUME NEW k \in KeysOf(req[p]) PROVE id[p] \in admitted[k]
    OBVIOUS
  <1>1. /\ req[p] \in Requests /\ at[p] = Len(Stages(req[p])) /\ at[p] \in DOMAIN Stages(req[p])
    BY AtStage DEF IInv
  <1>2. PICK j \in DOMAIN Stages(req[p]) :
           k = KeyOf(req[p], Stages(req[p])[j]) /\ k # NoKey
    BY DEF KeysOf, Stages
  <1>3. Stages(req[p])[j].do # "call"
    BY <1>1, <1>2, KeyFacts DEF LimitKinds
  <1>4. j < at[p]
    BY <1>1, <1>3, StageType
  <1> QED BY <1>2, <1>4 DEF IInv, Passed

\* What a goroutine writes on top of its headers is a response.
LEMMA ReplyType ==
    ASSUME TypeOK, NEW p \in Procs, NEW status \in Nat, NEW detail \in BOOLEAN
    PROVE  Reply(p, status, detail) \in Response
  <1>1. out[p] \in Response
    BY DEF TypeOK
  <1> QED BY <1>1 DEF Reply, Response

\* A success is a response, whichever budget it shows.
LEMMA SucceedType ==
    ASSUME TypeOK, NEW p \in Procs
    PROVE  Succeed(p) \in Response
  <1> DEFINE status == SuccessStatus(p)
  <1>1. Reply(p, status, FALSE) \in Response
    BY ReplyType DEF SuccessStatus
  <1>2. receipt[p] \in Budget \cup {NoHeaders}
    BY DEF TypeOK
  <1>3. \A r \in Response : [r EXCEPT !.limit = receipt[p]] \in Response
    BY <1>2 DEF Response
  <1> HIDE DEF status
  <1>4. Succeed(p) = IF receipt[p] = NoHeaders THEN Reply(p, status, FALSE)
                     ELSE [Reply(p, status, FALSE) EXCEPT !.limit = receipt[p]]
    BY DEF Succeed, status
  <1> QED BY <1>1, <1>3, <1>4

\* A mapped failure is a response.
LEMMA FailType ==
    ASSUME TypeOK, NEW p \in Procs, NEW kind, NEW detail \in BOOLEAN
    PROVE  Fail(p, Failure(kind, detail)) \in Response
  <1>1. HTTPStatus(kind) \in Nat
    BY DEF HTTPStatus
  <1>2. Fail(p, Failure(kind, detail)) = Reply(p, HTTPStatus(kind), detail)
    BY DEF Fail, Failure
  <1> QED BY <1>1, <1>2, ReplyType

\* Each upstream family maps every code to a failure.
LEMMA UpstreamFailureType ==
    ASSUME NEW family \in Upstream, NEW code
    PROVE  \E kind : \E detail \in BOOLEAN :
              UpstreamFailure(family, code) = Failure(kind, detail)
  <1>1. CASE family = "auth"
    BY <1>1 DEF UpstreamFailure, upstreamError
  <1>2. CASE family = "org"
    BY <1>2 DEF UpstreamFailure, orgUpstreamError
  <1>3. CASE family = "signup"
    BY <1>3 DEF UpstreamFailure, signupUpstreamError, orgUpstreamError
  <1>4. CASE family = "tenant"
    BY <1>4 DEF UpstreamFailure, tenantUpstreamError
  <1>5. CASE family = "flags"
    BY <1>5 DEF UpstreamFailure, flagsUpstreamError
  <1> QED BY <1>1, <1>2, <1>3, <1>4, <1>5 DEF Upstream

-----------------------------------------------------------------------------
\* Preservation, by the shapes a step can have.

\* Answering ends a request: whatever is still asked of it, it no longer is.
\* Tokens may have been spent on the way.
LEMMA AnswerIInv ==
    ASSUME IInv, NEW p \in Procs, NEW response \in Response, Answer(p, response),
           waiting' = [waiting EXCEPT ![p] = FALSE],
           tokens' \in [Keys -> Nat], \A k \in Keys : tokens'[k] <= tokens[k],
           UNCHANGED <<hasLimiter, refills, req, id, receipt, arrived, admitted>>,
           served' \subseteq Served, ServedOnlyIfAdmitted'
    PROVE  IInv'
  <1>1. /\ out' \in [Procs -> Response] /\ at' \in [Procs -> Nat]
        /\ at'[p] = 0 /\ \A q \in Procs \ {p} : at'[q] = at[q]
        /\ waiting' \in [Procs -> BOOLEAN]
        /\ waiting'[p] = FALSE /\ \A q \in Procs \ {p} : waiting'[q] = waiting[q]
    BY DEF IInv, TypeOK, Answer
  <1>2. \A q \in Procs : at'[q] <= Len(Pipeline[req'[q].route])
    <2> SUFFICES ASSUME NEW q \in Procs PROVE at'[q] <= Len(Pipeline[req'[q].route])
      OBVIOUS
    <2>1. CASE q = p
      <3>1. req[p] \in Requests
        BY DEF IInv, TypeOK
      <3>2. Len(Pipeline[req[p].route]) > 0 /\ Len(Pipeline[req[p].route]) \in Nat
        BY <3>1, PipelineAssumption, RequestsAssumption
      <3> QED BY <1>1, <2>1, <3>2
    <2>2. CASE q # p
      BY <1>1, <2>2 DEF IInv, TypeOK
    <2> QED BY <2>1, <2>2
  <1>3. TypeOK'
    BY <1>1, <1>2 DEF IInv, TypeOK
  <1>4. WaitsUpstream'
    BY <1>1 DEF IInv, WaitsUpstream, StageOf, Family
  <1>5. Passed'
    <2> SUFFICES ASSUME hasLimiter', NEW q \in Procs, NEW j \in DOMAIN Stages(req'[q]),
                        j < at'[q], KeyOf(req'[q], Stages(req'[q])[j]) # NoKey
                 PROVE  id'[q] \in admitted'[KeyOf(req'[q], Stages(req'[q])[j])]
      BY DEF Passed
    <2>1. q # p
      <3>1. req[q] \in Requests
        BY DEF IInv, TypeOK
      <3>2. j \in Nat
        BY <3>1, StageType
      <3> QED BY <1>1, <3>2
    <2> QED BY <1>1, <2>1 DEF IInv, Passed
  <1>6. Conservation'
    <2> SUFFICES ASSUME NEW k \in Keys
                 PROVE  /\ IsFiniteSet(admitted[k])
                        /\ Limit[k.name] > 0 =>
                             Cardinality(admitted[k]) + tokens'[k] <= Limit[k.name] + refills[k]
      BY DEF Conservation
    <2>1. IsFiniteSet(admitted[k]) /\ Cardinality(admitted[k]) \in Nat
      BY FS_CardinalityType DEF IInv, Conservation
    <2>2. tokens[k] \in Nat /\ tokens'[k] \in Nat /\ refills[k] \in Nat /\ Limit[k.name] \in Nat
      BY KeyLimit DEF IInv, TypeOK
    <2> QED BY <2>1, <2>2 DEF IInv, Conservation
  <1> QED BY <1>3, <1>4, <1>5, <1>6 DEF IInv

\* Going on to the next stage, when the present one charges nothing or the
\* request has just been admitted.
LEMMA AdvanceIInv ==
    ASSUME IInv, NEW p \in Procs, at[p] > 0, ~waiting[p], StageOf(p).do # "call", Advance(p),
           hasLimiter => \/ KeyOf(req[p], StageOf(p)) = NoKey
                         \/ id[p] \in admitted'[KeyOf(req[p], StageOf(p))],
           admitted' \in [Keys -> SUBSET Nat], \A k \in Keys : admitted[k] \subseteq admitted'[k],
           tokens' \in [Keys -> Nat], Conservation',
           receipt' \in [Procs -> Budget \cup {NoHeaders}], out' \in [Procs -> Response],
           UNCHANGED <<hasLimiter, refills, req, id, waiting, arrived, served>>
    PROVE  IInv'
  <1>1. /\ req[p] \in Requests /\ at[p] \in DOMAIN Stages(req[p])
        /\ StageOf(p) = Stages(req[p])[at[p]]
        /\ at[p] \in Nat /\ at[p] < Len(Stages(req[p]))
    <2>1. Len(Stages(req[p])) \in Nat
      BY AtStage, StageType DEF IInv
    <2> QED BY <2>1, AtStage DEF IInv
  <1>2. /\ at' \in [Procs -> Nat]
        /\ at'[p] = at[p] + 1 /\ \A q \in Procs \ {p} : at'[q] = at[q]
    BY DEF IInv, TypeOK, Advance
  <1>3. TypeOK'
    <2>1. at'[p] <= Len(Pipeline[req'[p].route])
      <3>1. Len(Stages(req[p])) \in Nat
        BY <1>1, StageType
      <3> QED BY <1>1, <1>2, <3>1 DEF Stages
    <2>2. \A q \in Procs : at'[q] <= Len(Pipeline[req'[q].route])
      BY <1>2, <2>1 DEF IInv, TypeOK
    <2> QED BY <1>2, <2>2 DEF IInv, TypeOK
  <1>4. WaitsUpstream'
    BY <1>2 DEF IInv, WaitsUpstream, StageOf, Family
  <1>5. Passed'
    <2> SUFFICES ASSUME hasLimiter, NEW q \in Procs, NEW j \in DOMAIN Stages(req[q]),
                        j < at'[q], KeyOf(req[q], Stages(req[q])[j]) # NoKey
                 PROVE  id[q] \in admitted'[KeyOf(req[q], Stages(req[q])[j])]
      BY DEF Passed
    <2>1. req[q] \in Requests /\ KeyOf(req[q], Stages(req[q])[j]) \in Keys /\ j \in Nat
      BY KeyFacts, StageType DEF IInv, TypeOK
    <2>2. CASE j < at[q]
      BY <2>1, <2>2 DEF IInv, Passed
    <2>3. CASE ~ (j < at[q])
      <3>1. q = p /\ j = at[p]
        BY <1>1, <1>2, <2>1, <2>3
      <3> QED BY <1>1, <3>1
    <2> QED BY <2>2, <2>3
  <1>6. ServedOnlyIfAdmitted'
    <2>1. \A r \in Requests : KeysOf(r) \subseteq Keys
      BY DEF Keys
    <2>2. served \subseteq Served
      BY DEF IInv, TypeOK
    <2> QED BY <2>1, <2>2 DEF IInv, ServedOnlyIfAdmitted, Served
  <1> QED BY <1>3, <1>4, <1>5, <1>6 DEF IInv

-----------------------------------------------------------------------------
\* One lemma per action.

\* A new request starts before its first check.
LEMMA ArriveIInv ==
    ASSUME IInv, NEW p \in Procs, NEW r \in Requests, Arrive(p, r)
    PROVE  IInv'
  <1>1. /\ at' \in [Procs -> Nat] /\ at'[p] = 1 /\ \A q \in Procs \ {p} : at'[q] = at[q]
        /\ req' \in [Procs -> Requests] /\ req'[p] = r /\ \A q \in Procs \ {p} : req'[q] = req[q]
        /\ id' \in [Procs -> Nat] /\ \A q \in Procs \ {p} : id'[q] = id[q]
        /\ arrived' \in Nat
    BY DEF IInv, TypeOK, Arrive
  <1>2. /\ out' \in [Procs -> Response] /\ receipt' \in [Procs -> Budget \cup {NoHeaders}]
    BY DEF IInv, TypeOK, Arrive, Response, Unanswered
  <1>3. UNCHANGED <<hasLimiter, waiting, tokens, refills, admitted, served>>
    BY DEF Arrive, buckets
  <1>4. Len(Pipeline[r.route]) > 0 /\ Len(Pipeline[r.route]) \in Nat
    BY PipelineAssumption, RequestsAssumption
  <1>5. TypeOK'
    <2>1. \A q \in Procs : at'[q] <= Len(Pipeline[req'[q].route])
      <3> SUFFICES ASSUME NEW q \in Procs PROVE at'[q] <= Len(Pipeline[req'[q].route])
        OBVIOUS
      <3>1. CASE q = p
        BY <1>1, <1>4, <3>1
      <3>2. CASE q # p
        BY <1>1, <3>2 DEF IInv, TypeOK
      <3> QED BY <3>1, <3>2
    <2> QED BY <1>1, <1>2, <1>3, <2>1 DEF IInv, TypeOK
  <1>6. WaitsUpstream'
    <2>1. ~ waiting[p]
      BY DEF IInv, WaitsUpstream, Arrive
    <2> QED BY <1>1, <1>3, <2>1 DEF IInv, WaitsUpstream, StageOf, Family
  <1>7. Passed'
    <2> SUFFICES ASSUME hasLimiter, NEW q \in Procs, NEW j \in DOMAIN Stages(req'[q]),
                        j < at'[q], KeyOf(req'[q], Stages(req'[q])[j]) # NoKey
                 PROVE  id'[q] \in admitted[KeyOf(req'[q], Stages(req'[q])[j])]
      BY <1>3 DEF Passed
    <2>1. j \in Nat \ {0}
      BY <1>1, StageType
    <2>2. q # p
      BY <1>1, <2>1
    <2> QED BY <1>1, <2>2 DEF IInv, Passed
  <1>8. Conservation' /\ ServedOnlyIfAdmitted'
    BY <1>3 DEF IInv, Conservation, ServedOnlyIfAdmitted
  <1> QED BY <1>5, <1>6, <1>7, <1>8 DEF IInv

\* A limit stage is not the service call.
LEMMA LimitNotCall ==
    ASSUME NEW p \in Procs, AboutLimit(p)
    PROVE  at[p] > 0 /\ ~waiting[p] /\ StageOf(p).do # "call"
  BY DEF AboutLimit, LimitKinds

\* Passing over a check that does not apply.
LEMMA SkipIInv ==
    ASSUME IInv, NEW p \in Procs, SkipLimit(p)
    PROVE  IInv'
  <1>1. UNCHANGED <<hasLimiter, tokens, refills, admitted, req, id, waiting, receipt, out, arrived, served>>
    BY DEF SkipLimit, buckets
  <1>2. Conservation'
    BY <1>1 DEF IInv, Conservation
  <1>3. hasLimiter => KeyOf(req[p], StageOf(p)) = NoKey
    BY DEF SkipLimit, LimitKey
  <1>4. AboutLimit(p) /\ Advance(p)
    BY DEF SkipLimit
  <1>5. /\ admitted' \in [Keys -> SUBSET Nat] /\ tokens' \in [Keys -> Nat]
        /\ receipt' \in [Procs -> Budget \cup {NoHeaders}] /\ out' \in [Procs -> Response]
    BY <1>1 DEF IInv, TypeOK
  <1> QED BY <1>1, <1>2, <1>3, <1>4, <1>5, LimitNotCall, AdvanceIInv

\* The bucket a check is made on.
LEMMA LimitKeyType ==
    ASSUME TypeOK, NEW p \in Procs, AboutLimit(p), LimitKey(p) # NoKey
    PROVE  LimitKey(p) \in Keys
  <1>1. at[p] > 0
    BY DEF AboutLimit
  <1>2. /\ req[p] \in Requests /\ at[p] \in DOMAIN Stages(req[p])
        /\ LimitKey(p) = KeyOf(req[p], Stages(req[p])[at[p]])
    BY <1>1, AtStage DEF LimitKey
  <1> QED BY <1>2, KeyFacts

\* An admission takes one token for at most one more admitted request.
LEMMA AllowIInv ==
    ASSUME IInv, NEW p \in Procs, AllowLimit(p)
    PROVE  IInv'
  <1> DEFINE k == LimitKey(p)
             budget == [key |-> k, remaining |-> Minus1(tokens[k])]
  <1>1. AboutLimit(p) /\ k # NoKey /\ k \in Keys
    BY LimitKeyType DEF AllowLimit, IInv
  <1>2. /\ tokens' = [tokens EXCEPT ![k] = Minus1(@)]
        /\ admitted' = [admitted EXCEPT ![k] = @ \cup {id[p]}]
        /\ HasToken(k) /\ Advance(p)
        /\ UNCHANGED <<hasLimiter, refills, req, id, waiting, arrived, served>>
    BY DEF AllowLimit
  <1>3. /\ tokens \in [Keys -> Nat] /\ refills \in [Keys -> Nat]
        /\ admitted \in [Keys -> SUBSET Nat] /\ id[p] \in Nat
    BY DEF IInv, TypeOK
  <1>4. /\ admitted' \in [Keys -> SUBSET Nat]
        /\ admitted'[k] = admitted[k] \cup {id[p]}
        /\ \A m \in Keys \ {k} : admitted'[m] = admitted[m]
    BY <1>1, <1>2, <1>3
  <1>5. /\ tokens' \in [Keys -> Nat]
        /\ tokens'[k] = Minus1(tokens[k])
        /\ \A m \in Keys \ {k} : tokens'[m] = tokens[m]
    BY <1>1, <1>2, <1>3 DEF Minus1
  <1>6. Conservation'
    <2> SUFFICES ASSUME NEW m \in Keys
                 PROVE  /\ IsFiniteSet(admitted'[m])
                        /\ Limit[m.name] > 0 =>
                             Cardinality(admitted'[m]) + tokens'[m] <= Limit[m.name] + refills[m]
      BY <1>2 DEF Conservation
    <2>1. /\ IsFiniteSet(admitted[m]) /\ Cardinality(admitted[m]) \in Nat
          /\ Limit[m.name] > 0 =>
                Cardinality(admitted[m]) + tokens[m] <= Limit[m.name] + refills[m]
      BY FS_CardinalityType DEF IInv, Conservation
    <2>2. CASE m # k
      BY <1>4, <1>5, <2>1, <2>2
    <2>3. CASE m = k
      <3>1. /\ IsFiniteSet(admitted[k] \cup {id[p]})
            /\ Cardinality(admitted[k] \cup {id[p]}) \in {Cardinality(admitted[k]), Cardinality(admitted[k]) + 1}
        BY <2>1, <2>3, FS_AddElement
      <3>2. Limit[k.name] \in Nat /\ tokens[k] \in Nat /\ refills[k] \in Nat
        BY <1>1, <1>3, KeyLimit
      <3>3. Limit[k.name] > 0 => tokens[k] > 0
        BY <1>2, <3>2 DEF HasToken
      <3>4. Limit[k.name] > 0 => tokens'[k] = tokens[k] - 1
        BY <1>5, <3>2, <3>3 DEF Minus1
      <3> HIDE DEF k
      <3>5. /\ IsFiniteSet(admitted'[m])
            /\ Cardinality(admitted'[m]) \in {Cardinality(admitted[m]), Cardinality(admitted[m]) + 1}
        BY <1>4, <2>3, <3>1
      <3>6. /\ Limit[m.name] \in Nat /\ tokens[m] \in Nat /\ refills[m] \in Nat
            /\ Limit[m.name] > 0 => tokens'[m] = tokens[m] - 1
        BY <2>3, <3>2, <3>4
      <3> QED BY <2>1, <3>5, <3>6
    <2> QED BY <2>2, <2>3
  <1>7. budget \in Budget
    BY <1>1, <1>3 DEF Budget, Minus1
  <1>8. receipt' \in [Procs -> Budget \cup {NoHeaders}] /\ out' \in [Procs -> Response]
    <2>1. CASE StageOf(p).do = "identifier"
      <3>1. receipt' = [receipt EXCEPT ![p] = budget] /\ out' = out
        BY <2>1 DEF AllowLimit
      <3> HIDE DEF budget
      <3> QED BY <1>7, <3>1 DEF IInv, TypeOK
    <2>2. CASE StageOf(p).do # "identifier"
      <3>1. out' = [out EXCEPT ![p].limit = budget] /\ receipt' = receipt
        BY <2>2 DEF AllowLimit
      <3> HIDE DEF budget
      <3>2. [out[p] EXCEPT !.limit = budget] \in Response
        <4>1. out[p] \in Response
          BY DEF IInv, TypeOK
        <4> QED BY <1>7, <4>1 DEF Response
      <3>3. out' = [out EXCEPT ![p] = [out[p] EXCEPT !.limit = budget]]
        BY <3>1 DEF IInv, TypeOK
      <3> QED BY <3>1, <3>2, <3>3 DEF IInv, TypeOK
    <2> QED BY <2>1, <2>2
  <1>9. id[p] \in admitted'[KeyOf(req[p], StageOf(p))]
    BY <1>4 DEF LimitKey
  <1>10. \A m \in Keys : admitted[m] \subseteq admitted'[m]
    BY <1>4
  <1> QED BY <1>1, <1>2, <1>4, <1>5, <1>6, <1>8, <1>9, <1>10, LimitNotCall, AdvanceIInv

\* Answering a request that was not waiting leaves every waiting flag alone.
LEMMA StillNotWaiting ==
    ASSUME TypeOK, NEW p \in Procs, ~waiting[p], waiting' = waiting
    PROVE  waiting' = [waiting EXCEPT ![p] = FALSE]
  BY DEF TypeOK

\* Requests served so far stay admitted when no admission is withdrawn.
LEMMA ServedStable ==
    ASSUME IInv, UNCHANGED <<hasLimiter, admitted, served>>
    PROVE  served' \subseteq Served /\ ServedOnlyIfAdmitted'
  BY DEF IInv, TypeOK, ServedOnlyIfAdmitted

\* A denial and a limiter error both end the request.
LEMMA RefuseIInv ==
    ASSUME IInv, NEW p \in Procs, DenyLimit(p) \/ LimiterError(p)
    PROVE  IInv'
  <1>1. /\ AboutLimit(p) /\ LimitKey(p) \in Keys
        /\ UNCHANGED <<hasLimiter, refills, req, id, receipt, arrived, admitted, served>>
        /\ waiting' = [waiting EXCEPT ![p] = FALSE]
    BY LimitKeyType, LimitNotCall, StillNotWaiting DEF DenyLimit, LimiterError, IInv, buckets
  <1>2. tokens \in [Keys -> Nat]
    BY DEF IInv, TypeOK
  <1>3. CASE DenyLimit(p)
    <2> DEFINE response == [status |-> 429, retry |-> TRUE, detail |-> FALSE,
                            limit |-> [key |-> LimitKey(p), remaining |-> 0]]
    <2>1. response \in Response
      BY <1>1 DEF Response, Budget
    <2>2. tokens' = tokens /\ \E r \in Response : Answer(p, r)
      BY <1>3, <2>1 DEF DenyLimit, buckets
    <2>3. tokens' \in [Keys -> Nat] /\ \A k \in Keys : tokens'[k] <= tokens[k]
      BY <1>2, <2>2
    <2> QED BY <1>1, <2>2, <2>3, ServedStable, AnswerIInv
  <1>4. CASE LimiterError(p)
    <2> DEFINE response == [Reply(p, 503, FALSE) EXCEPT !.retry = TRUE]
    <2>1. response \in Response
      <3>1. Reply(p, 503, FALSE) \in Response
        <4>1. TypeOK /\ 503 \in Nat /\ FALSE \in BOOLEAN
          BY DEF IInv
        <4> HIDE DEF response
        <4> QED BY <4>1, ReplyType
      <3>2. \A r \in Response : [r EXCEPT !.retry = TRUE] \in Response
        BY DEF Response
      <3> QED BY <3>1, <3>2
    <2>2. \E r \in Response : Answer(p, r)
      BY <1>4, <2>1 DEF LimiterError
    <2>3. PICK spent \in {tokens[LimitKey(p)], Minus1(tokens[LimitKey(p)])} :
             tokens' = [tokens EXCEPT ![LimitKey(p)] = spent]
      BY <1>4 DEF LimiterError
    <2>4. spent \in Nat /\ spent <= tokens[LimitKey(p)]
      BY <1>1, <1>2 DEF Minus1
    <2>5. tokens' \in [Keys -> Nat] /\ \A k \in Keys : tokens'[k] <= tokens[k]
      BY <1>1, <1>2, <2>3, <2>4
    <2> HIDE DEF response
    <2> QED BY <1>1, <2>1, <2>2, <2>5, ServedStable, AnswerIInv
  <1> QED BY <1>3, <1>4

\* A validation stage goes on or answers; it touches no budget.
LEMMA ValidateIInv ==
    ASSUME IInv, NEW p \in Procs, NEW kind \in {"bearer", "json", "email"},
           NEW ok \in BOOLEAN, NEW status \in Nat,
           About(p, kind), Validate(p, ok, status)
    PROVE  IInv'
  <1>1. /\ at[p] > 0 /\ ~waiting[p] /\ StageOf(p).do = kind
        /\ UNCHANGED <<hasLimiter, tokens, refills, admitted, req, id, waiting, receipt, arrived, served>>
    BY DEF About, Validate, buckets
  <1>2. CASE ok
    <2>1. Advance(p) /\ UNCHANGED out
      BY <1>2 DEF Validate
    <2>2. StageOf(p).do # "call" /\ KeyOf(req[p], StageOf(p)) = NoKey
      BY <1>1 DEF KeyOf
    <2>3. Conservation'
      BY <1>1 DEF IInv, Conservation
    <2>4. /\ admitted' \in [Keys -> SUBSET Nat] /\ tokens' \in [Keys -> Nat]
          /\ receipt' \in [Procs -> Budget \cup {NoHeaders}] /\ out' \in [Procs -> Response]
          /\ \A k \in Keys : admitted[k] \subseteq admitted'[k]
      BY <1>1, <2>1 DEF IInv, TypeOK
    <2> QED BY <1>1, <2>1, <2>2, <2>3, <2>4, AdvanceIInv
  <1>3. CASE ~ok
    <2>1. Answer(p, Reply(p, status, FALSE))
      BY <1>3 DEF Validate
    <2>2. Reply(p, status, FALSE) \in Response
      BY ReplyType DEF IInv
    <2>3. tokens' \in [Keys -> Nat] /\ \A k \in Keys : tokens'[k] <= tokens[k]
      BY <1>1 DEF IInv, TypeOK
    <2>4. waiting' = [waiting EXCEPT ![p] = FALSE]
      BY <1>1, StillNotWaiting DEF IInv
    <2> QED BY <1>1, <2>1, <2>2, <2>3, <2>4, ServedStable, AnswerIInv
  <1> QED BY <1>2, <1>3

\* Making the service call: the request has passed all its checks.
LEMMA ServeFacts ==
    ASSUME IInv, NEW p \in Procs, About(p, "call"),
           served' = served \cup {[id |-> id[p], req |-> req[p]]},
           UNCHANGED <<hasLimiter, admitted>>
    PROVE  served' \subseteq Served /\ ServedOnlyIfAdmitted'
  <1>1. [id |-> id[p], req |-> req[p]] \in Served
    BY DEF IInv, TypeOK, Served
  <1>2. hasLimiter => \A k \in KeysOf(req[p]) : id[p] \in admitted[k]
    BY AllPassed DEF About
  <1>3. served' \subseteq Served
    BY <1>1 DEF IInv, TypeOK
  <1>4. ServedOnlyIfAdmitted'
    <2> SUFFICES ASSUME hasLimiter, NEW s \in served', NEW k \in KeysOf(s.req)
                 PROVE  s.id \in admitted[k]
      BY DEF ServedOnlyIfAdmitted
    <2>1. CASE s \in served
      BY <2>1 DEF IInv, ServedOnlyIfAdmitted
    <2>2. CASE s = [id |-> id[p], req |-> req[p]]
      BY <1>2, <2>2
    <2> QED BY <2>1, <2>2
  <1> QED BY <1>3, <1>4

\* The call to orbit-auth leaves.
LEMMA CallUpstreamIInv ==
    ASSUME IInv, NEW p \in Procs, CallUpstream(p)
    PROVE  IInv'
  <1>1. /\ About(p, "call") /\ Family(p) \in Upstream
        /\ waiting' = [waiting EXCEPT ![p] = TRUE]
        /\ served' = served \cup {[id |-> id[p], req |-> req[p]]}
        /\ UNCHANGED <<hasLimiter, tokens, refills, admitted, req, id, at, receipt, out, arrived>>
    BY DEF CallUpstream, buckets
  <1>2. served' \subseteq Served /\ ServedOnlyIfAdmitted'
    BY <1>1, ServeFacts
  <1>3. TypeOK'
    BY <1>1, <1>2 DEF IInv, TypeOK
  <1>4. WaitsUpstream'
    BY <1>1 DEF IInv, TypeOK, WaitsUpstream, About, StageOf, Family
  <1>5. Passed' /\ Conservation'
    BY <1>1 DEF IInv, Passed, Conservation
  <1> QED BY <1>2, <1>3, <1>4, <1>5 DEF IInv

\* A local service runs and answers in one step.
LEMMA CallLocalIInv ==
    ASSUME IInv, NEW p \in Procs, CallLocal(p)
    PROVE  IInv'
  <1>1. /\ About(p, "call")
        /\ served' = served \cup {[id |-> id[p], req |-> req[p]]}
        /\ UNCHANGED <<hasLimiter, tokens, refills, admitted, req, id, waiting, receipt, arrived>>
    BY DEF CallLocal, buckets
  <1>2. served' \subseteq Served /\ ServedOnlyIfAdmitted'
    BY <1>1, ServeFacts
  <1>3. \E response \in Response : Answer(p, response)
    BY SucceedType, FailType DEF CallLocal, IInv
  <1>4. tokens' \in [Keys -> Nat] /\ \A k \in Keys : tokens'[k] <= tokens[k]
    BY <1>1 DEF IInv, TypeOK
  <1>5. waiting' = [waiting EXCEPT ![p] = FALSE]
    BY <1>1, StillNotWaiting DEF IInv, About
  <1> QED BY <1>1, <1>2, <1>3, <1>4, <1>5, AnswerIInv

\* An upstream answer, or the flags timeout, ends the request.
LEMMA ReplyIInv ==
    ASSUME IInv, NEW p \in Procs, UpstreamReply(p) \/ FlagsTimeout(p)
    PROVE  IInv'
  <1>1. /\ waiting[p] /\ waiting' = [waiting EXCEPT ![p] = FALSE]
        /\ UNCHANGED <<hasLimiter, tokens, refills, admitted, req, id, receipt, arrived, served>>
    BY DEF UpstreamReply, FlagsTimeout, buckets
  <1>2. Family(p) \in Upstream
    BY <1>1 DEF IInv, WaitsUpstream
  <1>3. \A code : Fail(p, UpstreamFailure(Family(p), code)) \in Response
    <2> SUFFICES ASSUME NEW code
                 PROVE  Fail(p, UpstreamFailure(Family(p), code)) \in Response
      OBVIOUS
    <2>1. PICK kind, detail : /\ detail \in BOOLEAN
                              /\ UpstreamFailure(Family(p), code) = Failure(kind, detail)
      BY <1>2, UpstreamFailureType
    <2> QED BY <2>1, FailType DEF IInv
  <1>4. \E response \in Response : Answer(p, response)
    BY <1>3, SucceedType DEF UpstreamReply, FlagsTimeout, IInv
  <1>5. tokens' \in [Keys -> Nat] /\ \A k \in Keys : tokens'[k] <= tokens[k]
    BY <1>1 DEF IInv, TypeOK
  <1> QED BY <1>1, <1>4, <1>5, ServedStable, AnswerIInv

\* A refill raises what a bucket holds and what it is allowed by one each.
LEMMA RefillIInv ==
    ASSUME IInv, NEW k \in Keys, Refill(k)
    PROVE  IInv'
  <1>1. /\ tokens' = [tokens EXCEPT ![k] = @ + 1]
        /\ refills' = [refills EXCEPT ![k] = @ + 1]
        /\ UNCHANGED <<hasLimiter, req, id, at, waiting, receipt, out, arrived, admitted, served>>
    BY DEF Refill
  <1>2. tokens' \in [Keys -> Nat] /\ refills' \in [Keys -> Nat]
    BY <1>1 DEF IInv, TypeOK
  <1>3. TypeOK' /\ WaitsUpstream' /\ Passed' /\ ServedOnlyIfAdmitted'
    BY <1>1, <1>2 DEF IInv, TypeOK, WaitsUpstream, StageOf, Family, Passed, ServedOnlyIfAdmitted
  <1>4. Conservation'
    <2> SUFFICES ASSUME NEW m \in Keys
                 PROVE  /\ IsFiniteSet(admitted[m])
                        /\ Limit[m.name] > 0 =>
                             Cardinality(admitted[m]) + tokens'[m] <= Limit[m.name] + refills'[m]
      BY <1>1 DEF Conservation
    <2>1. /\ IsFiniteSet(admitted[m]) /\ Cardinality(admitted[m]) \in Nat
          /\ Limit[m.name] \in Nat /\ tokens[m] \in Nat /\ refills[m] \in Nat
      BY FS_CardinalityType, KeyLimit DEF IInv, Conservation, TypeOK
    <2>2. \/ tokens'[m] = tokens[m] /\ refills'[m] = refills[m]
          \/ tokens'[m] = tokens[m] + 1 /\ refills'[m] = refills[m] + 1
      BY <1>1 DEF IInv, TypeOK
    <2> QED BY <2>1, <2>2 DEF IInv, Conservation
  <1> QED BY <1>3, <1>4 DEF IInv

-----------------------------------------------------------------------------
\* Init establishes the inductive invariant: buckets full, nothing admitted.
LEMMA InitIInv == Init => IInv
  <1> SUFFICES ASSUME Init PROVE IInv
    OBVIOUS
  <1>1. (CHOOSE r \in Requests : TRUE) \in Requests
    BY RequestsAssumption
  <1>2. req \in [Procs -> Requests]
    BY <1>1 DEF Init
  <1>3. \A p \in Procs : at[p] <= Len(Pipeline[req[p].route])
    <2> SUFFICES ASSUME NEW p \in Procs PROVE at[p] <= Len(Pipeline[req[p].route])
      OBVIOUS
    <2>1. Len(Pipeline[req[p].route]) > 0 /\ Len(Pipeline[req[p].route]) \in Nat
      BY <1>2, PipelineAssumption, RequestsAssumption
    <2> QED BY <2>1 DEF Init
  <1>4. TypeOK
    BY <1>2, <1>3, KeyLimit DEF Init, TypeOK, Response, Unanswered
  <1>5. WaitsUpstream /\ ServedOnlyIfAdmitted
    BY DEF Init, WaitsUpstream, ServedOnlyIfAdmitted
  <1>6. Passed
    <2> SUFFICES ASSUME NEW p \in Procs, NEW j \in DOMAIN Stages(req[p]) PROVE ~ (j < at[p])
      BY DEF Passed
    <2>1. j \in Nat
      BY <1>2, StageType
    <2> QED BY <2>1 DEF Init
  <1>7. Conservation
    BY FS_EmptySet, KeyLimit DEF Init, Conservation
  <1> QED BY <1>4, <1>5, <1>6, <1>7 DEF IInv

\* Every step preserves the inductive invariant.
LEMMA NextIInv == IInv /\ [Next]_vars => IInv'
  <1> SUFFICES ASSUME IInv, [Next]_vars PROVE IInv'
    OBVIOUS
  <1>1. CASE \E p \in Procs, r \in Requests : Arrive(p, r)
    BY <1>1, ArriveIInv
  <1>2. ASSUME NEW p \in Procs, Handle(p) PROVE IInv'
    <2>1. CASE SkipLimit(p)
      BY <2>1, SkipIInv
    <2>2. CASE AllowLimit(p)
      BY <2>2, AllowIInv
    <2>3. CASE DenyLimit(p) \/ LimiterError(p)
      BY <2>3, RefuseIInv
    <2>4. CASE requireBearer(p)
      <3>1. About(p, "bearer") /\ \E ok \in BOOLEAN : Validate(p, ok, 401)
        BY <2>4 DEF requireBearer, Validate
      <3> QED BY <3>1, ValidateIInv
    <2>5. CASE decodeJSONBody(p)
      <3>1. About(p, "json") /\ \E ok \in BOOLEAN : Validate(p, ok, 400)
        BY <2>5 DEF decodeJSONBody, Validate
      <3> QED BY <3>1, ValidateIInv
    <2>6. CASE validEmail(p)
      <3>1. About(p, "email") /\ \E ok \in BOOLEAN : Validate(p, ok, 400)
        BY <2>6 DEF validEmail, Validate
      <3> QED BY <3>1, ValidateIInv
    <2>7. CASE CallUpstream(p)
      BY <2>7, CallUpstreamIInv
    <2>8. CASE CallLocal(p)
      BY <2>8, CallLocalIInv
    <2>9. CASE FlagsTimeout(p)
      BY <2>9, ReplyIInv
    <2> QED BY <1>2, <2>1, <2>2, <2>3, <2>4, <2>5, <2>6, <2>7, <2>8, <2>9 DEF Handle
  <1>3. CASE \E p \in Procs : UpstreamReply(p)
    BY <1>3, ReplyIInv
  <1>4. CASE \E k \in Keys : Refill(k)
    BY <1>4, RefillIInv
  <1>5. CASE UNCHANGED vars
    BY <1>5 DEF IInv, TypeOK, WaitsUpstream, StageOf, Family, Passed, Conservation,
                ServedOnlyIfAdmitted, vars
  <1> QED BY <1>1, <1>2, <1>3, <1>4, <1>5 DEF Next

-----------------------------------------------------------------------------
\* The inductive invariant holds in every behaviour of the edge.
THEOREM Invariance == Spec => []IInv
  BY InitIInv, NextIInv, PTL DEF Spec

\* Every variable of the edge keeps its type; in particular every branch of every
\* handler ends in a well-formed response.
THEOREM TypeCorrect == Spec => []TypeOK
  <1>1. IInv => TypeOK
    BY DEF IInv
  <1> QED BY <1>1, Invariance, PTL

\* Fail closed, for every route table, limiter behaviour and interleaving: no
\* service call without the admission of every bucket of the route.
THEOREM FailClosed == Spec => []ServedOnlyIfAdmitted
  <1>1. IInv => ServedOnlyIfAdmitted
    BY DEF IInv
  <1> QED BY <1>1, Invariance, PTL

\* What bucket k governs and was served, it admitted.
LEMMA ServedSubset ==
    ASSUME IInv, hasLimiter, NEW k \in Keys, Limit[k.name] > 0, NEW S \in SUBSET admitted[k]
    PROVE  Cardinality(S) <= Limit[k.name] + refills[k]
  <1>1. /\ IsFiniteSet(admitted[k]) /\ Cardinality(admitted[k]) \in Nat
        /\ Cardinality(admitted[k]) + tokens[k] <= Limit[k.name] + refills[k]
        /\ tokens[k] \in Nat /\ refills[k] \in Nat /\ Limit[k.name] \in Nat
    BY FS_CardinalityType, KeyLimit DEF IInv, Conservation, TypeOK
  <1>2. IsFiniteSet(S) /\ Cardinality(S) <= Cardinality(admitted[k]) /\ Cardinality(S) \in Nat
    BY <1>1, FS_Subset, FS_CardinalityType
  <1> QED BY <1>1, <1>2

\* No bucket is overdrawn, over all the routes that share it.
THEOREM NoBucketOverdrawn == Spec => []BudgetRespected
  <1>1. IInv => BudgetRespected
    <2> SUFFICES ASSUME IInv, hasLimiter, NEW k \in Keys, Limit[k.name] > 0
                 PROVE  Cardinality(ServedUnder(k)) <= Limit[k.name] + refills[k]
      BY DEF BudgetRespected
    <2>1. ServedUnder(k) \subseteq admitted[k]
      BY DEF IInv, ServedOnlyIfAdmitted, ServedUnder
    <2> QED BY <2>1, ServedSubset
  <1> QED BY <1>1, Invariance, PTL

\* One person has one OTP-and-challenge budget, across spellings, fields and
\* routes.
THEOREM OneIdentifierBudget == Spec => []IdentifierBudget
  <1>1. IInv => IdentifierBudget
    <2> DEFINE b(n) == [scope |-> "identifier", name |-> "identifier", subject |-> n]
    <2> SUFFICES ASSUME IInv, hasLimiter, NEW n \in Names \ {Blank}
                 PROVE  Cardinality(DispatchesTo(n)) <=
                          Limit["identifier"] + (IF b(n) \in Keys THEN refills[b(n)] ELSE 0)
      BY DEF IdentifierBudget
    <2>1. ASSUME NEW s \in served, Normalize[IdentifierOf(s.req)] = n,
                 NEW j \in DOMAIN Pipeline[s.req.route],
                 Pipeline[s.req.route][j].do = "identifier"
          PROVE  b(n) \in Keys /\ s.id \in admitted[b(n)]
      <3>1. s.req \in Requests
        BY DEF IInv, TypeOK, Served
      <3>2. KeyOf(s.req, Pipeline[s.req.route][j]) = b(n)
        BY <2>1 DEF KeyOf, IdentifierKey
      <3>3. b(n) # NoKey
        BY NoneAssumption DEF NoKey
      <3>4. b(n) \in KeysOf(s.req)
        BY <3>2, <3>3 DEF KeysOf
      <3> QED BY <3>1, <3>4 DEF Keys, IInv, ServedOnlyIfAdmitted
    <2>2. CASE b(n) \in Keys
      <3>1. DispatchesTo(n) \subseteq admitted[b(n)]
        BY <2>1 DEF DispatchesTo
      <3>2. Limit[b(n).name] = Limit["identifier"]
        OBVIOUS
      <3> QED BY <2>2, <3>1, <3>2, IdentifierAssumption, ServedSubset
    <2>3. CASE b(n) \notin Keys
      <3>1. DispatchesTo(n) = {}
        BY <2>1, <2>3 DEF DispatchesTo
      <3> QED BY <2>3, <3>1, FS_EmptySet, IdentifierAssumption
    <2> QED BY <2>2, <2>3
  <1> QED BY <1>1, Invariance, PTL

-----------------------------------------------------------------------------
\* What a response says.  RefusalIsFinal, SuccessShowsLastBudget and
\* DetailOnlyOnClientErrors speak of answered requests; Local says of each what
\* must be known while it is still on its way.

\* The serial numbers tell requests apart.
Serials ==
    /\ \A p \in Procs : id[p] <= arrived
    /\ \A p, q \in Procs : id[p] = id[q] /\ id[p] > 0 => p = q
    /\ \A s \in served : s.id <= arrived
    /\ \A k \in Keys : \A n \in admitted[k] : n <= arrived

\* A bucket never holds more than its limit.
WithinLimit == \A k \in Keys : tokens[k] <= Limit[k.name]

\* Until it is answered, a request has a number and neither status, Retry-After nor
\* upstream text.
Unmarked(p) ==
    at[p] > 0 => id[p] > 0 /\ out[p].status = 0 /\ out[p].retry = FALSE /\ out[p].detail = FALSE

\* Nothing is done for a request before its call, ...
NotServed(p) == at[p] > 0 /\ ~waiting[p] => \A s \in served : s.id # id[p]

\* ... and no bucket ahead of it has admitted it.
NotAhead(p) ==
    at[p] > 0 => \A j \in DOMAIN Stages(req[p]) :
        j >= at[p] /\ KeyOf(req[p], Stages(req[p])[j]) # NoKey
          => id[p] \notin admitted[KeyOf(req[p], Stages(req[p])[j])]

\* The budget a success would show now: the receipt, else the headers.
Shown(p) == IF receipt[p] = NoHeaders THEN out[p].limit ELSE receipt[p]

\* The stages before stage n at which p was charged.
ChargedBefore(p, n) ==
    {j \in DOMAIN Stages(req[p]) :
        j < n /\ hasLimiter /\ KeyOf(req[p], Stages(req[p])[j]) # NoKey}

\* Budget b is that of the last of the stages in charged, if there is one.
LastOf(p, charged, b) ==
    IF charged = {} THEN b = NoHeaders
    ELSE \E j \in charged : /\ \A i \in charged : i <= j
                            /\ b # NoHeaders
                            /\ b.key = KeyOf(req[p], Stages(req[p])[j])

ShowsLast(p) == at[p] > 0 => LastOf(p, ChargedBefore(p, at[p]), Shown(p))

ReceiptIsIdentifiers(p) ==
    at[p] > 0 /\ receipt[p] # NoHeaders =>
        \E j \in DOMAIN Stages(req[p]) : j < at[p] /\ Stages(req[p])[j].do = "identifier"

\* The three properties, for one request.
Refused(p) ==
    at[p] = 0 /\ out[p].retry =>
        /\ \A s \in served : s.id # id[p]
        /\ out[p].status = 429 =>
              /\ out[p].limit # NoHeaders
              /\ out[p].limit.remaining = 0
              /\ id[p] \notin admitted[out[p].limit.key]

Charged(p) ==
    {j \in DOMAIN Stages(req[p]) : hasLimiter /\ KeyOf(req[p], Stages(req[p])[j]) # NoKey}

SuccessShown(p) ==
    at[p] = 0 /\ out[p].status \in {200, 202} => LastOf(p, Charged(p), out[p].limit)

Detailed(p) ==
    /\ out[p].status \in 400..499
    /\ Stages(req[p])[Len(Stages(req[p]))].name \in {"auth", "org", "signup"}

Local(p) ==
    /\ Unmarked(p) /\ NotServed(p) /\ NotAhead(p) /\ ShowsLast(p) /\ ReceiptIsIdentifiers(p)
    /\ Refused(p) /\ SuccessShown(p) /\ (out[p].detail => Detailed(p))

AInv == IInv /\ Serials /\ WithinLimit /\ \A p \in Procs : Local(p)

\* What a step of another request leaves alone.
Frame(q) ==
    /\ at'[q] = at[q] /\ waiting'[q] = waiting[q] /\ req'[q] = req[q]
    /\ id'[q] = id[q] /\ receipt'[q] = receipt[q] /\ out'[q] = out[q]

\* Two stages of a route that charge one bucket are one stage.
LEMMA DistinctKeys ==
    ASSUME NEW r \in Requests, NEW i \in DOMAIN Stages(r), NEW j \in DOMAIN Stages(r),
           KeyOf(r, Stages(r)[i]) # NoKey,
           KeyOf(r, Stages(r)[i]) = KeyOf(r, Stages(r)[j])
    PROVE  i = j
  <1> DEFINE s == Stages(r)[i]
             t == Stages(r)[j]
  <1>1. s \in [do : Kinds, name : STRING] /\ t \in [do : Kinds, name : STRING]
    BY StageType
  <1>2. s.do \in LimitKinds /\ t.do \in LimitKinds
    BY KeyFacts
  <1>3. /\ KeyOf(r, s).scope = s.do /\ KeyOf(r, s).name = s.name
        /\ KeyOf(r, t).scope = t.do /\ KeyOf(r, t).name = t.name
    BY <1>2, StageType DEF KeyOf, LimitKinds, ClientKey, KeyForIP, KeyForOrg, IdentifierKey
  <1>4. s = t
    BY <1>1, <1>3
  <1>5. r.route \in DOMAIN Pipeline
    BY RequestsAssumption
  <1> QED BY <1>2, <1>4, <1>5, ChecksAssumption DEF Stages

\* No limit stage comes after an identifier stage.
LEMMA IdentifierLast ==
    ASSUME NEW r \in Requests, NEW i \in DOMAIN Stages(r), NEW j \in DOMAIN Stages(r),
           Stages(r)[i].do = "identifier", Stages(r)[j].do \in LimitKinds
    PROVE  j <= i
  BY RequestsAssumption, ChecksAssumption DEF Stages

\* A step of one request keeps what is known of the others.
LEMMA OthersKeep ==
    ASSUME AInv, NEW q \in Procs, Frame(q), UNCHANGED hasLimiter,
           \A s \in served' : s \in served \/ s.id # id[q],
           \A k \in Keys : \A n \in admitted'[k] : n \in admitted[k] \/ n # id[q]
    PROVE  Local(q)'
  <1>1. Local(q) /\ TypeOK /\ req[q] \in Requests /\ out[q] \in Response
    BY DEF AInv, IInv, TypeOK
  <1>2. Unmarked(q)' /\ NotServed(q)'
    BY <1>1 DEF Frame, Local, Unmarked, NotServed
  <1>3. NotAhead(q)'
    <2> SUFFICES ASSUME at[q] > 0, NEW j \in DOMAIN Stages(req[q]), j >= at[q],
                        KeyOf(req[q], Stages(req[q])[j]) # NoKey
                 PROVE  id[q] \notin admitted'[KeyOf(req[q], Stages(req[q])[j])]
      BY DEF Frame, NotAhead
    <2>1. KeyOf(req[q], Stages(req[q])[j]) \in Keys
      BY <1>1, KeyFacts
    <2> QED BY <1>1, <2>1 DEF Local, NotAhead
  <1>4. ShowsLast(q)'
    BY <1>1 DEF Frame, Local, ShowsLast, LastOf, ChargedBefore, Shown
  <1>5. ReceiptIsIdentifiers(q)'
    BY <1>1 DEF Frame, Local, ReceiptIsIdentifiers
  <1>6. Refused(q)'
    <2> SUFFICES ASSUME at[q] = 0, out[q].retry
                 PROVE  /\ \A s \in served' : s.id # id[q]
                        /\ out[q].status = 429 =>
                              /\ out[q].limit # NoHeaders
                              /\ out[q].limit.remaining = 0
                              /\ id[q] \notin admitted'[out[q].limit.key]
      BY DEF Frame, Refused
    <2>1. \A s \in served' : s.id # id[q]
      BY <1>1 DEF Local, Refused
    <2>2. ASSUME out[q].status = 429
          PROVE  /\ out[q].limit # NoHeaders
                 /\ out[q].limit.remaining = 0
                 /\ id[q] \notin admitted'[out[q].limit.key]
      <3>1. /\ out[q].limit # NoHeaders /\ out[q].limit.remaining = 0
            /\ id[q] \notin admitted[out[q].limit.key]
        BY <1>1, <2>2 DEF Local, Refused
      <3>2. out[q].limit.key \in Keys
        BY <1>1, <3>1 DEF Response, Budget
      <3> QED BY <3>1, <3>2
    <2> QED BY <2>1, <2>2
  <1>7. SuccessShown(q)'
    BY <1>1 DEF Frame, Local, SuccessShown, LastOf, Charged
  <1>8. (out[q].detail => Detailed(q))'
    BY <1>1 DEF Frame, Local, Detailed
  <1> QED BY <1>2, <1>3, <1>4, <1>5, <1>6, <1>7, <1>8 DEF Local

\* An answer has to be right when it is given; nothing more is asked of the request.
LEMMA AnswerLocal ==
    ASSUME AInv, NEW p \in Procs, NEW response \in Response, Answer(p, response),
           UNCHANGED <<hasLimiter, req, id, admitted>>,
           response.retry =>
              /\ \A s \in served' : s.id # id[p]
              /\ response.status = 429 =>
                    /\ response.limit # NoHeaders
                    /\ response.limit.remaining = 0
                    /\ id[p] \notin admitted[response.limit.key],
           response.status \in {200, 202} => LastOf(p, Charged(p), response.limit),
           response.detail =>
              /\ response.status \in 400..499
              /\ Stages(req[p])[Len(Stages(req[p]))].name \in {"auth", "org", "signup"}
    PROVE  Local(p)'
  <1>1. at'[p] = 0 /\ out'[p] = response
    BY DEF AInv, IInv, TypeOK, Answer
  <1>2. Unmarked(p)' /\ NotServed(p)' /\ NotAhead(p)' /\ ShowsLast(p)' /\ ReceiptIsIdentifiers(p)'
    BY <1>1 DEF Unmarked, NotServed, NotAhead, ShowsLast, ReceiptIsIdentifiers
  <1>3. Refused(p)'
    BY <1>1 DEF Refused
  <1>4. SuccessShown(p)'
    BY <1>1 DEF SuccessShown, LastOf, Charged
  <1>5. (out[p].detail => Detailed(p))'
    BY <1>1 DEF Detailed
  <1> QED BY <1>2, <1>3, <1>4, <1>5 DEF Local

\* At the service call the buckets charged so far are all the route has.
LEMMA ChargedAtCall ==
    ASSUME TypeOK, NEW p \in Procs, at[p] > 0, StageOf(p).do = "call"
    PROVE  ChargedBefore(p, at[p]) = Charged(p)
  <1>1. /\ req[p] \in Requests /\ at[p] = Len(Stages(req[p]))
        /\ at[p] \in DOMAIN Stages(req[p])
    BY AtStage
  <1>2. ASSUME NEW j \in Charged(p)
        PROVE  j < at[p]
    <2>1. j \in DOMAIN Stages(req[p]) /\ KeyOf(req[p], Stages(req[p])[j]) # NoKey
      BY DEF Charged
    <2>2. Stages(req[p])[j].do # "call"
      BY <1>1, <2>1, KeyFacts DEF LimitKinds
    <2> QED BY <1>1, <2>1, <2>2, StageType
  <1> QED BY <1>2 DEF Charged, ChargedBefore

\* The fields of a reply.
LEMMA ReplyFacts ==
    ASSUME NEW p \in Procs, out[p] \in Response, NEW status \in Nat, NEW detail \in BOOLEAN
    PROVE  /\ Reply(p, status, detail) \in Response
           /\ Reply(p, status, detail).status = status
           /\ Reply(p, status, detail).limit = out[p].limit
           /\ Reply(p, status, detail).retry = out[p].retry
           /\ Reply(p, status, detail).detail = detail
  BY DEF Reply, Response

\* A success shows the last budget, and neither Retry-After nor upstream text.
LEMMA SucceedFacts ==
    ASSUME AInv, NEW p \in Procs, at[p] > 0, StageOf(p).do = "call"
    PROVE  /\ Succeed(p).retry = FALSE /\ Succeed(p).detail = FALSE
           /\ LastOf(p, Charged(p), Succeed(p).limit)
  <1>1. out[p] \in Response /\ out[p].retry = FALSE /\ LastOf(p, ChargedBefore(p, at[p]), Shown(p))
    BY DEF AInv, IInv, TypeOK, Local, Unmarked, ShowsLast
  <1>2. ChargedBefore(p, at[p]) = Charged(p)
    BY ChargedAtCall DEF AInv, IInv
  <1>3. /\ Succeed(p).limit = Shown(p)
        /\ Succeed(p).retry = out[p].retry
        /\ Succeed(p).detail = FALSE
    <2> DEFINE status == SuccessStatus(p)
    <2>0. status \in Nat
      BY DEF SuccessStatus
    <2>1. Succeed(p) = IF receipt[p] = NoHeaders THEN Reply(p, status, FALSE)
                       ELSE [Reply(p, status, FALSE) EXCEPT !.limit = receipt[p]]
      BY DEF Succeed
    <2> HIDE DEF status
    <2>2. /\ Reply(p, status, FALSE) \in Response
          /\ Reply(p, status, FALSE).limit = out[p].limit
          /\ Reply(p, status, FALSE).retry = out[p].retry
          /\ Reply(p, status, FALSE).detail = FALSE
      BY <1>1, <2>0 DEF Reply, Response
    <2> QED BY <2>1, <2>2 DEF Shown, Response
  <1> QED BY <1>1, <1>2, <1>3

\* A failure is answered with an error status, without Retry-After, and with upstream
\* text if the failure carries it.
LEMMA FailFacts ==
    ASSUME AInv, NEW p \in Procs, at[p] > 0, NEW failure, failure.detail \in BOOLEAN,
           NEW response, response = Fail(p, failure)
    PROVE  /\ response \in Response
           /\ ~response.retry
           /\ response.status = HTTPStatus(failure.kind)
           /\ HTTPStatus(failure.kind) \in 400..599
           /\ response.detail => failure.detail
  <1>1. out[p] \in Response /\ out[p].retry = FALSE
    BY DEF AInv, IInv, TypeOK, Local, Unmarked
  <1>2. HTTPStatus(failure.kind) \in 400..599
    BY DEF HTTPStatus
  <1> DEFINE status == HTTPStatus(failure.kind)
             detail == failure.detail
  <1>3. response = Reply(p, status, detail) /\ detail \in BOOLEAN
    BY DEF Fail
  <1>4. status \in Nat
    BY <1>2
  <1> HIDE DEF status, detail
  <1>5. /\ response \in Response /\ response.retry = out[p].retry
        /\ response.status = status /\ response.detail = detail
    BY <1>1, <1>3, <1>4, ReplyFacts
  <1>6. response.detail = failure.detail
    BY <1>5 DEF detail
  <1>7. response.detail => failure.detail
    BY <1>6
  <1> QED BY <1>1, <1>2, <1>5, <1>7 DEF status

\* What carries upstream text is a client error, and none of the tenant and flags
\* families.
LEMMA UpstreamDetail ==
    ASSUME NEW family \in Upstream, NEW code, NEW failure,
           failure = UpstreamFailure(family, code)
    PROVE  /\ failure.detail \in BOOLEAN
           /\ failure.detail => /\ HTTPStatus(failure.kind) \in 400..499
                                /\ family \in {"auth", "org", "signup"}
  <1> DEFINE Told == {"InvalidArgument", "Unauthenticated", "PermissionDenied",
                      "FailedPrecondition", "ResourceExhausted", "NotFound", "Conflict"}
  <1>1. \A kind \in Told : HTTPStatus(kind) \in 400..499
    BY DEF HTTPStatus
  <1>2. \/ orgUpstreamError(code).detail = FALSE
        \/ orgUpstreamError(code).detail = TRUE /\ orgUpstreamError(code).kind \in Told
    BY DEF orgUpstreamError, Failure
  <1>3. \/ upstreamError(code).detail = FALSE
        \/ upstreamError(code).detail = TRUE /\ upstreamError(code).kind \in Told
    BY DEF upstreamError, Failure
  <1> HIDE DEF Told
  <1>4. CASE family = "auth"
    <2>1. failure = upstreamError(code)
      BY <1>4 DEF UpstreamFailure
    <2> QED BY <1>1, <1>3, <1>4, <2>1
  <1>5. CASE family = "org"
    <2>1. failure = orgUpstreamError(code)
      BY <1>5 DEF UpstreamFailure
    <2> QED BY <1>1, <1>2, <1>5, <2>1
  <1>6. CASE family = "signup"
    <2>1. failure = signupUpstreamError(code)
      BY <1>6 DEF UpstreamFailure
    <2>2. failure.detail = FALSE \/ failure = orgUpstreamError(code)
      BY <2>1 DEF signupUpstreamError, Failure
    <2>3. CASE failure.detail = FALSE
      BY <2>3
    <2>4. CASE failure = orgUpstreamError(code)
      BY <1>1, <1>2, <1>6, <2>4
    <2> QED BY <2>2, <2>3, <2>4
  <1>7. CASE family = "tenant"
    <2>1. failure.detail = FALSE
      BY <1>7 DEF UpstreamFailure, tenantUpstreamError, Failure
    <2> QED BY <2>1
  <1>8. CASE family = "flags"
    <2>1. failure.detail = FALSE
      BY <1>8 DEF UpstreamFailure, flagsUpstreamError, Failure
    <2> QED BY <2>1
  <1> QED BY <1>4, <1>5, <1>6, <1>7, <1>8 DEF Upstream

-----------------------------------------------------------------------------
\* Preservation of AInv, by the shapes a step can have.

\* When one request moves, serves or is admitted, the numbers still tell requests
\* apart and the other requests are not touched.
LEMMA MoveAInv ==
    ASSUME AInv, IInv', NEW p \in Procs, at[p] > 0,
           UNCHANGED <<hasLimiter, id, arrived>>,
           \A q \in Procs \ {p} : Frame(q),
           \A s \in served' : s \in served \/ s.id = id[p],
           \A k \in Keys : \A n \in admitted'[k] : n \in admitted[k] \/ n = id[p],
           WithinLimit', Local(p)'
    PROVE  AInv'
  <1>1. id[p] > 0 /\ id[p] <= arrived
    BY DEF AInv, Local, Unmarked, Serials
  <1>2. Serials'
    <2>1. /\ \A q \in Procs : id'[q] <= arrived'
          /\ \A q, r \in Procs : id'[q] = id'[r] /\ id'[q] > 0 => q = r
      BY DEF AInv, Serials
    <2>2. \A s \in served' : s.id <= arrived'
      BY <1>1 DEF AInv, Serials
    <2>3. \A k \in Keys : \A n \in admitted'[k] : n <= arrived'
      BY <1>1 DEF AInv, Serials
    <2> QED BY <2>1, <2>2, <2>3 DEF Serials
  <1>3. ASSUME NEW q \in Procs \ {p}
        PROVE  Local(q)'
    <2>1. id[q] # id[p]
      BY <1>1 DEF AInv, Serials
    <2> QED BY <2>1, OthersKeep
  <1> QED BY <1>2, <1>3 DEF AInv

\* An answer that spends no bucket beyond its limit.
LEMMA AnswerAInv ==
    ASSUME AInv, IInv', NEW p \in Procs, at[p] > 0, NEW response \in Response,
           Answer(p, response),
           waiting' = [waiting EXCEPT ![p] = FALSE],
           \A k \in Keys : tokens'[k] <= tokens[k],
           UNCHANGED <<hasLimiter, req, id, receipt, arrived, admitted>>,
           \A s \in served' : s \in served \/ s.id = id[p],
           Local(p)'
    PROVE  AInv'
  <1>1. \A q \in Procs \ {p} : Frame(q)
    BY DEF AInv, IInv, TypeOK, Answer, Frame
  <1>2. WithinLimit'
    <2>1. \A k \in Keys : tokens[k] \in Nat /\ tokens'[k] \in Nat /\ Limit[k.name] \in Nat
      BY KeyLimit DEF AInv, IInv, TypeOK
    <2> QED BY <2>1 DEF AInv, WithinLimit
  <1> QED BY <1>1, <1>2, MoveAInv

\* Passing a stage that charges nothing.
LEMMA PassAInv ==
    ASSUME AInv, IInv', NEW p \in Procs, at[p] > 0, ~waiting[p], Advance(p),
           ~hasLimiter \/ KeyOf(req[p], StageOf(p)) = NoKey,
           UNCHANGED <<hasLimiter, tokens, admitted, req, id, waiting, receipt, out, arrived, served>>
    PROVE  AInv'
  <1>1. /\ req[p] \in Requests /\ at[p] \in DOMAIN Stages(req[p])
        /\ StageOf(p) = Stages(req[p])[at[p]] /\ at[p] \in Nat
    BY AtStage DEF AInv, IInv
  <1>2. at'[p] = at[p] + 1 /\ \A q \in Procs \ {p} : at'[q] = at[q]
    BY DEF AInv, IInv, TypeOK, Advance
  <1>3. \A q \in Procs \ {p} : Frame(q)
    BY <1>2 DEF Frame
  <1>4. WithinLimit'
    BY DEF AInv, WithinLimit
  <1>5. DOMAIN Stages(req[p]) \subseteq Nat
    BY <1>1, StageType
  <1>6. Local(p)
    BY DEF AInv
  <1>7. Local(p)'
    <2>1. Unmarked(p)' /\ NotServed(p)'
      BY <1>6 DEF Local, Unmarked, NotServed
    <2>2. NotAhead(p)'
      BY <1>1, <1>2, <1>5, <1>6 DEF Local, NotAhead
    <2>3. ShowsLast(p)'
      <3>1. ChargedBefore(p, at[p])' = ChargedBefore(p, at[p])
        <4>1. \A j \in DOMAIN Stages(req[p]) :
                 hasLimiter /\ KeyOf(req[p], Stages(req[p])[j]) # NoKey
                   => (j < at[p] + 1 <=> j < at[p])
          BY <1>1, <1>5
        <4> QED BY <1>2, <4>1 DEF ChargedBefore
      <3>2. LastOf(p, ChargedBefore(p, at[p]), Shown(p))
        BY <1>6 DEF Local, ShowsLast
      <3> QED BY <3>1, <3>2 DEF ShowsLast, LastOf, Shown
    <2>4. ReceiptIsIdentifiers(p)'
      BY <1>1, <1>2, <1>5, <1>6 DEF Local, ReceiptIsIdentifiers
    <2>5. Refused(p)' /\ SuccessShown(p)'
      BY <1>1, <1>2 DEF Refused, SuccessShown
    <2>6. (out[p].detail => Detailed(p))'
      BY <1>6 DEF Local, Detailed
    <2> QED BY <2>1, <2>2, <2>3, <2>4, <2>5, <2>6 DEF Local
  <1> QED BY <1>3, <1>4, <1>7, MoveAInv

-----------------------------------------------------------------------------
\* One lemma per action.

\* A request that arrives has a number nobody has had.
LEMMA ArriveAInv ==
    ASSUME AInv, IInv', NEW p \in Procs, NEW r \in Requests, Arrive(p, r)
    PROVE  AInv'
  <1>1. /\ at'[p] = 1 /\ req'[p] = r /\ id'[p] = arrived + 1 /\ arrived' = arrived + 1
        /\ out'[p] = Unanswered /\ receipt'[p] = NoHeaders
        /\ \A q \in Procs \ {p} : Frame(q)
        /\ UNCHANGED <<hasLimiter, waiting, tokens, refills, admitted, served>>
    BY DEF AInv, IInv, TypeOK, Arrive, Frame, buckets
  <1>2. /\ arrived \in Nat
        /\ \A q \in Procs : id[q] \in Nat /\ id[q] <= arrived
        /\ \A s \in served : s.id \in Nat /\ s.id <= arrived
        /\ \A k \in Keys : \A n \in admitted[k] : n \in Nat /\ n <= arrived
    BY DEF AInv, IInv, TypeOK, Serials, Served
  <1>3. Serials'
    <2>1. \A q \in Procs : id'[q] <= arrived'
      BY <1>1, <1>2 DEF Frame
    <2>2. \A q1, q2 \in Procs : id'[q1] = id'[q2] /\ id'[q1] > 0 => q1 = q2
      BY <1>1, <1>2 DEF Frame, AInv, Serials
    <2>3. \A s \in served' : s.id <= arrived'
      BY <1>1, <1>2
    <2>4. \A k \in Keys : \A n \in admitted'[k] : n <= arrived'
      BY <1>1, <1>2
    <2> QED BY <2>1, <2>2, <2>3, <2>4 DEF Serials
  <1>4. WithinLimit'
    BY <1>1 DEF AInv, WithinLimit
  <1>5. \A q \in Procs \ {p} : Local(q)'
    BY <1>1, OthersKeep
  <1>6. Local(p)'
    <2>1. Unmarked(p)' /\ NotServed(p)'
      BY <1>1, <1>2 DEF Unmarked, NotServed, Unanswered
    <2>2. NotAhead(p)'
      <3> SUFFICES ASSUME NEW j \in DOMAIN Stages(r), KeyOf(r, Stages(r)[j]) # NoKey
                   PROVE  arrived + 1 \notin admitted[KeyOf(r, Stages(r)[j])]
        BY <1>1 DEF NotAhead
      <3>1. KeyOf(r, Stages(r)[j]) \in Keys
        BY KeyFacts
      <3> QED BY <1>2, <3>1
    <2>3. ShowsLast(p)' /\ ReceiptIsIdentifiers(p)'
      <3>1. \A j \in DOMAIN Stages(r) : ~ (j < 1)
        BY StageType
      <3>2. ChargedBefore(p, at[p])' = {}
        BY <1>1, <3>1 DEF ChargedBefore
      <3>3. Shown(p)' = NoHeaders
        BY <1>1 DEF Shown, Unanswered
      <3> QED BY <1>1, <3>2, <3>3 DEF ShowsLast, LastOf, ReceiptIsIdentifiers
    <2>4. Refused(p)' /\ SuccessShown(p)'
      BY <1>1 DEF Refused, SuccessShown
    <2>5. (out[p].detail => Detailed(p))'
      BY <1>1 DEF Unanswered
    <2> QED BY <2>1, <2>2, <2>3, <2>4, <2>5 DEF Local
  <1> QED BY <1>3, <1>4, <1>5, <1>6 DEF AInv

\* Passing over a check that does not apply.
LEMMA SkipAInv ==
    ASSUME AInv, IInv', NEW p \in Procs, SkipLimit(p)
    PROVE  AInv'
  <1>1. at[p] > 0 /\ ~waiting[p] /\ Advance(p)
    BY LimitNotCall DEF SkipLimit
  <1>2. ~hasLimiter \/ KeyOf(req[p], StageOf(p)) = NoKey
    BY DEF SkipLimit, LimitKey
  <1>3. UNCHANGED <<hasLimiter, tokens, admitted, req, id, waiting, receipt, out, arrived, served>>
    BY DEF SkipLimit, buckets
  <1> QED BY <1>1, <1>2, <1>3, PassAInv

\* An admission becomes the budget to show, and is charged to no bucket still ahead.
LEMMA AllowAInv ==
    ASSUME AInv, IInv', NEW p \in Procs, AllowLimit(p)
    PROVE  AInv'
  <1> DEFINE k == LimitKey(p)
             budget == [key |-> k, remaining |-> Minus1(tokens[k])]
             stages == Stages(req[p])
             key(j) == KeyOf(req[p], stages[j])
  <1>1. /\ AboutLimit(p) /\ at[p] > 0 /\ ~waiting[p] /\ k # NoKey /\ k \in Keys /\ hasLimiter
        /\ StageOf(p).do \in LimitKinds
    BY LimitKeyType, LimitNotCall DEF AllowLimit, AboutLimit, AInv, IInv
  <1>2. /\ req[p] \in Requests /\ at[p] \in DOMAIN stages /\ at[p] \in Nat
        /\ StageOf(p) = stages[at[p]] /\ k = key(at[p])
    BY <1>1, AtStage DEF AInv, IInv, LimitKey
  <1>3. /\ tokens' = [tokens EXCEPT ![k] = Minus1(@)]
        /\ admitted' = [admitted EXCEPT ![k] = @ \cup {id[p]}]
        /\ Advance(p)
        /\ IF StageOf(p).do = "identifier"
             THEN receipt' = [receipt EXCEPT ![p] = budget] /\ out' = out
             ELSE out' = [out EXCEPT ![p].limit = budget] /\ receipt' = receipt
        /\ UNCHANGED <<hasLimiter, refills, req, id, waiting, arrived, served>>
    BY DEF AllowLimit
  <1>4. /\ TypeOK /\ Local(p) /\ out[p] \in Response
        /\ tokens[k] \in Nat /\ Limit[k.name] \in Nat /\ tokens[k] <= Limit[k.name]
    BY <1>1, KeyLimit DEF AInv, IInv, TypeOK, WithinLimit
  <1>5. Minus1(tokens[k]) \in 0..Limit[k.name] /\ Minus1(tokens[k]) <= tokens[k]
    BY <1>4 DEF Minus1
  <1>6. budget # NoHeaders
    BY <1>1, <1>5, NoHeadersAssumption DEF NoHeaders
  <1>7. at'[p] = at[p] + 1 /\ \A q \in Procs \ {p} : at'[q] = at[q]
    BY <1>3, <1>4 DEF TypeOK, Advance
  <1> HIDE DEF budget, k
  <1>8. /\ \A q \in Procs \ {p} : receipt'[q] = receipt[q] /\ out'[q] = out[q]
        /\ out'[p].status = out[p].status /\ out'[p].retry = out[p].retry
        /\ out'[p].detail = out[p].detail
        /\ StageOf(p).do = "identifier" => receipt'[p] = budget /\ out'[p] = out[p]
        /\ StageOf(p).do # "identifier" => receipt'[p] = receipt[p] /\ out'[p].limit = budget
    BY <1>3, <1>4 DEF TypeOK, Response
  <1>9. \A q \in Procs \ {p} : Frame(q)
    BY <1>3, <1>7, <1>8 DEF Frame
  <1>10. WithinLimit'
    <2> SUFFICES ASSUME NEW m \in Keys
                 PROVE  tokens'[m] <= Limit[m.name]
      BY DEF WithinLimit
    <2>1. tokens[m] <= Limit[m.name]
      BY DEF AInv, WithinLimit
    <2>2. CASE m = k
      <3>1. tokens'[k] = Minus1(tokens[k])
        BY <1>1, <1>3, <1>4 DEF TypeOK
      <3> QED BY <1>5, <2>2, <3>1
    <2>3. CASE m # k
      BY <1>3, <1>4, <2>1, <2>3 DEF TypeOK
    <2> QED BY <2>2, <2>3
  <1>11. \A m \in Keys : \A n \in admitted'[m] : n \in admitted[m] \/ n = id[p]
    BY <1>1, <1>3, <1>4 DEF TypeOK
  <1>12. DOMAIN stages \subseteq Nat
    BY <1>2, StageType
  <1>13. Unmarked(p)' /\ NotServed(p)'
    BY <1>1, <1>3, <1>4, <1>8 DEF Local, Unmarked, NotServed
  <1>14. NotAhead(p)'
    <2> SUFFICES ASSUME NEW j \in DOMAIN stages, j >= at[p] + 1, key(j) # NoKey
                 PROVE  id[p] \notin admitted'[key(j)]
      BY <1>3, <1>7 DEF NotAhead
    <2>1. key(j) \in Keys
      BY <1>2, KeyFacts
    <2>2. key(j) # k
      BY <1>1, <1>2, <1>12, DistinctKeys
    <2>3. id[p] \notin admitted[key(j)]
      BY <1>1, <1>2, <1>4, <1>12 DEF Local, NotAhead
    <2>4. admitted'[key(j)] = admitted[key(j)]
      <3> HIDE DEF key
      <3> QED BY <1>1, <1>3, <1>4, <2>1, <2>2 DEF TypeOK
    <2> QED BY <2>3, <2>4
  <1>15. ReceiptIsIdentifiers(p)'
    <2>1. CASE StageOf(p).do = "identifier"
      BY <1>2, <1>3, <1>7, <2>1 DEF ReceiptIsIdentifiers
    <2>2. CASE StageOf(p).do # "identifier"
      BY <1>1, <1>2, <1>3, <1>4, <1>7, <1>8, <1>12, <2>2 DEF Local, ReceiptIsIdentifiers
    <2> QED BY <2>1, <2>2
  <1>16. Shown(p)' = budget
    <2>1. CASE StageOf(p).do = "identifier"
      BY <1>6, <1>8, <2>1 DEF Shown
    <2>2. CASE StageOf(p).do # "identifier"
      <3>1. receipt[p] = NoHeaders
        <4> SUFFICES ASSUME receipt[p] # NoHeaders PROVE FALSE
          OBVIOUS
        <4>1. PICK j \in DOMAIN stages : j < at[p] /\ stages[j].do = "identifier"
          BY <1>1, <1>4 DEF Local, ReceiptIsIdentifiers
        <4>2. at[p] <= j
          BY <1>1, <1>2, <4>1, IdentifierLast
        <4> QED BY <1>2, <1>12, <4>1, <4>2
      <3> QED BY <1>8, <2>2, <3>1 DEF Shown
    <2> QED BY <2>1, <2>2
  <1>17. ShowsLast(p)'
    <2>1. /\ at[p] \in ChargedBefore(p, at[p])'
          /\ \A i \in ChargedBefore(p, at[p])' : i <= at[p]
      BY <1>1, <1>2, <1>3, <1>7, <1>12 DEF ChargedBefore
    <2>2. budget.key = k
      BY DEF budget
    <2> QED BY <1>2, <1>3, <1>6, <1>16, <2>1, <2>2 DEF ShowsLast, LastOf
  <1>18. Refused(p)' /\ SuccessShown(p)'
    BY <1>2, <1>7 DEF Refused, SuccessShown
  <1>19. (out[p].detail => Detailed(p))'
    BY <1>1, <1>4, <1>8 DEF Local, Unmarked
  <1>20. Local(p)'
    BY <1>13, <1>14, <1>15, <1>17, <1>18, <1>19 DEF Local
  <1> QED BY <1>1, <1>3, <1>9, <1>10, <1>11, <1>20, MoveAInv

\* A refusal: nothing was done for the request, and the denying bucket had not
\* admitted it.
LEMMA RefuseAInv ==
    ASSUME AInv, IInv', NEW p \in Procs, DenyLimit(p) \/ LimiterError(p)
    PROVE  AInv'
  <1>1. /\ AboutLimit(p) /\ LimitKey(p) # NoKey /\ LimitKey(p) \in Keys
        /\ UNCHANGED <<hasLimiter, refills, req, id, receipt, arrived, admitted, served>>
        /\ waiting' = [waiting EXCEPT ![p] = FALSE]
    BY LimitKeyType, LimitNotCall, StillNotWaiting
       DEF DenyLimit, LimiterError, AInv, IInv, buckets
  <1>2. at[p] > 0 /\ ~waiting[p]
    BY <1>1, LimitNotCall
  <1>3. TypeOK /\ Local(p) /\ out[p] \in Response /\ tokens \in [Keys -> Nat]
    BY DEF AInv, IInv, TypeOK
  <1>4. \A s \in served' : s.id # id[p]
    BY <1>1, <1>2, <1>3 DEF Local, NotServed
  <1>5. id[p] \notin admitted[LimitKey(p)]
    <2>1. /\ req[p] \in Requests /\ at[p] \in DOMAIN Stages(req[p]) /\ at[p] \in Nat
          /\ LimitKey(p) = KeyOf(req[p], Stages(req[p])[at[p]])
      BY <1>2, <1>3, AtStage DEF LimitKey
    <2> QED BY <1>1, <1>2, <1>3, <2>1 DEF Local, NotAhead
  <1>6. CASE DenyLimit(p)
    <2> DEFINE budget   == [key |-> LimitKey(p), remaining |-> 0]
               response == [status |-> 429, retry |-> TRUE, detail |-> FALSE, limit |-> budget]
    <2>1. Answer(p, response) /\ tokens' = tokens
      BY <1>6 DEF DenyLimit, buckets
    <2>2. response \in Response
      BY <1>1 DEF Response, Budget
    <2>3. budget # NoHeaders
      <3>1. Limit[LimitKey(p).name] \in Nat
        BY <1>1, KeyLimit
      <3> QED BY <1>1, <3>1, NoHeadersAssumption DEF NoHeaders
    <2>4. budget.key = LimitKey(p) /\ budget.remaining = 0
      OBVIOUS
    <2> HIDE DEF budget
    <2>5. /\ response.status = 429 /\ response.detail = FALSE
          /\ response.limit = budget
      OBVIOUS
    <2> HIDE DEF response
    <2>6. Local(p)'
      BY <1>1, <1>4, <1>5, <2>1, <2>2, <2>3, <2>4, <2>5, AnswerLocal
    <2>7. \A k \in Keys : tokens'[k] <= tokens[k]
      BY <1>3, <2>1
    <2> QED BY <1>1, <1>2, <2>1, <2>2, <2>6, <2>7, AnswerAInv
  <1>7. CASE LimiterError(p)
    <2> DEFINE no       == FALSE
               plain    == Reply(p, 503, no)
               response == [plain EXCEPT !.retry = TRUE]
    <2>1. Answer(p, response)
      BY <1>7 DEF LimiterError
    <2>2. no \in BOOLEAN /\ no = FALSE
      OBVIOUS
    <2> HIDE DEF no
    <2>3. plain \in Response /\ plain.status = 503 /\ plain.detail = no
      BY <1>3, <2>2, ReplyFacts
    <2> HIDE DEF plain
    <2>4. response \in Response /\ response.status = 503 /\ response.detail = FALSE
      BY <2>2, <2>3 DEF Response
    <2>5. \A k \in Keys : tokens'[k] <= tokens[k]
      <3>1. PICK spent \in {tokens[LimitKey(p)], Minus1(tokens[LimitKey(p)])} :
               tokens' = [tokens EXCEPT ![LimitKey(p)] = spent]
        BY <1>7 DEF LimiterError
      <3>2. spent \in Nat /\ spent <= tokens[LimitKey(p)]
        BY <1>1, <1>3 DEF Minus1
      <3> QED BY <1>1, <1>3, <3>1, <3>2
    <2> HIDE DEF response
    <2>6. Local(p)'
      BY <1>1, <1>4, <2>1, <2>4, AnswerLocal
    <2> QED BY <1>1, <1>2, <2>1, <2>4, <2>5, <2>6, AnswerAInv
  <1> QED BY <1>6, <1>7

\* A validation stage goes on, or answers with its own 400 or 401.
LEMMA ValidateAInv ==
    ASSUME AInv, IInv', NEW p \in Procs, NEW kind \in {"bearer", "json", "email"},
           NEW ok \in BOOLEAN, NEW status \in {400, 401},
           About(p, kind), Validate(p, ok, status)
    PROVE  AInv'
  <1>1. /\ at[p] > 0 /\ ~waiting[p] /\ StageOf(p).do = kind
        /\ UNCHANGED <<hasLimiter, tokens, refills, admitted, req, id, waiting, receipt, arrived, served>>
    BY DEF About, Validate, buckets
  <1>2. CASE ok
    <2>1. Advance(p) /\ UNCHANGED out
      BY <1>2 DEF Validate
    <2>2. KeyOf(req[p], StageOf(p)) = NoKey
      BY <1>1 DEF KeyOf
    <2> QED BY <1>1, <2>1, <2>2, PassAInv
  <1>3. CASE ~ok
    <2> DEFINE no       == FALSE
               response == Reply(p, status, no)
    <2>1. Answer(p, response) /\ no \in BOOLEAN /\ no = FALSE
      BY <1>3 DEF Validate
    <2> HIDE DEF no
    <2>2. out[p] \in Response /\ out[p].retry = FALSE /\ tokens \in [Keys -> Nat]
      BY <1>1 DEF AInv, IInv, TypeOK, Local, Unmarked
    <2>3. /\ response \in Response /\ response.status = status
          /\ response.retry = FALSE /\ response.detail = FALSE
      <3>1. status \in Nat
        OBVIOUS
      <3>2. response \in Response /\ response.status = status /\ response.detail = no
        BY <2>1, <2>2, <3>1, ReplyFacts
      <3>3. response.retry = out[p].retry
        BY <2>1, <2>2, <3>1, ReplyFacts
      <3> HIDE DEF response
      <3> QED BY <2>1, <2>2, <3>2, <3>3
    <2> HIDE DEF response
    <2>4. Local(p)'
      BY <1>1, <2>1, <2>3, AnswerLocal
    <2>5. waiting' = [waiting EXCEPT ![p] = FALSE]
      BY <1>1, StillNotWaiting DEF AInv, IInv
    <2>6. \A k \in Keys : tokens'[k] <= tokens[k]
      BY <1>1, <2>2
    <2> QED BY <1>1, <2>1, <2>3, <2>4, <2>5, <2>6, AnswerAInv
  <1> QED BY <1>2, <1>3

\* The call to orbit-auth leaves: from now on the request is served, and waits.
LEMMA CallUpstreamAInv ==
    ASSUME AInv, IInv', NEW p \in Procs, CallUpstream(p)
    PROVE  AInv'
  <1>1. /\ at[p] > 0
        /\ waiting' = [waiting EXCEPT ![p] = TRUE]
        /\ served' = served \cup {[id |-> id[p], req |-> req[p]]}
        /\ UNCHANGED <<hasLimiter, tokens, refills, admitted, req, id, at, receipt, out, arrived>>
    BY DEF CallUpstream, About, buckets
  <1>2. waiting'[p] = TRUE /\ \A q \in Procs \ {p} : Frame(q)
    BY <1>1 DEF AInv, IInv, TypeOK, Frame
  <1>3. Local(p) /\ at[p] \in Nat
    BY DEF AInv, IInv, TypeOK
  <1>4. Unmarked(p)' /\ NotServed(p)' /\ NotAhead(p)' /\ ReceiptIsIdentifiers(p)'
    BY <1>1, <1>2, <1>3 DEF Local, Unmarked, NotServed, NotAhead, ReceiptIsIdentifiers
  <1>5. ShowsLast(p)'
    BY <1>1, <1>3 DEF Local, ShowsLast, LastOf, ChargedBefore, Shown
  <1>6. Refused(p)' /\ SuccessShown(p)' /\ (out[p].detail => Detailed(p))'
    BY <1>1, <1>3 DEF Local, Refused, SuccessShown, Detailed
  <1>7. Local(p)'
    BY <1>4, <1>5, <1>6 DEF Local
  <1>8. WithinLimit' /\ \A s \in served' : s \in served \/ s.id = id[p]
    BY <1>1 DEF AInv, WithinLimit
  <1> QED BY <1>1, <1>2, <1>7, <1>8, MoveAInv

\* A local service runs and answers in one step.
LEMMA CallLocalAInv ==
    ASSUME AInv, IInv', NEW p \in Procs, CallLocal(p)
    PROVE  AInv'
  <1>1. /\ at[p] > 0 /\ ~waiting[p] /\ StageOf(p).do = "call"
        /\ served' = served \cup {[id |-> id[p], req |-> req[p]]}
        /\ UNCHANGED <<hasLimiter, tokens, refills, admitted, req, id, waiting, receipt, arrived>>
    BY DEF CallLocal, About, buckets
  <1>2. PICK response \in Response :
           /\ Answer(p, response) /\ ~response.retry /\ ~response.detail
           /\ response.status \in {200, 202} => LastOf(p, Charged(p), response.limit)
    <2>1. CASE Answer(p, Succeed(p))
      BY <1>1, <2>1, SucceedType, SucceedFacts DEF AInv, IInv
    <2>2. ASSUME NEW failure, failure.detail = FALSE, Answer(p, Fail(p, failure))
          PROVE  \E response \in Response :
                    /\ Answer(p, response) /\ ~response.retry /\ ~response.detail
                    /\ response.status \in {200, 202} => LastOf(p, Charged(p), response.limit)
      <3> DEFINE fail == Fail(p, failure)
      <3>1. Answer(p, fail) /\ fail = Fail(p, failure)
        BY <2>2
      <3> HIDE DEF fail
      <3>2. fail \in Response /\ ~fail.retry /\ ~fail.detail /\ fail.status \in 400..599
        <4>1. failure.detail \in BOOLEAN /\ ~failure.detail
          BY <2>2
        <4> QED BY <1>1, <3>1, <4>1, FailFacts
      <3>3. fail.status \notin {200, 202}
        BY <3>2
      <3> QED BY <3>1, <3>2, <3>3
    <2>3. Answer(p, Succeed(p)) \/ \E kind : Answer(p, Fail(p, Failure(kind, FALSE)))
      BY DEF CallLocal
    <2>4. \A kind : Failure(kind, FALSE).detail = FALSE
      BY DEF Failure
    <2> QED BY <2>1, <2>2, <2>3, <2>4
  <1>3. Local(p)'
    BY <1>1, <1>2, AnswerLocal
  <1>4. waiting' = [waiting EXCEPT ![p] = FALSE]
    BY <1>1, StillNotWaiting DEF AInv, IInv
  <1>5. \A k \in Keys : tokens'[k] <= tokens[k]
    BY <1>1 DEF AInv, IInv, TypeOK
  <1>6. \A s \in served' : s \in served \/ s.id = id[p]
    BY <1>1
  <1> QED BY <1>1, <1>2, <1>3, <1>4, <1>5, <1>6, AnswerAInv

\* An upstream answer, or the flags timeout: what it says follows from the family of
\* the route's call.
LEMMA ReplyAInv ==
    ASSUME AInv, IInv', NEW p \in Procs, UpstreamReply(p) \/ FlagsTimeout(p)
    PROVE  AInv'
  <1>1. /\ at[p] > 0 /\ waiting[p] /\ waiting' = [waiting EXCEPT ![p] = FALSE]
        /\ UNCHANGED <<hasLimiter, tokens, refills, admitted, req, id, receipt, arrived, served>>
    BY DEF UpstreamReply, FlagsTimeout, buckets
  <1>2. StageOf(p).do = "call" /\ Family(p) \in Upstream
    BY <1>1 DEF AInv, IInv, WaitsUpstream
  <1>3. Stages(req[p])[Len(Stages(req[p]))].name = Family(p)
    BY <1>1, <1>2, AtStage DEF AInv, IInv, Family
  <1>4. ASSUME NEW code, Answer(p, Fail(p, UpstreamFailure(Family(p), code)))
        PROVE  \E response \in Response : Answer(p, response) /\ Local(p)'
    <2> DEFINE failure  == UpstreamFailure(Family(p), code)
               response == Fail(p, failure)
    <2>1. /\ failure.detail \in BOOLEAN
          /\ failure.detail => /\ HTTPStatus(failure.kind) \in 400..499
                               /\ Family(p) \in {"auth", "org", "signup"}
      <3>1. failure = UpstreamFailure(Family(p), code)
        OBVIOUS
      <3> HIDE DEF failure
      <3> QED BY <1>2, <3>1, UpstreamDetail
    <2>2. Answer(p, response) /\ response = Fail(p, failure)
      BY <1>4
    <2> HIDE DEF failure, response
    <2>3. /\ response \in Response /\ ~response.retry
          /\ response.status = HTTPStatus(failure.kind) /\ HTTPStatus(failure.kind) \in 400..599
          /\ response.detail => failure.detail
      BY <1>1, <2>1, <2>2, FailFacts
    <2>4. response.status \notin {200, 202}
      BY <2>3
    <2>5. Local(p)'
      BY <1>1, <1>3, <2>1, <2>2, <2>3, <2>4, AnswerLocal
    <2> QED BY <2>2, <2>3, <2>5
  <1>5. ASSUME Answer(p, Succeed(p))
        PROVE  \E response \in Response : Answer(p, response) /\ Local(p)'
    <2>1. Succeed(p) \in Response
      BY SucceedType DEF AInv, IInv
    <2> QED BY <1>1, <1>2, <1>5, <2>1, SucceedFacts, AnswerLocal
  <1>6. \/ Answer(p, Succeed(p))
        \/ \E code : Answer(p, Fail(p, UpstreamFailure(Family(p), code)))
    BY DEF UpstreamReply, FlagsTimeout
  <1>7. PICK response \in Response : Answer(p, response) /\ Local(p)'
    BY <1>4, <1>5, <1>6
  <1>8. \A k \in Keys : tokens'[k] <= tokens[k]
    BY <1>1 DEF AInv, IInv, TypeOK
  <1> QED BY <1>1, <1>7, <1>8, AnswerAInv

\* A refill touches no request.
LEMMA RefillAInv ==
    ASSUME AInv, IInv', NEW k \in Keys, Refill(k)
    PROVE  AInv'
  <1>1. /\ tokens[k] < Limit[k.name] /\ tokens' = [tokens EXCEPT ![k] = @ + 1]
        /\ UNCHANGED <<hasLimiter, req, id, at, waiting, receipt, out, arrived, admitted, served>>
    BY DEF Refill
  <1>2. WithinLimit'
    BY <1>1, KeyLimit DEF AInv, IInv, TypeOK, WithinLimit
  <1>3. Serials'
    BY <1>1 DEF AInv, Serials
  <1>4. \A q \in Procs : Frame(q)
    BY <1>1 DEF Frame
  <1>5. \A q \in Procs : Local(q)'
    BY <1>1, <1>4, OthersKeep
  <1> QED BY <1>2, <1>3, <1>5 DEF AInv

\* Before the first request nobody is on its way and nothing was answered.
LEMMA InitAInv == Init => AInv
  <1> SUFFICES ASSUME Init PROVE AInv
    OBVIOUS
  <1>1. IInv
    BY InitIInv
  <1>2. Serials /\ WithinLimit
    <2>1. \A k \in Keys : tokens[k] = Limit[k.name] /\ Limit[k.name] \in Nat
      BY KeyLimit DEF Init
    <2> QED BY <2>1 DEF Init, Serials, WithinLimit
  <1>3. ASSUME NEW p \in Procs
        PROVE  Local(p)
    <2>1. /\ at[p] = 0 /\ out[p].status = 0 /\ out[p].retry = FALSE /\ out[p].detail = FALSE
      BY DEF Init, Unanswered
    <2> QED BY <2>1 DEF Local, Unmarked, NotServed, NotAhead, ShowsLast, ReceiptIsIdentifiers,
                        Refused, SuccessShown
  <1> QED BY <1>1, <1>2, <1>3 DEF AInv

\* Every step preserves AInv.
LEMMA NextAInv == AInv /\ [Next]_vars => AInv'
  <1> SUFFICES ASSUME AInv, [Next]_vars PROVE AInv'
    OBVIOUS
  <1>0. IInv'
    BY NextIInv DEF AInv
  <1>1. CASE \E p \in Procs, r \in Requests : Arrive(p, r)
    BY <1>0, <1>1, ArriveAInv
  <1>2. ASSUME NEW p \in Procs, Handle(p) PROVE AInv'
    <2>1. CASE SkipLimit(p)
      BY <1>0, <2>1, SkipAInv
    <2>2. CASE AllowLimit(p)
      BY <1>0, <2>2, AllowAInv
    <2>3. CASE DenyLimit(p) \/ LimiterError(p)
      BY <1>0, <2>3, RefuseAInv
    <2>4. CASE requireBearer(p)
      <3>1. About(p, "bearer") /\ \E ok \in BOOLEAN : Validate(p, ok, 401)
        BY <2>4 DEF requireBearer, Validate
      <3> QED BY <1>0, <3>1, ValidateAInv
    <2>5. CASE decodeJSONBody(p)
      <3>1. About(p, "json") /\ \E ok \in BOOLEAN : Validate(p, ok, 400)
        BY <2>5 DEF decodeJSONBody, Validate
      <3> QED BY <1>0, <3>1, ValidateAInv
    <2>6. CASE validEmail(p)
      <3>1. About(p, "email") /\ \E ok \in BOOLEAN : Validate(p, ok, 400)
        BY <2>6 DEF validEmail, Validate
      <3> QED BY <1>0, <3>1, ValidateAInv
    <2>7. CASE CallUpstream(p)
      BY <1>0, <2>7, CallUpstreamAInv
    <2>8. CASE CallLocal(p)
      BY <1>0, <2>8, CallLocalAInv
    <2>9. CASE FlagsTimeout(p)
      BY <1>0, <2>9, ReplyAInv
    <2> QED BY <1>2, <2>1, <2>2, <2>3, <2>4, <2>5, <2>6, <2>7, <2>8, <2>9 DEF Handle
  <1>3. CASE \E p \in Procs : UpstreamReply(p)
    BY <1>0, <1>3, ReplyAInv
  <1>4. CASE \E k \in Keys : Refill(k)
    BY <1>0, <1>4, RefillAInv
  <1>5. CASE UNCHANGED vars
    <2>1. \A q \in Procs : Frame(q)
      BY <1>5 DEF Frame, vars
    <2>2. \A q \in Procs : Local(q)'
      BY <1>5, <2>1, OthersKeep DEF vars
    <2>3. Serials' /\ WithinLimit'
      BY <1>5 DEF AInv, Serials, WithinLimit, vars
    <2> QED BY <1>0, <2>2, <2>3 DEF AInv
  <1> QED BY <1>1, <1>2, <1>3, <1>4, <1>5 DEF Next

\* What is known of requests on their way and of the answers given holds in every
\* behaviour of the edge.
THEOREM AnswersInvariance == Spec => []AInv
  BY InitAInv, NextAInv, PTL DEF Spec

\* A rate-limit refusal is final and truthful, however many requests run at once
\* and share the bucket that refused.
THEOREM RefusalsFinal == Spec => []RefusalIsFinal
  <1>1. AInv => RefusalIsFinal
    BY DEF AInv, Local, Refused, RefusalIsFinal
  <1> QED BY <1>1, AnswersInvariance, PTL

\* A success shows the budget of the last bucket its route charged.
THEOREM SuccessTellsBudget == Spec => []SuccessShowsLastBudget
  <1>1. AInv => SuccessShowsLastBudget
    BY DEF AInv, Local, SuccessShown, SuccessShowsLastBudget, LastOf, Charged, Stages
  <1> QED BY <1>1, AnswersInvariance, PTL

\* Upstream text reaches a client only with a 4xx of the auth, organization and
\* sign-up families.
THEOREM NoInternalDetail == Spec => []DetailOnlyOnClientErrors
  <1>1. AInv => DetailOnlyOnClientErrors
    BY DEF AInv, Local, Detailed, DetailOnlyOnClientErrors, Stages
  <1> QED BY <1>1, AnswersInvariance, PTL

-----------------------------------------------------------------------------
\* Budgets that belong to a third party.  Malformed requests leave them alone if the
\* route validates before it charges them; Validated carries along what the
\* stages behind a request have established.

ValidationKinds == {"bearer", "json", "email"}

\* Stage s charges a budget that is not the caller's own.
ThirdParty(s) == s.do \in LimitKinds /\ (s.do = "identifier" \/ s.name = "/session/org")

\* A route charges third parties only after its validation.
ValidatesBefore(stages) ==
    \A i, j \in DOMAIN stages :
        ThirdParty(stages[i]) /\ stages[j].do \in ValidationKinds => j < i

AllValidate(table) == \A route \in DOMAIN table : ValidatesBefore(table[route])

ValidatesFirst == AllValidate(Pipeline)

\* Stage s rejects request r.
Rejects(s, r) ==
    \/ s.do = "bearer" /\ ~r.bearer
    \/ s.do = "json" /\ ~r.json
    \/ s.do = "email" /\ Normalize[r.email] \notin Addresses

Validated(p) ==
    at[p] > 0 => \A j \in DOMAIN Stages(req[p]) :
                    j < at[p] => ~Rejects(Stages(req[p])[j], req[p])

SparesOthers(p) ==
    Malformed(req[p]) =>
        \A k \in KeysOf(req[p]) :
            k.scope = "identifier" \/ k.name = "/session/org" => id[p] \notin admitted[k]

VInv == AInv /\ \A p \in Procs : Validated(p) /\ SparesOthers(p)

\* The key of a third party's bucket comes from a stage that charges it.
LEMMA ThirdPartyKey ==
    ASSUME NEW r \in Requests, NEW i \in DOMAIN Stages(r), KeyOf(r, Stages(r)[i]) # NoKey,
           \/ KeyOf(r, Stages(r)[i]).scope = "identifier"
           \/ KeyOf(r, Stages(r)[i]).name = "/session/org"
    PROVE  ThirdParty(Stages(r)[i])
  <1>1. Stages(r)[i].do \in LimitKinds
    BY KeyFacts
  <1>2. /\ KeyOf(r, Stages(r)[i]).scope = Stages(r)[i].do
        /\ KeyOf(r, Stages(r)[i]).name = Stages(r)[i].name
    BY <1>1, StageType DEF KeyOf, LimitKinds, ClientKey, KeyForIP, KeyForOrg, IdentifierKey
  <1> QED BY <1>1, <1>2 DEF ThirdParty

\* A malformed request is rejected by one of the stages of its route.
LEMMA MalformedIsRejected ==
    ASSUME NEW r, Malformed(r)
    PROVE  \E j \in DOMAIN Stages(r) :
              Rejects(Stages(r)[j], r) /\ Stages(r)[j].do \in ValidationKinds
  BY DEF Malformed, Rejects, ValidationKinds, Stages

\* A step of one request keeps what is known of the others.
LEMMA OthersKeepV ==
    ASSUME VInv, NEW q \in Procs, Frame(q),
           \A k \in Keys : \A n \in admitted'[k] : n \in admitted[k] \/ n # id[q]
    PROVE  Validated(q)' /\ SparesOthers(q)'
  <1>1. Validated(q) /\ SparesOthers(q) /\ req[q] \in Requests
    BY DEF VInv, AInv, IInv, TypeOK
  <1>2. KeysOf(req[q]) \subseteq Keys
    BY <1>1 DEF Keys
  <1>3. Validated(q)'
    BY <1>1 DEF Frame, Validated
  <1>4. SparesOthers(q)'
    BY <1>1, <1>2 DEF Frame, SparesOthers
  <1> QED BY <1>3, <1>4

\* A request that goes on to the next stage, unrejected.
LEMMA AdvanceV ==
    ASSUME VInv, NEW p \in Procs, at[p] > 0, Advance(p), ~Rejects(StageOf(p), req[p]),
           UNCHANGED <<req>>
    PROVE  Validated(p)'
  <1>1. /\ req[p] \in Requests /\ at[p] \in DOMAIN Stages(req[p])
        /\ StageOf(p) = Stages(req[p])[at[p]] /\ at[p] \in Nat
    BY AtStage DEF VInv, AInv, IInv
  <1>2. at'[p] = at[p] + 1
    BY DEF VInv, AInv, IInv, TypeOK, Advance
  <1>3. DOMAIN Stages(req[p]) \subseteq Nat
    BY <1>1, StageType
  <1>4. ASSUME NEW j \in DOMAIN Stages(req[p]), j < at[p] + 1
        PROVE  ~Rejects(Stages(req[p])[j], req[p])
    <2>1. CASE j < at[p]
      BY <2>1 DEF VInv, Validated
    <2>2. CASE j = at[p]
      BY <1>1, <2>2
    <2> QED BY <1>1, <1>3, <1>4, <2>1, <2>2
  <1> QED BY <1>2, <1>4 DEF Validated

\* An admission to a third party's bucket, made after validation.
LEMMA AllowV ==
    ASSUME ValidatesFirst, VInv, NEW p \in Procs, AllowLimit(p)
    PROVE  SparesOthers(p)'
  <1> DEFINE stages == Stages(req[p])
  <1>1. /\ at[p] > 0 /\ LimitKey(p) # NoKey /\ LimitKey(p) \in Keys
        /\ admitted' = [admitted EXCEPT ![LimitKey(p)] = @ \cup {id[p]}]
        /\ UNCHANGED <<req, id>>
    BY LimitKeyType, LimitNotCall DEF AllowLimit, VInv, AInv, IInv
  <1>2. /\ req[p] \in Requests /\ at[p] \in DOMAIN stages /\ at[p] \in Nat
        /\ LimitKey(p) = KeyOf(req[p], stages[at[p]])
    BY <1>1, AtStage DEF VInv, AInv, IInv, LimitKey
  <1> SUFFICES ASSUME Malformed(req[p]), NEW k \in KeysOf(req[p]),
                      k.scope = "identifier" \/ k.name = "/session/org"
               PROVE  id[p] \notin admitted'[k]
    BY <1>1 DEF SparesOthers
  <1>3. id[p] \notin admitted[k] /\ k \in Keys
    BY <1>2 DEF VInv, SparesOthers, Keys
  <1>4. CASE k = LimitKey(p)
    <2>1. ThirdParty(stages[at[p]])
      BY <1>1, <1>2, <1>4, ThirdPartyKey
    <2>2. PICK j \in DOMAIN stages :
             Rejects(stages[j], req[p]) /\ stages[j].do \in ValidationKinds
      BY MalformedIsRejected
    <2>3. j < at[p]
      BY <1>2, <2>1, <2>2, RequestsAssumption DEF ValidatesFirst, AllValidate, ValidatesBefore, Stages
    <2> QED BY <1>1, <2>2, <2>3 DEF VInv, Validated
  <1>5. CASE k # LimitKey(p)
    BY <1>1, <1>3, <1>5 DEF VInv, AInv, IInv, TypeOK
  <1> QED BY <1>4, <1>5

\* A step of request p that neither charges nor renumbers.
LEMMA MoveV ==
    ASSUME VInv, AInv', NEW p \in Procs, \A q \in Procs \ {p} : Frame(q),
           UNCHANGED <<req, id, admitted>>, Validated(p)'
    PROVE  VInv'
  <1>1. SparesOthers(p)'
    BY DEF VInv, SparesOthers
  <1>2. \A q \in Procs \ {p} : Validated(q)' /\ SparesOthers(q)'
    BY OthersKeepV
  <1> QED BY <1>1, <1>2 DEF VInv

\* An answer ends the request.
LEMMA AnswerV ==
    ASSUME VInv, AInv', NEW p \in Procs, NEW response, Answer(p, response),
           \A q \in Procs \ {p} : waiting'[q] = waiting[q],
           UNCHANGED <<req, id, receipt, admitted>>
    PROVE  VInv'
  <1>1. at'[p] = 0 /\ \A q \in Procs \ {p} : Frame(q)
    BY DEF VInv, AInv, IInv, TypeOK, Answer, Frame
  <1>2. Validated(p)'
    BY <1>1 DEF Validated
  <1> QED BY <1>1, <1>2, MoveV

\* A validation stage lets a request pass only if it does not reject it.
LEMMA ValidateV ==
    ASSUME VInv, AInv', NEW p \in Procs, NEW kind \in ValidationKinds, NEW ok, NEW status,
           About(p, kind), Validate(p, ok, status), ok => ~Rejects(StageOf(p), req[p])
    PROVE  VInv'
  <1>1. at[p] > 0 /\ UNCHANGED <<req, id, waiting, receipt, admitted>>
    BY DEF About, Validate, buckets
  <1>2. CASE ok
    <2>1. Advance(p) /\ UNCHANGED out
      BY <1>2 DEF Validate
    <2>2. \A q \in Procs \ {p} : Frame(q)
      BY <1>1, <2>1 DEF VInv, AInv, IInv, TypeOK, Advance, Frame
    <2> QED BY <1>1, <1>2, <2>1, <2>2, AdvanceV, MoveV
  <1>3. CASE ~ok
    BY <1>1, <1>3, AnswerV DEF Validate
  <1> QED BY <1>2, <1>3

\* Every step keeps VInv, on a route table that validates first.
LEMMA NextVInv == ValidatesFirst /\ VInv /\ [Next]_vars => VInv'
  <1> SUFFICES ASSUME ValidatesFirst, VInv, [Next]_vars PROVE VInv'
    OBVIOUS
  <1>0. AInv' /\ TypeOK
    BY NextAInv DEF VInv, AInv, IInv
  <1>1. ASSUME NEW p \in Procs, NEW r \in Requests, Arrive(p, r)
        PROVE  VInv'
    <2>1. /\ at'[p] = 1 /\ req'[p] = r /\ id'[p] = arrived + 1 /\ admitted' = admitted
          /\ \A q \in Procs \ {p} : Frame(q)
      BY <1>0, <1>1 DEF TypeOK, Arrive, Frame, buckets
    <2>2. Validated(p)'
      <3>1. \A j \in DOMAIN Stages(r) : ~ (j < 1)
        BY StageType
      <3> QED BY <2>1, <3>1 DEF Validated
    <2>3. SparesOthers(p)'
      <3>1. KeysOf(r) \subseteq Keys /\ arrived \in Nat
        BY <1>0 DEF Keys, TypeOK
      <3>2. \A k \in Keys : \A n \in admitted[k] : n \in Nat /\ n <= arrived
        BY <1>0 DEF VInv, AInv, Serials, TypeOK
      <3> QED BY <2>1, <3>1, <3>2 DEF SparesOthers
    <2>4. \A q \in Procs \ {p} : Validated(q)' /\ SparesOthers(q)'
      BY <2>1, OthersKeepV
    <2> QED BY <1>0, <2>2, <2>3, <2>4 DEF VInv
  <1>2. ASSUME NEW p \in Procs, SkipLimit(p)
        PROVE  VInv'
    <2>1. /\ at[p] > 0 /\ Advance(p) /\ StageOf(p).do \in LimitKinds
          /\ UNCHANGED <<req, id, waiting, receipt, out, admitted>>
      BY <1>2 DEF SkipLimit, AboutLimit, buckets
    <2>2. ~Rejects(StageOf(p), req[p])
      BY <2>1 DEF Rejects, LimitKinds
    <2>3. \A q \in Procs \ {p} : Frame(q)
      BY <1>0, <2>1 DEF TypeOK, Advance, Frame
    <2> QED BY <1>0, <2>1, <2>2, <2>3, AdvanceV, MoveV
  <1>3. ASSUME NEW p \in Procs, AllowLimit(p)
        PROVE  VInv'
    <2>1. /\ at[p] > 0 /\ Advance(p) /\ StageOf(p).do \in LimitKinds
          /\ LimitKey(p) \in Keys
          /\ admitted' = [admitted EXCEPT ![LimitKey(p)] = @ \cup {id[p]}]
          /\ UNCHANGED <<req, id, waiting>>
      BY <1>0, <1>3, LimitKeyType DEF AllowLimit, AboutLimit
    <2>2. ~Rejects(StageOf(p), req[p])
      BY <2>1 DEF Rejects, LimitKinds
    <2>3. Validated(p)' /\ SparesOthers(p)'
      BY <1>3, <2>1, <2>2, AdvanceV, AllowV
    <2>4. \A q \in Procs \ {p} : Frame(q)
      <3>1. \A q \in Procs \ {p} : at'[q] = at[q]
        BY <1>0, <2>1 DEF TypeOK, Advance
      <3>2. \A q \in Procs \ {p} : receipt'[q] = receipt[q] /\ out'[q] = out[q]
        BY <1>0, <1>3 DEF TypeOK, AllowLimit
      <3> QED BY <2>1, <3>1, <3>2 DEF Frame
    <2>5. \A k \in Keys : \A n \in admitted'[k] : n \in admitted[k] \/ n = id[p]
      BY <1>0, <2>1 DEF TypeOK
    <2>6. \A q \in Procs \ {p} : id[q] # id[p]
      BY <2>1 DEF VInv, AInv, Serials, Local, Unmarked
    <2>7. \A q \in Procs \ {p} : Validated(q)' /\ SparesOthers(q)'
      BY <2>4, <2>5, <2>6, OthersKeepV
    <2> QED BY <1>0, <2>3, <2>7 DEF VInv
  <1>4. ASSUME NEW p \in Procs, DenyLimit(p) \/ LimiterError(p)
        PROVE  VInv'
    <2>1. UNCHANGED <<req, id, waiting, receipt, admitted>> /\ \E response : Answer(p, response)
      BY <1>4 DEF DenyLimit, LimiterError, buckets
    <2> QED BY <1>0, <2>1, AnswerV
  <1>5. ASSUME NEW p \in Procs, requireBearer(p) \/ decodeJSONBody(p) \/ validEmail(p)
        PROVE  VInv'
    <2>1. CASE requireBearer(p)
      <3>1. /\ About(p, "bearer") /\ Validate(p, req[p].bearer, 401)
            /\ req[p].bearer => ~Rejects(StageOf(p), req[p])
        BY <2>1 DEF requireBearer, About, Rejects
      <3> QED BY <1>0, <3>1, ValidateV DEF ValidationKinds
    <2>2. CASE decodeJSONBody(p)
      <3>1. /\ About(p, "json") /\ Validate(p, req[p].json, 400)
            /\ req[p].json => ~Rejects(StageOf(p), req[p])
        BY <2>2 DEF decodeJSONBody, About, Rejects
      <3> QED BY <1>0, <3>1, ValidateV DEF ValidationKinds
    <2>3. CASE validEmail(p)
      <3>1. /\ About(p, "email") /\ Validate(p, Normalize[req[p].email] \in Addresses, 400)
            /\ Normalize[req[p].email] \in Addresses => ~Rejects(StageOf(p), req[p])
        BY <2>3 DEF validEmail, About, Rejects
      <3> QED BY <1>0, <3>1, ValidateV DEF ValidationKinds
    <2> QED BY <1>5, <2>1, <2>2, <2>3
  <1>6. ASSUME NEW p \in Procs, CallUpstream(p)
        PROVE  VInv'
    <2>1. /\ UNCHANGED <<req, id, at, receipt, out, admitted>>
          /\ \A q \in Procs \ {p} : waiting'[q] = waiting[q]
      BY <1>0, <1>6 DEF TypeOK, CallUpstream, buckets
    <2>2. (\A q \in Procs \ {p} : Frame(q)) /\ Validated(p)'
      BY <2>1 DEF VInv, Frame, Validated
    <2> QED BY <1>0, <2>1, <2>2, MoveV
  <1>7. ASSUME NEW p \in Procs, CallLocal(p) \/ UpstreamReply(p) \/ FlagsTimeout(p)
        PROVE  VInv'
    <2>1. /\ UNCHANGED <<req, id, receipt, admitted>>
          /\ \A q \in Procs \ {p} : waiting'[q] = waiting[q]
      BY <1>0, <1>7 DEF TypeOK, CallLocal, UpstreamReply, FlagsTimeout, buckets
    <2>2. \E response : Answer(p, response)
      BY <1>7 DEF CallLocal, UpstreamReply, FlagsTimeout
    <2> QED BY <1>0, <2>1, <2>2, AnswerV
  <1>8. ASSUME \/ \E k \in Keys : Refill(k)
               \/ UNCHANGED vars
        PROVE  VInv'
    <2>1. UNCHANGED <<req, id, at, waiting, receipt, out, admitted>>
      BY <1>8 DEF Refill, vars
    <2>2. \A q \in Procs : Frame(q)
      BY <2>1 DEF Frame
    <2>3. \A q \in Procs : Validated(q)' /\ SparesOthers(q)'
      BY <2>1, <2>2, OthersKeepV
    <2> QED BY <1>0, <2>3 DEF VInv
  <1> QED
    BY <1>1, <1>2, <1>3, <1>4, <1>5, <1>6, <1>7, <1>8 DEF Next, Handle

\* On a route table that validates before it charges a third party, a request its
\* route rejects never costs anybody else a token, however requests interleave.
THEOREM OthersBudgetsSpared ==
    ASSUME ValidatesFirst
    PROVE  Spec => []MalformedSpendsNoOthersBudget
  <1>1. Init => VInv
    <2> SUFFICES ASSUME Init PROVE VInv
      OBVIOUS
    <2>1. ASSUME NEW p \in Procs
          PROVE  Validated(p) /\ SparesOthers(p)
      <3>1. req[p] \in Requests
        BY InitIInv DEF IInv, TypeOK
      <3>2. KeysOf(req[p]) \subseteq Keys
        BY <3>1 DEF Keys
      <3> QED BY <3>2 DEF Init, Validated, SparesOthers
    <2> QED BY <2>1, InitAInv DEF VInv
  <1>2. VInv /\ [Next]_vars => VInv'
    BY NextVInv
  <1>3. VInv => MalformedSpendsNoOthersBudget
    BY DEF VInv, SparesOthers, MalformedSpendsNoOthersBudget
  <1> QED BY <1>1, <1>2, <1>3, PTL DEF Spec

-----------------------------------------------------------------------------
\* The gateway's own route table.

\* A stage that charges nobody but the caller, and one that validates nothing.
Own(s) == ~ThirdParty(s)

Blind(s) == s.do \notin ValidationKinds

\* Only checkIdentifierLimit and the limit of /session/org charge third parties.
LEMMA StageFacts ==
    /\ \A c : c # "/session/org" => Own(Class(c)) /\ Own(IP(c)) /\ Own(Org(c))
    /\ \A c : Blind(Class(c)) /\ Blind(IP(c)) /\ Blind(Org(c))
    /\ Own(Bearer) /\ Own(JSON) /\ Own(Email) /\ Blind(Identifier)
    /\ \A c : Own(Call(c)) /\ Blind(Call(c))
  <1> USE DEF Own, Blind, ThirdParty, ValidationKinds, LimitKinds, Stage
  <1>1. \A c : c # "/session/org" => Own(Class(c))
    BY DEF Class
  <1>2. \A c : Blind(Class(c))
    BY DEF Class
  <1>3. \A c : c # "/session/org" => Own(IP(c)) /\ Own(Org(c))
    BY DEF IP, Org
  <1>4. \A c : Blind(IP(c)) /\ Blind(Org(c))
    BY DEF IP, Org
  <1>5. Own(Bearer) /\ Own(JSON) /\ Own(Email) /\ Blind(Identifier)
    BY DEF Bearer, JSON, Email, Identifier
  <1>6. \A c : Own(Call(c)) /\ Blind(Call(c))
    BY DEF Call
  <1> QED BY <1>1, <1>2, <1>3, <1>4, <1>5, <1>6

\* A handler whose validation is over when its first third-party charge comes.
LEMMA Shapes ==
    /\ \A a : Own(a) => ValidatesBefore(<<a>>)
    /\ \A a, b : Own(a) /\ Own(b) => ValidatesBefore(<<a, b>>)
    /\ \A a, b, c : Own(a) /\ Own(b) /\ Own(c) => ValidatesBefore(<<a, b, c>>)
    /\ \A a, b, c, d : Own(a) /\ Own(b) /\ Blind(c) /\ Blind(d) => ValidatesBefore(<<a, b, c, d>>)
    /\ \A a, b, c, d : Own(a) /\ Own(b) /\ Own(c) /\ Blind(d) => ValidatesBefore(<<a, b, c, d>>)
    /\ \A a, b, c, d, e :
          Own(a) /\ Own(b) /\ Own(c) /\ Blind(d) /\ Blind(e) => ValidatesBefore(<<a, b, c, d, e>>)
  BY DEF ValidatesBefore, Own, Blind

\* Two tables that validate first make one that does.
LEMMA JoinValidates ==
    ASSUME NEW f, NEW g, AllValidate(f), AllValidate(g)
    PROVE  AllValidate(Join(f, g))
  BY DEF AllValidate, Join

\* Every route of the gateway validates before it charges a third party.
LEMMA RoutesValidate == AllValidate(RouteTable)
  <1>1. AllValidate(StaticRoutes) /\ AllValidate(OpenAPIRoutes) /\ AllValidate(JWKSRoute)
    BY StageFacts, Shapes DEF AllValidate, StaticRoutes, OpenAPIRoutes, JWKSRoute
  <1>2. AllValidate(AuthRoutes)
    BY StageFacts, Shapes DEF AllValidate, AuthRoutes
  <1>3. AllValidate(SignupRoutes) /\ AllValidate(FlagsRoute) /\ AllValidate(TenantRoute)
    <2>1. /\ ValidatesBefore(<<IP("/auth/signup"), JSON, Call("signup")>>)
          /\ ValidatesBefore(<<IP("/auth/signup/verify"), JSON, Call("signup")>>)
          /\ ValidatesBefore(<<IP("/flags"), Call("flags")>>)
          /\ ValidatesBefore(<<IP("/public/tenants/{slug}"), Call("tenant")>>)
      BY StageFacts, Shapes
    <2>2. PICK v, w, x, y :
              /\ v = <<IP("/auth/signup"), JSON, Call("signup")>>
              /\ w = <<IP("/auth/signup/verify"), JSON, Call("signup")>>
              /\ x = <<IP("/flags"), Call("flags")>>
              /\ y = <<IP("/public/tenants/{slug}"), Call("tenant")>>
      OBVIOUS
    <2>3. SignupRoutes = [signup |-> v, signup_verify |-> w]
      BY <2>2 DEF SignupRoutes
    <2>4. FlagsRoute = [flags |-> x] /\ TenantRoute = [tenant |-> y]
      BY <2>2 DEF FlagsRoute, TenantRoute
    <2>5. ValidatesBefore(v) /\ ValidatesBefore(w) /\ ValidatesBefore(x) /\ ValidatesBefore(y)
      BY <2>1, <2>2
    <2> QED BY <2>3, <2>4, <2>5 DEF AllValidate
  <1>4. AllValidate(PlaneRoutes)
    <2>1. \A c : c # "/session/org" => /\ ValidatesBefore(challenge(c))
                                       /\ ValidatesBefore(verifyChallenge(c))
                                       /\ ValidatesBefore(claim(c))
      BY StageFacts, Shapes DEF challenge, verifyChallenge, claim
    <2> QED BY <2>1 DEF AllValidate, PlaneRoutes
  <1>5. \A c : c # "/session/org" =>
              /\ ValidatesBefore(<<IP(c), Bearer, Call("org")>>)
              /\ ValidatesBefore(<<IP(c), Bearer, JSON, Call("org")>>)
              /\ ValidatesBefore(<<Org(c), Bearer, Call("org")>>)
              /\ ValidatesBefore(<<Org(c), Bearer, JSON, Call("org")>>)
    BY StageFacts, Shapes
  <1>6. AllValidate(OrgRoutes)
    <2>1. /\ ValidatesBefore(<<IP("/orgs"), Bearer, Call("org")>>)
          /\ ValidatesBefore(<<IP("/orgs"), Bearer, JSON, Call("org")>>)
          /\ ValidatesBefore(<<Org("/orgs/{org_id}/slug"), Bearer, JSON, Call("org")>>)
      BY <1>5
    <2>2. PICK v, w, x :
              /\ v = <<IP("/orgs"), Bearer, Call("org")>>
              /\ w = <<IP("/orgs"), Bearer, JSON, Call("org")>>
              /\ x = <<Org("/orgs/{org_id}/slug"), Bearer, JSON, Call("org")>>
      OBVIOUS
    <2>3. OrgRoutes = [org_list |-> v, org_create |-> w, org_slug |-> x]
      BY <2>2 DEF OrgRoutes
    <2>4. ValidatesBefore(v) /\ ValidatesBefore(w) /\ ValidatesBefore(x)
      BY <2>1, <2>2
    <2> QED BY <2>3, <2>4 DEF AllValidate
  <1>7. AllValidate(MemberRoutes)
    <2>1. /\ ValidatesBefore(<<Org("/orgs/{org_id}/members"), Bearer, Call("org")>>)
          /\ ValidatesBefore(<<Org("/orgs/{org_id}/members"), Bearer, JSON, Call("org")>>)
          /\ ValidatesBefore(<<Org("/orgs/{org_id}/members/{user_id}/role"), Bearer, JSON, Call("org")>>)
      BY <1>5
    <2>2. PICK v, w, x :
              /\ v = <<Org("/orgs/{org_id}/members"), Bearer, Call("org")>>
              /\ w = <<Org("/orgs/{org_id}/members"), Bearer, JSON, Call("org")>>
              /\ x = <<Org("/orgs/{org_id}/members/{user_id}/role"), Bearer, JSON, Call("org")>>
      OBVIOUS
    <2>3. MemberRoutes = [member_list |-> v, member_add |-> w, member_remove |-> v, member_suspend |-> v, member_role |-> x]
      BY <2>2 DEF MemberRoutes
    <2>4. ValidatesBefore(v) /\ ValidatesBefore(w) /\ ValidatesBefore(x)
      BY <2>1, <2>2
    <2> QED BY <2>3, <2>4 DEF AllValidate
  <1>8. AllValidate(InviteRoutes)
    <2>1. /\ ValidatesBefore(<<Org("/orgs/{org_id}/invites"), Bearer, JSON, Call("org")>>)
          /\ ValidatesBefore(<<Org("/orgs/{org_id}/invites"), Bearer, Call("org")>>)
          /\ ValidatesBefore(<<Org("/orgs/{org_id}/invites/{invite_id}"), Bearer, Call("org")>>)
          /\ ValidatesBefore(<<IP("/invites/accept"), Bearer, JSON, Call("org")>>)
      BY <1>5
    <2>2. PICK v, w, x, y :
              /\ v = <<Org("/orgs/{org_id}/invites"), Bearer, JSON, Call("org")>>
              /\ w = <<Org("/orgs/{org_id}/invites"), Bearer, Call("org")>>
              /\ x = <<Org("/orgs/{org_id}/invites/{invite_id}"), Bearer, Call("org")>>
              /\ y = <<IP("/invites/accept"), Bearer, JSON, Call("org")>>
      OBVIOUS
    <2>3. InviteRoutes = [invite_create |-> v, invite_list |-> w, invite_revoke |-> x, invite_accept |-> y]
      BY <2>2 DEF InviteRoutes
    <2>4. ValidatesBefore(v) /\ ValidatesBefore(w) /\ ValidatesBefore(x) /\ ValidatesBefore(y)
      BY <2>1, <2>2
    <2> QED BY <2>3, <2>4 DEF AllValidate
  <1>9. AllValidate(SessionRoute)
    BY StageFacts, Shapes DEF AllValidate, SessionRoute
  <1>10. AllValidate(PlainRoutes)
    <2>1. /\ AllValidate(Join(Join(StaticRoutes, OpenAPIRoutes), Join(JWKSRoute, AuthRoutes)))
          /\ AllValidate(Join(Join(SignupRoutes, FlagsRoute), Join(TenantRoute, PlaneRoutes)))
      BY <1>1, <1>2, <1>3, <1>4, JoinValidates
    <2> QED BY <2>1, JoinValidates DEF PlainRoutes
  <1>11. AllValidate(AccountRoutes)
    BY <1>6, <1>7, <1>8, <1>9, JoinValidates DEF AccountRoutes
  <1> QED BY <1>10, <1>11, JoinValidates DEF RouteTable

\* On the gateway's own routes a malformed request spends nobody else's budget.
THEOREM GatewaySparesOthers ==
    ASSUME Pipeline = RouteTable
    PROVE  Spec => []MalformedSpendsNoOthersBudget
  BY RoutesValidate, OthersBudgetsSpared DEF ValidatesFirst
=============================================================================
