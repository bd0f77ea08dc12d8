--------------------------- MODULE IndexerProofs ---------------------------
(***************************************************************************)
(* Proofs about the Indexer pipeline, for every set of requests, workers   *)
(* and enabled ingestors and every queue capacity.                         *)
(***************************************************************************)
EXTENDS Indexer, SequenceTheorems, TLAPS

USE IngestorsAssumption, QueueAssumption, NoReqAssumption

-----------------------------------------------------------------------------
(* Type correctness.  The one conjunct that is more than a type is         *)
(* Len(queue) <= MaxQueueSize, kept by try_send's QueueFull check.         *)
-----------------------------------------------------------------------------

LEMMA TrySendTypeOK ==
  ASSUME TypeOK, NEW i \in Ingestors, IngestorTrySend(i)
  PROVE  TypeOK'
<1> DEFINE r == holding[i]
<1>1. r \in Requests
  BY DEF IngestorTrySend, TypeOK
<1>2. TrySendOutcome \in ReqStates
  BY DEF TrySendOutcome, ReqStates
<1>3. queue' \in Seq(Requests) /\ Len(queue') <= MaxQueueSize
  <2>1. CASE TrySendOutcome = "queued"
    <3>1. Len(queue) < MaxQueueSize
      BY <2>1 DEF TrySendOutcome
    <3>2. queue' = Append(queue, r)
      BY <2>1 DEF IngestorTrySend
    <3>. QED BY <1>1, <3>1, <3>2, AppendProperties DEF TypeOK
  <2>2. CASE TrySendOutcome # "queued"
    BY <2>2 DEF IngestorTrySend, TypeOK
  <2>. QED BY <2>1, <2>2
<1>. QED BY <1>1, <1>2, <1>3 DEF IngestorTrySend, TypeOK, probeVars, Probe!ProbeTypeOK

LEMMA RecvTypeOK ==
  ASSUME TypeOK, NEW w \in Workers, WorkerRecv(w)
  PROVE  TypeOK'
<1>1. Head(queue) \in Requests /\ Tail(queue) \in Seq(Requests)
      /\ Len(Tail(queue)) = Len(queue) - 1
  BY HeadTailProperties DEF WorkerRecv, TypeOK
<1>. QED BY <1>1 DEF WorkerRecv, TypeOK, ReqStates, probeVars, Probe!ProbeTypeOK

LEMMA ProbeStepTypeOK ==
  ASSUME TypeOK, ProbeStep
  PROVE  TypeOK'
<1>1. UNCHANGED <<online, sig, idxPc, idxStatus, srvPc, srvStatus, queue,
                  qClosed, ingPc, holding, wPc, busy, req>>
  BY DEF ProbeStep, ProbeTask
<1>2. online' \in BOOLEAN /\ qClosed' \in BOOLEAN
  BY <1>1, Zenon DEF TypeOK
<1>3. exitCode' \in {1, exitCode}
  BY DEF ProbeStep, ProbeTask, Probe!Next, Probe!RequestFail,
         Probe!RequestHeaders, Probe!BodyOk, Probe!BodyFail, Probe!Sleep, Probe!Tick
<1>4. Probe!ProbeTypeOK'
  <2>0. Probe!Next
    BY DEF ProbeStep, ProbeTask
  <2>1. ASSUME NEW f \in Probe!Families,
               Probe!RequestFail(f) \/ Probe!RequestHeaders(f)
        PROVE  Probe!ProbeTypeOK'
    <3>1. log' = Append(log, f) /\ UNCHANGED <<round, uri>>
      BY <2>1 DEF Probe!RequestFail, Probe!RequestHeaders
    <3>2. log' \in Seq(Probe!Families)
      BY <3>1, AppendProperties DEF TypeOK, Probe!ProbeTypeOK
    <3>3. probePc' \in {"v6req", "sleep", "v4body", "v6body"}
      BY <2>1 DEF Probe!RequestFail, Probe!RequestHeaders, Probe!AfterFailure,
                  Probe!BodyPc
    <3>. QED BY <3>1, <3>2, <3>3 DEF TypeOK, Probe!ProbeTypeOK
  <2>2. ASSUME NEW f \in Probe!Families, Probe!BodyOk(f) \/ Probe!BodyFail(f)
        PROVE  Probe!ProbeTypeOK'
    BY <2>2 DEF TypeOK, Probe!ProbeTypeOK, Probe!BodyOk, Probe!BodyFail,
                Probe!AfterFailure, Probe!Families
  <2>3. CASE Probe!Sleep \/ Probe!Tick
    BY <2>3 DEF TypeOK, Probe!ProbeTypeOK, Probe!Sleep, Probe!Tick
  <2>. QED BY <2>0, <2>1, <2>2, <2>3 DEF Probe!Next
<1>. QED BY <1>1, <1>2, <1>3, <1>4 DEF TypeOK

LEMMA TypeInit == Init => TypeOK
<1> SUFFICES ASSUME Init PROVE TypeOK
  OBVIOUS
<1>1. online \in BOOLEAN /\ qClosed \in BOOLEAN
  BY DEF Init
<1>2. queue \in Seq(Requests) /\ Len(queue) <= MaxQueueSize
  BY DEF Init
<1>3. req \in [Requests -> ReqStates]
  BY DEF Init, ReqStates
<1>4. Probe!ProbeTypeOK
  BY DEF Init, Probe!Init, Probe!ProbeTypeOK
<1>. QED BY <1>1, <1>2, <1>3, <1>4 DEF Init, TypeOK

LEMMA TypeStep == TypeOK /\ [Next]_vars => TypeOK'
<1> SUFFICES ASSUME TypeOK, [Next]_vars PROVE TypeOK'
  OBVIOUS
<1>0. online' \in BOOLEAN /\ qClosed' \in BOOLEAN
  BY Zenon DEF TypeOK, Next, vars, IndexerStep, IndexerNew, ProbeStep, ProbeTask, Shutdown,
     IndexerServe, IndexerCheckShutdown, IndexerFinish, SignalStore,
     SignalExit, IngestorStep, IngestorServe, IngestorTick, IngestorTrySend,
     AcceptAtShutdown, Accept, NymReject, WorkerStep, WorkerRecv,
     WorkerRespond, WorkerClose, ServerCloseQueue, ServerDone
<1>p. Probe!ProbeTypeOK'
  <2>1. ProbeStep \/ UNCHANGED probeVars
    BY Zenon DEF Next, vars, IndexerStep, IndexerNew, ProbeStep, ProbeTask, Shutdown,
       IndexerServe, IndexerCheckShutdown, IndexerFinish, SignalStore,
       SignalExit, IngestorStep, IngestorServe, IngestorTick, IngestorTrySend,
       AcceptAtShutdown, Accept, NymReject, WorkerStep, WorkerRecv,
       WorkerRespond, WorkerClose, ServerCloseQueue, ServerDone
  <2>. QED BY <2>1, ProbeStepTypeOK DEF TypeOK, probeVars, Probe!ProbeTypeOK
<1>1. CASE IndexerStep
  <2>1. CASE ProbeStep
    BY <2>1, ProbeStepTypeOK
  <2>2. CASE IndexerNew \/ Shutdown \/ IndexerServe \/ IndexerCheckShutdown
             \/ IndexerFinish
    BY <1>0, <1>p, <2>2 DEF IndexerNew, Shutdown, IndexerServe,
                            IndexerCheckShutdown, IndexerFinish, TypeOK
  <2>. QED BY <1>1, <2>1, <2>2 DEF IndexerStep
<1>2. CASE SignalStore \/ SignalExit
  BY <1>0, <1>p, <1>2 DEF SignalStore, SignalExit, TypeOK
<1>3. ASSUME NEW i \in Ingestors, IngestorStep(i) PROVE TypeOK'
  <2>1. CASE IngestorTrySend(i)
    BY <2>1, TrySendTypeOK
  <2>2. CASE IngestorServe(i) \/ IngestorTick(i)
    BY <1>0, <1>p, <2>2 DEF IngestorServe, IngestorTick, TypeOK
  <2>3. CASE \E r \in Requests : AcceptAtShutdown(i, r) \/ Accept(i, r) \/ NymReject(i, r)
    BY <1>0, <1>p, <2>3 DEF AcceptAtShutdown, Accept, NymReject, TypeOK, ReqStates
  <2>. QED BY <1>3, <2>1, <2>2, <2>3 DEF IngestorStep
<1>4. ASSUME NEW w \in Workers, WorkerStep(w) PROVE TypeOK'
  <2>1. CASE WorkerRecv(w)
    BY <2>1, RecvTypeOK
  <2>2. CASE WorkerRespond(w)
    BY <1>0, <1>p, <2>2 DEF WorkerRespond, TypeOK, ReqStates
  <2>3. CASE WorkerClose(w)
    BY <1>0, <1>p, <2>3 DEF WorkerClose, TypeOK
  <2>. QED BY <1>4, <2>1, <2>2, <2>3 DEF WorkerStep
<1>5. CASE ServerCloseQueue \/ ServerDone
  BY <1>0, <1>p, <1>5 DEF ServerCloseQueue, ServerDone, TypeOK
<1>6. CASE UNCHANGED vars
  BY <1>0, <1>p, <1>6 DEF vars, TypeOK
<1>. QED BY <1>1, <1>2, <1>3, <1>4, <1>5, <1>6 DEF Next

(* Spec => []TypeOK: every state the indexer reaches is well typed and the *)
(* queue never exceeds max_queue_size (try_send's QueueFull check).        *)
THEOREM TypeCorrect == Spec => []TypeOK
BY TypeInit, TypeStep, PTL DEF Spec

-----------------------------------------------------------------------------
(* Request ownership, the part of the inductive invariant that the        *)
(* cascade proofs need: each request's recorded state names its single     *)
(* owner (an ingestor between accept and try_send, one queue slot, or one  *)
(* working worker).  It is not inductive by itself: the steps that create  *)
(* the ingestors (IndexerNew) and the workers (IndexerServe) would reset a *)
(* slot that held a request.  Before those steps no ingestor or worker     *)
(* exists, which is the strengthening NotYetSpawned.                       *)
-----------------------------------------------------------------------------
Held(r) == \E i \in Ingestors : holding[i] = r
Queued(r) == \E k \in 1..Len(queue) : queue[k] = r
InService(r) == \E w \in Workers : busy[w] = r

RequestOwnership ==
  /\ \A r \in Requests : req[r] = "held" <=> Held(r)
  /\ \A r \in Requests : req[r] = "queued" <=> Queued(r)
  /\ \A r \in Requests : req[r] = "serving" <=> InService(r)
  /\ IsInjective(queue)
  /\ \A i, j \in Ingestors : holding[i] = holding[j] /\ holding[i] # NoReq => i = j
  /\ \A v, w \in Workers : busy[v] = busy[w] /\ busy[v] # NoReq => v = w
  /\ \A i \in Ingestors : holding[i] # NoReq => ingPc[i] = "listening"
  /\ \A w \in Workers : busy[w] # NoReq <=> wPc[w] = "working"

NotYetSpawned ==
  /\ idxPc = "new" => \A i \in Ingestors : ingPc[i] = "none"
  /\ idxPc \in {"new", "built"} => \A w \in Workers : wPc[w] = "none"

IInv == TypeOK /\ RequestOwnership /\ NotYetSpawned

(* Membership in a sequence, as Queued uses it. *)
InSeq(s, e) == \E k \in 1..Len(s) : s[k] = e

LEMMA InSeqAppend ==
  ASSUME NEW S, NEW s \in Seq(S), NEW e \in S, NEW x
  PROVE  InSeq(Append(s, e), x) <=> InSeq(s, x) \/ x = e
BY AppendProperties DEF InSeq

LEMMA InSeqTail ==
  ASSUME NEW S, NEW s \in Seq(S), s # <<>>, IsInjective(s), NEW x
  PROVE  /\ InSeq(Tail(s), x) <=> InSeq(s, x) /\ x # Head(s)
         /\ IsInjective(Tail(s))
<1>1. Len(s) >= 1 /\ Head(s) = s[1] /\ DOMAIN s = 1..Len(s)
  BY EmptySeq, LenProperties
<1>2. /\ Len(Tail(s)) = Len(s) - 1
      /\ DOMAIN Tail(s) = 1..Len(s) - 1
      /\ \A k \in 1..Len(s) - 1 : Tail(s)[k] = s[k + 1]
  BY <1>1, HeadTailProperties
<1>3. \A a, b \in DOMAIN s : s[a] = s[b] => a = b
  BY DEF IsInjective
<1>4. InSeq(Tail(s), x) <=> InSeq(s, x) /\ x # Head(s)
  <2>1. InSeq(Tail(s), x) => InSeq(s, x) /\ x # Head(s)
    BY <1>1, <1>2, <1>3 DEF InSeq
  <2>2. InSeq(s, x) /\ x # Head(s) => InSeq(Tail(s), x)
    <3> SUFFICES ASSUME NEW k \in 1..Len(s), s[k] = x, x # Head(s)
                 PROVE  InSeq(Tail(s), x)
      BY DEF InSeq
    <3>1. k # 1 BY <1>1
    <3>. QED BY <3>1, <1>2 DEF InSeq
  <2>. QED BY <2>1, <2>2
<1>5. IsInjective(Tail(s))
  BY <1>2, <1>3 DEF IsInjective
<1>. QED BY <1>4, <1>5

LEMMA InjectiveAppend ==
  ASSUME NEW S, NEW s \in Seq(S), NEW e \in S, IsInjective(s), ~InSeq(s, e)
  PROVE  IsInjective(Append(s, e))
BY AppendProperties DEF InSeq, IsInjective

LEMMA OwnInit == Init => IInv
<1> SUFFICES ASSUME Init PROVE IInv
  OBVIOUS
<1>1. TypeOK BY TypeInit
<1>2. RequestOwnership
  BY DEF Init, RequestOwnership, Held, Queued, InService, IsInjective
<1>3. NotYetSpawned BY DEF Init, NotYetSpawned
<1>. QED BY <1>1, <1>2, <1>3 DEF IInv

(* Steps that leave every request slot, the queue and all tasks as they    *)
(* were: the probe, Shutdown, the serve-loop steps, the handler, the        *)
(* server's closing steps.                                                 *)
LEMMA OwnFrame ==
  ASSUME IInv,
         \/ ProbeStep \/ Shutdown \/ IndexerCheckShutdown \/ IndexerFinish
         \/ SignalStore \/ SignalExit \/ ServerCloseQueue \/ ServerDone
  PROVE  RequestOwnership' /\ NotYetSpawned'
<1>1. UNCHANGED <<queue, ingPc, holding, wPc, busy, req>>
  BY DEF ProbeStep, ProbeTask, Shutdown, IndexerCheckShutdown, IndexerFinish,
         SignalStore, SignalExit, ServerCloseQueue, ServerDone
<1>2. idxPc' = idxPc \/ idxPc' \in {"closing", "done"}
  BY DEF ProbeStep, ProbeTask, Shutdown, IndexerCheckShutdown, IndexerFinish,
         SignalStore, SignalExit, ServerCloseQueue, ServerDone
<1>3. RequestOwnership'
  BY <1>1 DEF IInv, RequestOwnership, Held, Queued, InService, IsInjective
<1>4. NotYetSpawned'
  BY <1>1, <1>2 DEF IInv, NotYetSpawned
<1>. QED BY <1>3, <1>4

(* Indexer::new binds the ingestors: none existed, so none held anything.  *)
LEMMA OwnNew ==
  ASSUME IInv, IndexerNew
  PROVE  RequestOwnership' /\ NotYetSpawned'
<1>1. \A i \in Ingestors : holding[i] = NoReq
  BY DEF IInv, IndexerNew, NotYetSpawned, RequestOwnership
<1>2. RequestOwnership'
  BY <1>1 DEF IInv, TypeOK, IndexerNew, RequestOwnership, Held, Queued,
              InService, IsInjective
<1>3. NotYetSpawned'
  BY DEF IInv, IndexerNew, NotYetSpawned
<1>. QED BY <1>2, <1>3

(* Indexer::serve starts the workers: none existed, so none was busy.      *)
LEMMA OwnServe ==
  ASSUME IInv, IndexerServe
  PROVE  RequestOwnership' /\ NotYetSpawned'
<1>1. \A w \in Workers : busy[w] = NoReq
  BY DEF IInv, IndexerServe, NotYetSpawned, RequestOwnership
<1>2. RequestOwnership'
  BY <1>1 DEF IInv, TypeOK, IndexerServe, RequestOwnership, Held, Queued,
              InService, IsInjective
<1>3. NotYetSpawned'
  BY DEF IInv, IndexerServe, NotYetSpawned
<1>. QED BY <1>2, <1>3

(* An ingestor's own status change with its slot empty: starting to listen, *)
(* returning on the tick, returning as it accepts after shutdown, failing   *)
(* on a malformed Nym message.                                              *)
LEMMA OwnIngestorQuiet ==
  ASSUME IInv, NEW i \in Ingestors,
         \/ IngestorServe(i) \/ IngestorTick(i)
         \/ \E r \in Requests : AcceptAtShutdown(i, r) \/ NymReject(i, r)
  PROVE  RequestOwnership' /\ NotYetSpawned'
<1>1. /\ UNCHANGED <<queue, holding, wPc, busy, idxPc>>
      /\ ingPc' \in [Ingestors -> {"listening", "returned", "failed", "spawned", "none"}]
      /\ \A j \in Ingestors \ {i} : ingPc'[j] = ingPc[j]
      /\ ingPc[i] # "none"
      /\ ingPc'[i] # "listening" => holding[i] = NoReq
  BY DEF IInv, TypeOK, IngestorServe, IngestorTick, AcceptAtShutdown, NymReject
<1>2. \/ req' = req
      \/ \E r \in Requests : req[r] = "new" /\ req[r]' \notin {"held", "queued", "serving"}
                             /\ req' = [req EXCEPT ![r] = req'[r]]
  BY DEF IInv, TypeOK, IngestorServe, IngestorTick, AcceptAtShutdown, NymReject
<1>3. idxPc # "new"
  BY <1>1 DEF IInv, NotYetSpawned
<1>4. \A r \in Requests : req[r] = "new" => ~Held(r) /\ ~Queued(r) /\ ~InService(r)
  BY DEF IInv, RequestOwnership
<1>5. RequestOwnership'
  BY <1>1, <1>2, <1>4 DEF IInv, TypeOK, RequestOwnership, Held, Queued,
                          InService, IsInjective
<1>6. NotYetSpawned'
  BY <1>1, <1>3 DEF IInv, NotYetSpawned
<1>. QED BY <1>5, <1>6

(* accept: a new request enters an empty slot of a listening ingestor.     *)
LEMMA OwnAccept ==
  ASSUME IInv, NEW i \in Ingestors, NEW r \in Requests, Accept(i, r)
  PROVE  RequestOwnership' /\ NotYetSpawned'
<1>1. /\ holding[i] = NoReq /\ ingPc[i] = "listening" /\ req[r] = "new"
      /\ holding' = [holding EXCEPT ![i] = r] /\ req' = [req EXCEPT ![r] = "held"]
      /\ UNCHANGED <<queue, ingPc, wPc, busy, idxPc>>
  BY DEF Accept
<1>2. ~Held(r) /\ ~Queued(r) /\ ~InService(r)
  BY <1>1 DEF IInv, RequestOwnership
<1>3. \A s \in Requests : Held(s)' <=> Held(s) \/ s = r
  BY <1>1, NoReqAssumption DEF IInv, TypeOK, Held
<1>4. \A s \in Requests : req'[s] = "held" <=> Held(s)'
  BY <1>1, <1>3 DEF IInv, TypeOK, RequestOwnership
<1>5. \A j, k \in Ingestors : holding'[j] = holding'[k] /\ holding'[j] # NoReq => j = k
  BY <1>1, <1>2 DEF IInv, TypeOK, RequestOwnership, Held
<1>6. RequestOwnership'
  BY <1>1, <1>4, <1>5 DEF IInv, TypeOK, RequestOwnership, Queued, InService
<1>7. NotYetSpawned'
  BY <1>1 DEF IInv, NotYetSpawned
<1>. QED BY <1>6, <1>7

(* try_send: the held request moves into the queue (Ok) or is dropped       *)
(* (QueueFull, Closed); either way the ingestor's slot is emptied.          *)
LEMMA OwnTrySend ==
  ASSUME IInv, NEW i \in Ingestors, IngestorTrySend(i)
  PROVE  RequestOwnership' /\ NotYetSpawned'
<1> DEFINE r == holding[i]
<1>1. /\ r \in Requests /\ req[r] = "held"
      /\ holding' = [holding EXCEPT ![i] = NoReq]
      /\ req' = [req EXCEPT ![r] = TrySendOutcome]
      /\ UNCHANGED <<ingPc, wPc, busy, idxPc>>
  BY DEF IngestorTrySend, IInv, TypeOK, RequestOwnership, Held
<1>2. ~Queued(r) /\ ~InService(r) /\ ~InSeq(queue, r)
  BY <1>1 DEF IInv, RequestOwnership, Queued, InSeq
<1>3. \A s \in Requests : Held(s)' <=> Held(s) /\ s # r
  BY <1>1, NoReqAssumption DEF IInv, TypeOK, RequestOwnership, Held
<1>4. \A s \in Requests : req'[s] = "held" <=> Held(s)'
  BY <1>1, <1>3 DEF IInv, TypeOK, RequestOwnership, TrySendOutcome
<1>5. \A s \in Requests : req'[s] = "serving" <=> InService(s)'
  BY <1>1, <1>2 DEF IInv, TypeOK, RequestOwnership, InService, TrySendOutcome
<1>6. /\ \A s \in Requests : req'[s] = "queued" <=> Queued(s)'
      /\ IsInjective(queue')
  <2>1. CASE TrySendOutcome = "queued"
    <3>1. queue' = Append(queue, r)
      BY <2>1 DEF IngestorTrySend
    <3>2. \A s \in Requests : InSeq(queue', s) <=> InSeq(queue, s) \/ s = r
      BY <3>1, <1>1, InSeqAppend DEF IInv, TypeOK
    <3>3. \A s \in Requests : req'[s] = "queued" <=> Queued(s)'
      BY <2>1, <3>2, <1>1 DEF IInv, TypeOK, RequestOwnership, Queued, InSeq
    <3>4. IsInjective(queue')
      BY <3>1, <1>1, <1>2, InjectiveAppend DEF IInv, TypeOK, RequestOwnership
    <3>. QED BY <3>3, <3>4
  <2>2. CASE TrySendOutcome # "queued"
    <3>1. queue' = queue /\ req'[r] \in {"full", "closed"}
      BY <2>2, <1>1 DEF IngestorTrySend, TrySendOutcome, IInv, TypeOK
    <3>. QED BY <3>1, <1>1, <1>2 DEF IInv, TypeOK, RequestOwnership, Queued
  <2>. QED BY <2>1, <2>2
<1>7. \A j, k \in Ingestors : holding'[j] = holding'[k] /\ holding'[j] # NoReq => j = k
  BY <1>1 DEF IInv, TypeOK, RequestOwnership
<1>8. RequestOwnership'
  BY <1>1, <1>4, <1>5, <1>6, <1>7 DEF IInv, TypeOK, RequestOwnership
<1>9. NotYetSpawned'
  BY <1>1 DEF IInv, NotYetSpawned
<1>. QED BY <1>8, <1>9

(* A standby worker takes the head of the queue into service.              *)
LEMMA OwnRecv ==
  ASSUME IInv, NEW w \in Workers, WorkerRecv(w)
  PROVE  RequestOwnership' /\ NotYetSpawned'
<1> DEFINE h == Head(queue)
<1>1. /\ queue \in Seq(Requests) /\ queue # <<>> /\ IsInjective(queue)
      /\ h \in Requests /\ InSeq(queue, h)
  <2>1. Len(queue) >= 1 /\ h = queue[1]
    BY EmptySeq, LenProperties DEF IInv, TypeOK, WorkerRecv
  <2>. QED BY <2>1, HeadTailProperties DEF IInv, TypeOK, RequestOwnership,
              WorkerRecv, InSeq
<1>2. /\ req[h] = "queued" /\ busy[w] = NoReq /\ ~InService(h) /\ ~Held(h)
  BY <1>1 DEF IInv, RequestOwnership, Queued, InSeq, WorkerRecv
<1>3. /\ busy' = [busy EXCEPT ![w] = h] /\ req' = [req EXCEPT ![h] = "serving"]
      /\ wPc' = [wPc EXCEPT ![w] = "working"] /\ queue' = Tail(queue)
      /\ UNCHANGED <<ingPc, holding, idxPc>>
  BY DEF WorkerRecv
<1>4. /\ \A s \in Requests : InSeq(queue', s) <=> InSeq(queue, s) /\ s # h
      /\ IsInjective(queue')
  BY <1>1, <1>3, InSeqTail
<1>5. \A s \in Requests : InService(s)' <=> InService(s) \/ s = h
  BY <1>2, <1>3, NoReqAssumption DEF IInv, TypeOK, InService
<1>6. \A s \in Requests : req'[s] = "queued" <=> Queued(s)'
  BY <1>1, <1>3, <1>4 DEF IInv, TypeOK, RequestOwnership, Queued, InSeq
<1>7. \A s \in Requests : req'[s] = "serving" <=> InService(s)'
  BY <1>3, <1>5 DEF IInv, TypeOK, RequestOwnership
<1>8. \A s \in Requests : req'[s] = "held" <=> Held(s)'
  BY <1>2, <1>3 DEF IInv, TypeOK, RequestOwnership, Held
<1>9. /\ \A v, x \in Workers : busy'[v] = busy'[x] /\ busy'[v] # NoReq => v = x
      /\ \A v \in Workers : busy'[v] # NoReq <=> wPc'[v] = "working"
  BY <1>1, <1>2, <1>3 DEF IInv, TypeOK, RequestOwnership, InService
<1>10. RequestOwnership'
  BY <1>3, <1>4, <1>6, <1>7, <1>8, <1>9 DEF IInv, RequestOwnership
<1>11. NotYetSpawned'
  <2>1. idxPc \notin {"new", "built"}
    BY DEF IInv, NotYetSpawned, WorkerRecv
  <2>. QED BY <2>1, <1>3 DEF NotYetSpawned
<1>. QED BY <1>10, <1>11

(* A working worker answers and returns to standby.                        *)
LEMMA OwnRespond ==
  ASSUME IInv, NEW w \in Workers, WorkerRespond(w)
  PROVE  RequestOwnership' /\ NotYetSpawned'
<1> DEFINE b == busy[w]
<1>1. /\ b \in Requests /\ req[b] = "serving" /\ ~Held(b) /\ ~Queued(b)
  BY NoReqAssumption DEF IInv, TypeOK, RequestOwnership, WorkerRespond, InService
<1>2. /\ busy' = [busy EXCEPT ![w] = NoReq] /\ req' = [req EXCEPT ![b] = "answered"]
      /\ wPc' = [wPc EXCEPT ![w] = "standby"]
      /\ UNCHANGED <<queue, ingPc, holding, idxPc>>
  BY DEF WorkerRespond
<1>3. \A s \in Requests : InService(s)' <=> InService(s) /\ s # b
  BY <1>1, <1>2, NoReqAssumption DEF IInv, TypeOK, RequestOwnership, InService
<1>4. RequestOwnership'
  BY <1>1, <1>2, <1>3 DEF IInv, TypeOK, RequestOwnership, Held, Queued
<1>5. NotYetSpawned'
  <2>1. idxPc \notin {"new", "built"}
    BY DEF IInv, NotYetSpawned, WorkerRespond
  <2>. QED BY <2>1, <1>2 DEF NotYetSpawned
<1>. QED BY <1>4, <1>5

(* A standby worker finds the queue closed and empty and goes offline.     *)
LEMMA OwnClose ==
  ASSUME IInv, NEW w \in Workers, WorkerClose(w)
  PROVE  RequestOwnership' /\ NotYetSpawned'
<1>1. busy[w] = NoReq /\ wPc' = [wPc EXCEPT ![w] = "offline"]
      /\ UNCHANGED <<queue, ingPc, holding, busy, req, idxPc>>
  BY DEF IInv, TypeOK, RequestOwnership, WorkerClose
<1>2. \A v \in Workers : busy'[v] # NoReq <=> wPc'[v] = "working"
  BY <1>1 DEF IInv, TypeOK, RequestOwnership
<1>3. RequestOwnership'
  BY <1>1, <1>2 DEF IInv, RequestOwnership, Held, Queued, InService, IsInjective
<1>4. NotYetSpawned'
  <2>1. idxPc \notin {"new", "built"}
    BY DEF IInv, NotYetSpawned, WorkerClose
  <2>. QED BY <2>1, <1>1 DEF NotYetSpawned
<1>. QED BY <1>3, <1>4

LEMMA OwnStep == IInv /\ [Next]_vars => IInv'
<1> SUFFICES ASSUME IInv, [Next]_vars PROVE IInv'
  OBVIOUS
<1>0. TypeOK'
  BY TypeStep DEF IInv
<1>1. RequestOwnership' /\ NotYetSpawned'
  <2>1. CASE IndexerNew
    BY <2>1, OwnNew
  <2>2. CASE IndexerServe
    BY <2>2, OwnServe
  <2>3. CASE \/ ProbeStep \/ Shutdown \/ IndexerCheckShutdown \/ IndexerFinish
             \/ SignalStore \/ SignalExit \/ ServerCloseQueue \/ ServerDone
    BY <2>3, OwnFrame
  <2>4. ASSUME NEW i \in Ingestors, IngestorStep(i)
        PROVE  RequestOwnership' /\ NotYetSpawned'
    <3>1. CASE IngestorTrySend(i)
      BY <3>1, OwnTrySend
    <3>2. CASE \E r \in Requests : Accept(i, r)
      BY <3>2, OwnAccept
    <3>3. CASE \/ IngestorServe(i) \/ IngestorTick(i)
               \/ \E r \in Requests : AcceptAtShutdown(i, r) \/ NymReject(i, r)
      BY <3>3, OwnIngestorQuiet
    <3>. QED BY <2>4, <3>1, <3>2, <3>3 DEF IngestorStep
  <2>5. ASSUME NEW w \in Workers, WorkerStep(w)
        PROVE  RequestOwnership' /\ NotYetSpawned'
    BY <2>5, OwnRecv, OwnRespond, OwnClose DEF WorkerStep
  <2>6. CASE UNCHANGED vars
    BY <2>6 DEF vars, IInv, RequestOwnership, NotYetSpawned, Held, Queued,
                InService, IsInjective
  <2>. QED BY <2>1, <2>2, <2>3, <2>4, <2>5, <2>6 DEF Next, IndexerStep
<1>. QED BY <1>0, <1>1 DEF IInv

=============================================================================
