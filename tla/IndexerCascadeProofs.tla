------------------------- MODULE IndexerCascadeProofs -------------------------
(***************************************************************************)
(* The shutdown cascade, proved for every set of requests, workers and     *)
(* enabled ingestors and every queue capacity: no request is dropped into  *)
(* a closed queue (NoClosedDrop), and the status 5 that Indexer::serve     *)
(* reports after shutdown_components is only read once everything drained *)
(* (DrainedWhenOffline).                                                   *)
(***************************************************************************)
EXTENDS IndexerProofs

USE IngestorsAssumption, QueueAssumption, NoReqAssumption, WorkersAssumption

Later == {"serving", "closing", "done"}

(* Neither property is inductive.  The strengthening orders the steps of   *)
(* the cascade: the indexer's program point fixes the server's; only a     *)
(* serving server has listening ingestors or a non-empty queue; the queue  *)
(* is closed exactly when the server is past serving, and then every       *)
(* ingestor has ended; a done server has only offline workers; an offline  *)
(* worker saw the queue closed and empty, and nothing refills it.          *)
CascadeInv ==
  /\ IInv
  /\ idxStatus = 5 => idxPc \in {"new", "done"}
  /\ idxPc = "new" => srvPc = "none"
  /\ idxPc = "built" => srvPc = "spawned"
  /\ idxPc = "done" => srvPc = "done"
  /\ \A i \in Ingestors : ingPc[i] = "listening" => srvPc \in Later
  /\ queue # <<>> => srvPc \in Later
  /\ qClosed <=> srvPc \in {"closing", "done"}
  /\ qClosed => \A i \in Ingestors : ingPc[i] \in {"returned", "failed"}
  /\ srvPc = "done" => \A w \in Workers : wPc[w] = "offline"
  /\ (\E w \in Workers : wPc[w] = "offline") => qClosed /\ queue = <<>>
  /\ NoClosedDrop

LEMMA CascadeInit == Init => CascadeInv
BY OwnInit DEF Init, CascadeInv, NoClosedDrop

(* With the queue closed no ingestor listens, so none holds a request: the *)
(* Closed arm of try_send is never taken.                                  *)
LEMMA ClosedNoHolding ==
  ASSUME CascadeInv, qClosed
  PROVE  \A i \in Ingestors : holding[i] = NoReq
BY DEF CascadeInv, IInv, RequestOwnership

LEMMA CascadeStep == CascadeInv /\ [Next]_vars => CascadeInv'
<1> SUFFICES ASSUME CascadeInv, [Next]_vars PROVE CascadeInv'
  OBVIOUS
<1>0. IInv'
  BY OwnStep DEF CascadeInv
<1>t. TypeOK
  BY DEF CascadeInv, IInv
<1>1. CASE ProbeStep
  BY <1>0, <1>1 DEF ProbeStep, ProbeTask, CascadeInv, NoClosedDrop
<1>2. CASE IndexerNew
  BY <1>0, <1>2 DEF IndexerNew, CascadeInv, NoClosedDrop, Later
<1>3. CASE Shutdown
  BY <1>0, <1>3 DEF Shutdown, CascadeInv, NoClosedDrop
(* serve spawns the standby workers: no worker was offline.                *)
<1>4. CASE IndexerServe
  BY <1>0, <1>4 DEF IndexerServe, CascadeInv, NoClosedDrop, Later
<1>5. CASE IndexerCheckShutdown
  BY <1>0, <1>5, <1>t DEF IndexerCheckShutdown, CascadeInv, NoClosedDrop, TypeOK
<1>6. CASE IndexerFinish
  BY <1>0, <1>6 DEF IndexerFinish, CascadeInv, NoClosedDrop
<1>7. CASE SignalStore \/ SignalExit
  BY <1>0, <1>7 DEF SignalStore, SignalExit, CascadeInv, NoClosedDrop
<1>8. ASSUME NEW i \in Ingestors, IngestorStep(i) PROVE CascadeInv'
  <2>1. CASE IngestorServe(i)
    BY <1>0, <2>1, <1>t DEF IngestorServe, CascadeInv, NoClosedDrop, TypeOK, Later
  <2>2. CASE IngestorTick(i)
    BY <1>0, <2>2, <1>t DEF IngestorTick, CascadeInv, NoClosedDrop, TypeOK
  <2>3. ASSUME NEW r \in Requests,
               AcceptAtShutdown(i, r) \/ Accept(i, r) \/ NymReject(i, r)
        PROVE  CascadeInv'
    BY <1>0, <2>3, <1>t DEF AcceptAtShutdown, Accept, NymReject, CascadeInv,
                            NoClosedDrop, TypeOK
  (* try_send: the queue is open, since the ingestor holds a request, and   *)
  (* the request is queued or dropped as QueueFull.                         *)
  <2>4. CASE IngestorTrySend(i)
    <3> DEFINE r == holding[i]
    <3>1. r # NoReq /\ ingPc[i] = "listening"
      BY <2>4 DEF IngestorTrySend, CascadeInv, IInv, RequestOwnership
    <3>2. ~qClosed /\ srvPc \in Later
      BY <3>1, ClosedNoHolding DEF CascadeInv
    <3>3. \A w \in Workers : wPc[w] # "offline"
      BY <3>2 DEF CascadeInv
    <3>4. req' = [req EXCEPT ![r] = TrySendOutcome] /\ TrySendOutcome # "closed"
      BY <2>4, <3>2 DEF IngestorTrySend, TrySendOutcome
    <3>5. NoClosedDrop'
      BY <3>4, <1>t DEF CascadeInv, NoClosedDrop, TypeOK
    <3>. QED BY <1>0, <2>4, <3>2, <3>3, <3>5 DEF IngestorTrySend, CascadeInv
  <2>. QED BY <1>8, <2>1, <2>2, <2>3, <2>4 DEF IngestorStep
<1>9. ASSUME NEW w \in Workers, WorkerStep(w) PROVE CascadeInv'
  <2>1. CASE WorkerRecv(w)
    <3>1. wPc[w] = "standby" /\ queue # <<>>
      BY <2>1 DEF WorkerRecv
    <3>2. \A v \in Workers : wPc[v] # "offline"
      BY <3>1 DEF CascadeInv
    <3>3. srvPc # "done"
      BY <3>1 DEF CascadeInv
    <3>4. req' = [req EXCEPT ![Head(queue)] = "serving"]
      BY <2>1 DEF WorkerRecv
    <3>5. NoClosedDrop'
      BY <3>4, <1>t DEF CascadeInv, NoClosedDrop, TypeOK
    <3>6. wPc' = [wPc EXCEPT ![w] = "working"]
      BY <2>1 DEF WorkerRecv
    <3>7. \A v \in Workers : wPc'[v] # "offline"
      BY <3>2, <3>6, <1>t DEF TypeOK
    <3>. QED BY <1>0, <2>1, <3>1, <3>3, <3>5, <3>7 DEF WorkerRecv, CascadeInv
  <2>2. CASE WorkerRespond(w)
    <3>1. wPc[w] = "working" /\ srvPc # "done"
      BY <2>2 DEF WorkerRespond, CascadeInv
    <3>2. req' = [req EXCEPT ![busy[w]] = "answered"]
      BY <2>2 DEF WorkerRespond
    <3>3. NoClosedDrop'
      BY <3>2, <1>t DEF CascadeInv, NoClosedDrop, TypeOK
    <3>. QED BY <1>0, <2>2, <3>1, <3>3, <1>t DEF WorkerRespond, CascadeInv, TypeOK
  <2>3. CASE WorkerClose(w)
    BY <1>0, <2>3, <1>t DEF WorkerClose, CascadeInv, NoClosedDrop, TypeOK
  <2>. QED BY <1>9, <2>1, <2>2, <2>3 DEF WorkerStep
<1>10. CASE ServerCloseQueue
  BY <1>0, <1>10 DEF ServerCloseQueue, CascadeInv, NoClosedDrop, Later
<1>11. CASE ServerDone
  BY <1>0, <1>11 DEF ServerDone, CascadeInv, NoClosedDrop
<1>12. CASE UNCHANGED vars
  BY <1>0, <1>12 DEF vars, CascadeInv, NoClosedDrop
<1>. QED BY <1>1, <1>2, <1>3, <1>4, <1>5, <1>6, <1>7, <1>8, <1>9, <1>10,
            <1>11, <1>12 DEF Next, IndexerStep

(* Spec => []NoClosedDrop: for all instances, no request accepted by an    *)
(* ingestor is ever dropped on a closed queue (the Closed arm of           *)
(* ingestor.rs's try_send match, which only prints): the server closes the *)
(* queue only after every ingestor task has returned.                      *)
THEOREM NoClosedDropHolds == Spec => []NoClosedDrop
<1>1. CascadeInv => NoClosedDrop BY DEF CascadeInv
<1>. QED BY CascadeInit, CascadeStep, <1>1, PTL DEF Spec

(* Status 5 after the cascade: no ingestor listening, no request held,     *)
(* queued or in service, and every spawned worker offline.  At spawn       *)
(* (idxPc "new") nothing exists yet; after shutdown_components the server  *)
(* is done, so its workers are offline, one of them (the pool is not       *)
(* empty) saw the queue empty, and the closed queue made every ingestor    *)
(* end first.                                                              *)
LEMMA CascadeDrained == CascadeInv => DrainedWhenOffline
<1> SUFFICES ASSUME CascadeInv, idxStatus = 5
             PROVE  /\ \A i \in Ingestors : ingPc[i] # "listening"
                    /\ \A r \in Requests : req[r] \notin {"held", "queued", "serving"}
                    /\ \A w \in Workers : wPc[w] \in {"none", "offline"}
  BY DEF DrainedWhenOffline
<1>1. CASE idxPc = "new"
  <2>1. srvPc = "none" /\ queue = <<>>
    BY <1>1 DEF CascadeInv, Later
  <2>2. /\ \A i \in Ingestors : ingPc[i] = "none"
        /\ \A w \in Workers : wPc[w] = "none"
    BY <1>1 DEF CascadeInv, IInv, NotYetSpawned
  <2>3. \A r \in Requests : ~Held(r) /\ ~Queued(r) /\ ~InService(r)
    BY <2>1, <2>2 DEF CascadeInv, IInv, RequestOwnership, Held, Queued, InService
  <2>. QED BY <2>2, <2>3 DEF CascadeInv, IInv, RequestOwnership
<1>2. CASE idxPc = "done"
  <2>1. srvPc = "done" /\ qClosed
    BY <1>2 DEF CascadeInv
  <2>2. \A w \in Workers : wPc[w] = "offline"
    BY <2>1 DEF CascadeInv
  <2>3. queue = <<>>
    BY <2>2, WorkersAssumption DEF CascadeInv
  <2>4. \A i \in Ingestors : ingPc[i] \in {"returned", "failed"}
    BY <2>1 DEF CascadeInv
  <2>5. \A r \in Requests : ~Held(r) /\ ~Queued(r) /\ ~InService(r)
    BY <2>2, <2>3, <2>4 DEF CascadeInv, IInv, RequestOwnership, Held, Queued, InService
  <2>. QED BY <2>2, <2>4, <2>5 DEF CascadeInv, IInv, RequestOwnership
<1>. QED BY <1>1, <1>2 DEF CascadeInv

(* Spec => []DrainedWhenOffline: for every instance with a non-empty       *)
(* worker pool, whenever Indexer::serve's status reads 5 the shutdown      *)
(* cascade of spec 5 has completed: ingestors quiesced, queue drained,     *)
(* workers offline, no request left in flight.                             *)
THEOREM DrainedWhenOfflineHolds == Spec => []DrainedWhenOffline
BY CascadeInit, CascadeStep, CascadeDrained, PTL DEF Spec

=============================================================================
