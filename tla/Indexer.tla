------------------------------ MODULE Indexer ------------------------------
(***************************************************************************)
(* The Zaino indexer process: the Indexer front and its supervisory loop   *)
(* (zainod/src/indexer.rs), the Ctrl-C handler that clears the shared      *)
(* `online` flag, and the Tcp and Nym ingestors (server/ingestor.rs) that  *)
(* accept wallet requests and try_send them into the bounded queue.  The   *)
(* server director, its queue and its workers are not under src/; they are *)
(* modelled from the spec (sections 4.3, 4.5 and 5) and kept minimal.       *)
(*                                                                         *)
(* A wallet request is a model value; the model follows who owns it:       *)
(* an ingestor, the queue, a worker, or one of the ends the code gives it. *)
(***************************************************************************)
EXTENDS Integers, Sequences, Functions

CONSTANTS
  Requests,      \* wallet connections / mixnet messages (model values)
  Workers,       \* worker tasks of the server's pool (model values)
  Ingestors,     \* the enabled ingestors, a subset of {"tcp", "nym"}
  MaxQueueSize,  \* config.max_queue_size
  NoReq          \* model value: an empty request slot

\* IndexerConfig::check_config: at least one ingress is enabled.
ASSUME IngestorsAssumption == Ingestors \subseteq {"tcp", "nym"} /\ Ingestors # {}
\* max_queue_size is a positive integer.
ASSUME QueueAssumption == MaxQueueSize \in Nat \ {0}
ASSUME NoReqAssumption == NoReq \notin Requests
\* idle_worker_pool_size is a positive integer (spec 6): the pool is not empty.
ASSUME WorkersAssumption == Workers # {}

VARIABLES
  online,     \* Arc<AtomicBool> shared by every component
  exitCode,   \* -1 while the process runs, else its exit status
  sig,        \* the Ctrl-C handler thread: "idle" or "stored" (online cleared)
  idxPc,      \* where the Indexer is: "new", "built", "loop", "closing", "done"
  idxStatus,  \* IndexerStatus.indexer_status (AtomicStatus ordinal)
  srvPc,      \* the server: "none", "spawned", "serving", "closing", "done"
  srvStatus,  \* ServerStatus.server_status, written by shutdown_components
  queue,      \* the bounded request queue, a sequence of requests
  qClosed,    \* the queue has been closed
  ingPc,      \* per ingestor: "none", "spawned" (Inactive), "listening",
              \* "returned" (task ended Ok) or "failed" (task ended Err)
  holding,    \* per ingestor: the request accepted and not yet sent, or NoReq
  wPc,        \* per worker: "none", "standby", "working", "offline"
  busy,       \* per worker: the request in service, or NoReq
  req,        \* per request: where it is or how it ended
  round, probePc, uri, log   \* the node probe run by Indexer::new (NodeProbe)

probeVars == <<round, probePc, uri, log>>

vars == <<online, exitCode, sig, idxPc, idxStatus, srvPc, srvStatus, queue,
          qClosed, ingPc, holding, wPc, busy, req, probeVars>>

(* test_node_and_return_uri; its exit(1) ends this process.                *)
Probe == INSTANCE NodeProbe WITH pc <- probePc

(* The fates of a request. "full": dropped on QueueFull with no response;  *)
(* "closed": dropped on a closed queue; "shutdown": accepted after the     *)
(* online flag was cleared and dropped as the ingestor returned; "failed": *)
(* a malformed Nym message that ended its ingestor.                        *)
ReqStates == {"new", "held", "queued", "serving", "answered",
              "full", "closed", "shutdown", "failed"}

Running == exitCode = -1

-----------------------------------------------------------------------------
(* Mutant (TypeOK): try_send that never reports QueueFull.                *)
TrySendOutcomeUnbounded == IF qClosed THEN "closed" ELSE "queued"

(* Spec 4.3 (QueueSender::try_send, not under src/): Closed, QueueFull, Ok. *)
TrySendOutcome ==
  IF qClosed THEN "closed"
  ELSE IF Len(queue) < MaxQueueSize THEN "queued" ELSE "full"

(* ingestor.rs check_for_shutdown: the ingestor's own status is Closing,   *)
(* or online is false.  serve() moves the ingestor into its task, so once  *)
(* it listens nobody can set its status: only the online flag is left.     *)
CheckForShutdown == ~online

-----------------------------------------------------------------------------
(* Indexer::new: check_config, probe the node, store 0, Server::spawn      *)
(* (which binds the ingestors, status Inactive).                           *)
IndexerNew ==
  /\ Running /\ idxPc = "new" /\ probePc = "connected"
  /\ idxPc' = "built"
  /\ idxStatus' = 0
  /\ srvPc' = "spawned"
  /\ ingPc' = [i \in Ingestors |-> "spawned"]
  /\ UNCHANGED <<online, exitCode, sig, srvStatus, queue, qClosed, holding,
                 wPc, busy, req>>
  /\ UNCHANGED probeVars

(* A step of test_node_and_return_uri, awaited by Indexer::new while the  *)
(* Ctrl-C handler is already installed.                                    *)
ProbeTask(A) ==
  /\ Running /\ idxPc = "new"
  /\ A
  /\ UNCHANGED <<online, sig, idxPc, idxStatus, srvPc, srvStatus, queue,
                 qClosed, ingPc, holding, wPc, busy, req>>

ProbeStep == ProbeTask(Probe!Next)

(* Indexer::shutdown, callable by the owner of the Indexer before serve(). *)
Shutdown ==
  /\ Running /\ idxPc = "built"
  /\ idxStatus' = 4
  /\ UNCHANGED <<online, exitCode, sig, idxPc, srvPc, srvStatus, queue,
                 qClosed, ingPc, holding, wPc, busy, req>>
  /\ UNCHANGED probeVars

(* Indexer::serve: server.serve() (the server spawns its idle workers),    *)
(* then the unconditional indexer_status.store(2).                         *)
IndexerServe ==
  /\ Running /\ idxPc = "built"
  /\ srvPc' = "serving"
  /\ wPc' = [w \in Workers |-> "standby"]
  /\ idxStatus' = 2
  /\ idxPc' = "loop"
  /\ UNCHANGED <<online, exitCode, sig, srvStatus, queue, qClosed, ingPc,
                 holding, busy, req>>
  /\ UNCHANGED probeVars

(* One pass of the serve loop that finds check_for_shutdown true: store 4, *)
(* then shutdown_components stores 4 into the server status and awaits    *)
(* the server's join handle.                                               *)
IndexerCheckShutdown ==
  /\ Running /\ idxPc = "loop"
  /\ idxStatus >= 4 \/ ~online
  /\ idxStatus' = 4
  /\ srvStatus' = 4
  /\ idxPc' = "closing"
  /\ UNCHANGED <<online, exitCode, sig, srvPc, queue, qClosed, ingPc,
                 holding, wPc, busy, req>>
  /\ UNCHANGED probeVars

(* Mutant (DrainedWhenOffline): shutdown_components does not await the    *)
(* server's join handle before storing 5.                                  *)
IndexerFinishNoAwait ==
  /\ Running /\ idxPc = "closing"
  /\ idxStatus' = 5
  /\ idxPc' = "done"
  /\ UNCHANGED <<online, exitCode, sig, srvPc, srvStatus, queue, qClosed,
                 ingPc, holding, wPc, busy, req>>
  /\ UNCHANGED probeVars

(* The server handle completes: store(5), return Ok(()).                   *)
IndexerFinish ==
  /\ Running /\ idxPc = "closing"
  /\ srvPc = "done"
  /\ idxStatus' = 5
  /\ idxPc' = "done"
  /\ UNCHANGED <<online, exitCode, sig, srvPc, srvStatus, queue, qClosed,
                 ingPc, holding, wPc, busy, req>>
  /\ UNCHANGED probeVars

(* set_ctrlc: the handler stores false into online ...                     *)
SignalStore ==
  /\ Running /\ sig = "idle"
  /\ online' = FALSE
  /\ sig' = "stored"
  /\ UNCHANGED <<exitCode, idxPc, idxStatus, srvPc, srvStatus, queue, qClosed,
                 ingPc, holding, wPc, busy, req>>
  /\ UNCHANGED probeVars

(* ... and then calls process::exit(0), ending every task at once.         *)
SignalExit ==
  /\ Running /\ sig = "stored"
  /\ exitCode' = 0
  /\ UNCHANGED <<online, sig, idxPc, idxStatus, srvPc, srvStatus, queue,
                 qClosed, ingPc, holding, wPc, busy, req>>
  /\ UNCHANGED probeVars

-----------------------------------------------------------------------------
(* The ingestor task starts: status = Listening.                           *)
IngestorServe(i) ==
  /\ Running /\ ingPc[i] = "spawned" /\ srvPc = "serving"
  /\ ingPc' = [ingPc EXCEPT ![i] = "listening"]
  /\ UNCHANGED <<online, exitCode, sig, idxPc, idxStatus, srvPc, srvStatus,
                 queue, qClosed, holding, wPc, busy, req>>
  /\ UNCHANGED probeVars

(* The interval tick arm of the select!: return Ok(()) on shutdown.        *)
IngestorTick(i) ==
  /\ Running /\ ingPc[i] = "listening" /\ holding[i] = NoReq
  /\ CheckForShutdown
  /\ ingPc' = [ingPc EXCEPT ![i] = "returned"]
  /\ UNCHANGED <<online, exitCode, sig, idxPc, idxStatus, srvPc, srvStatus,
                 queue, qClosed, holding, wPc, busy, req>>
  /\ UNCHANGED probeVars

(* The accept / wait_for_messages arm finds shutdown: the task returns and *)
(* the stream or message just received is dropped.                         *)
AcceptAtShutdown(i, r) ==
  /\ Running /\ ingPc[i] = "listening" /\ holding[i] = NoReq
  /\ req[r] = "new"
  /\ CheckForShutdown
  /\ ingPc' = [ingPc EXCEPT ![i] = "returned"]
  /\ req' = [req EXCEPT ![r] = "shutdown"]
  /\ UNCHANGED <<online, exitCode, sig, idxPc, idxStatus, srvPc, srvStatus,
                 queue, qClosed, holding, wPc, busy>>
  /\ UNCHANGED probeVars

(* A connection (Tcp) or a well-formed message (Nym) becomes a request.    *)
Accept(i, r) ==
  /\ Running /\ ingPc[i] = "listening" /\ holding[i] = NoReq
  /\ req[r] = "new"
  /\ ~CheckForShutdown
  /\ holding' = [holding EXCEPT ![i] = r]
  /\ req' = [req EXCEPT ![r] = "held"]
  /\ UNCHANGED <<online, exitCode, sig, idxPc, idxStatus, srvPc, srvStatus,
                 queue, qClosed, ingPc, wPc, busy>>
  /\ UNCHANGED probeVars

(* A Nym message with no payload, no sender tag, or undecodable bytes:     *)
(* the `?` returns Err from the ingestor task, which ends.                 *)
NymReject(i, r) ==
  /\ Running /\ i = "nym" /\ ingPc[i] = "listening" /\ holding[i] = NoReq
  /\ req[r] = "new"
  /\ ~CheckForShutdown
  /\ ingPc' = [ingPc EXCEPT ![i] = "failed"]
  /\ req' = [req EXCEPT ![r] = "failed"]
  /\ UNCHANGED <<online, exitCode, sig, idxPc, idxStatus, srvPc, srvStatus,
                 queue, qClosed, holding, wPc, busy>>
  /\ UNCHANGED probeVars

(* queue.try_send(request): Ok, or QueueFull / Closed, which only print;   *)
(* the request (and its stream) is dropped and the loop goes on.           *)
IngestorTrySend(i) ==
  LET r == holding[i] IN
  /\ Running /\ r # NoReq
  /\ req' = [req EXCEPT ![r] = TrySendOutcome]
  /\ queue' = IF TrySendOutcome = "queued" THEN Append(queue, r) ELSE queue
  /\ holding' = [holding EXCEPT ![i] = NoReq]
  /\ UNCHANGED <<online, exitCode, sig, idxPc, idxStatus, srvPc, srvStatus,
                 qClosed, ingPc, wPc, busy>>
  /\ UNCHANGED probeVars

-----------------------------------------------------------------------------
(* Spec 4.5: a standby worker receives the head of the queue.              *)
WorkerRecv(w) ==
  /\ Running /\ wPc[w] = "standby" /\ queue # <<>>
  /\ busy' = [busy EXCEPT ![w] = Head(queue)]
  /\ req' = [req EXCEPT ![Head(queue)] = "serving"]
  /\ queue' = Tail(queue)
  /\ wPc' = [wPc EXCEPT ![w] = "working"]
  /\ UNCHANGED <<online, exitCode, sig, idxPc, idxStatus, srvPc, srvStatus,
                 qClosed, ingPc, holding>>
  /\ UNCHANGED probeVars

(* Spec 4.5: the upstream calls complete and the response is routed back. *)
WorkerRespond(w) ==
  /\ Running /\ wPc[w] = "working"
  /\ req' = [req EXCEPT ![busy[w]] = "answered"]
  /\ busy' = [busy EXCEPT ![w] = NoReq]
  /\ wPc' = [wPc EXCEPT ![w] = "standby"]
  /\ UNCHANGED <<online, exitCode, sig, idxPc, idxStatus, srvPc, srvStatus,
                 queue, qClosed, ingPc, holding>>
  /\ UNCHANGED probeVars

(* Spec 5: workers drain the closed queue, then go Offline.               *)
WorkerClose(w) ==
  /\ Running /\ wPc[w] = "standby" /\ qClosed /\ queue = <<>>
  /\ wPc' = [wPc EXCEPT ![w] = "offline"]
  /\ UNCHANGED <<online, exitCode, sig, idxPc, idxStatus, srvPc, srvStatus,
                 queue, qClosed, ingPc, holding, busy, req>>
  /\ UNCHANGED probeVars

(* Mutant (NoClosedDrop): the queue is closed without waiting for the     *)
(* ingestors to quiesce.                                                   *)
ServerCloseQueueEarly ==
  /\ Running /\ srvPc = "serving" /\ srvStatus = 4
  /\ qClosed' = TRUE
  /\ srvPc' = "closing"
  /\ UNCHANGED <<online, exitCode, sig, idxPc, idxStatus, srvStatus, queue,
                 ingPc, holding, wPc, busy, req>>
  /\ UNCHANGED probeVars

(* Spec 5: with its status Closing, the server closes the queue once all  *)
(* ingestors have quiesced.                                                *)
ServerCloseQueue ==
  /\ Running /\ srvPc = "serving" /\ srvStatus = 4
  /\ \A i \in Ingestors : ingPc[i] \in {"returned", "failed"}
  /\ qClosed' = TRUE
  /\ srvPc' = "closing"
  /\ UNCHANGED <<online, exitCode, sig, idxPc, idxStatus, srvStatus, queue,
                 ingPc, holding, wPc, busy, req>>
  /\ UNCHANGED probeVars

(* Spec 5: the server task ends once every worker is Offline.             *)
ServerDone ==
  /\ Running /\ srvPc = "closing"
  /\ \A w \in Workers : wPc[w] = "offline"
  /\ srvPc' = "done"
  /\ UNCHANGED <<online, exitCode, sig, idxPc, idxStatus, srvStatus, queue,
                 qClosed, ingPc, holding, wPc, busy, req>>
  /\ UNCHANGED probeVars

-----------------------------------------------------------------------------
Init ==
  /\ online = TRUE
  /\ exitCode = -1
  /\ sig = "idle"
  /\ idxPc = "new"
  /\ idxStatus = 5
  /\ srvPc = "none"
  /\ srvStatus = 5
  /\ queue = <<>>
  /\ qClosed = FALSE
  /\ ingPc = [i \in Ingestors |-> "none"]
  /\ holding = [i \in Ingestors |-> NoReq]
  /\ wPc = [w \in Workers |-> "none"]
  /\ busy = [w \in Workers |-> NoReq]
  /\ req = [r \in Requests |-> "new"]
  /\ Probe!Init

IndexerStep ==
  \/ IndexerNew \/ ProbeStep \/ Shutdown \/ IndexerServe
  \/ IndexerCheckShutdown \/ IndexerFinish

IngestorStep(i) ==
  \/ IngestorServe(i) \/ IngestorTick(i) \/ IngestorTrySend(i)
  \/ \E r \in Requests : AcceptAtShutdown(i, r) \/ Accept(i, r) \/ NymReject(i, r)

WorkerStep(w) == WorkerRecv(w) \/ WorkerRespond(w) \/ WorkerClose(w)

Next ==
  \/ IndexerStep
  \/ SignalStore \/ SignalExit
  \/ \E i \in Ingestors : IngestorStep(i)
  \/ \E w \in Workers : WorkerStep(w)
  \/ ServerCloseQueue \/ ServerDone

Spec == Init /\ [][Next]_vars

(* Tokio runs every spawned task and the handler thread until it blocks:   *)
(* the probe, the Indexer's steps, the ingestors' loops, a standby         *)
(* worker's recv and close, the server's cascade, and the handler's        *)
(* process::exit once it has stored false.  Wallets, the Ctrl-C signal     *)
(* itself and the library user's Shutdown call are not forced, and neither *)
(* is WorkerRespond: the worker's upstream send_request has no deadline    *)
(* (connector.rs client.request and to_bytes are awaited without one).     *)
Fairness ==
  /\ \A f \in Probe!Families :
       WF_vars(ProbeTask(Probe!RequestFail(f) \/ Probe!RequestHeaders(f)))
  /\ WF_vars(ProbeTask(Probe!Sleep \/ Probe!Tick))
  /\ WF_vars(IndexerNew)
  /\ WF_vars(IndexerServe)
  /\ WF_vars(IndexerCheckShutdown)
  /\ WF_vars(IndexerFinish)
  /\ WF_vars(SignalExit)
  /\ \A i \in Ingestors : WF_vars(IngestorServe(i) \/ IngestorTick(i) \/ IngestorTrySend(i))
  /\ \A w \in Workers : WF_vars(WorkerRecv(w) \/ WorkerClose(w))
  /\ WF_vars(ServerCloseQueue) /\ WF_vars(ServerDone)

FairSpec == Spec /\ Fairness

-----------------------------------------------------------------------------
(* The type invariant; the queue never holds more than max_queue_size.     *)
TypeOK ==
  /\ online \in BOOLEAN
  /\ exitCode \in {-1, 0, 1}
  /\ sig \in {"idle", "stored"}
  /\ idxPc \in {"new", "built", "loop", "closing", "done"}
  /\ idxStatus \in {0, 2, 4, 5}
  /\ srvPc \in {"none", "spawned", "serving", "closing", "done"}
  /\ srvStatus \in {4, 5}
  /\ queue \in Seq(Requests) /\ Len(queue) <= MaxQueueSize
  /\ qClosed \in BOOLEAN
  /\ ingPc \in [Ingestors -> {"none", "spawned", "listening", "returned", "failed"}]
  /\ holding \in [Ingestors -> Requests \cup {NoReq}]
  /\ wPc \in [Workers -> {"none", "standby", "working", "offline"}]
  /\ busy \in [Workers -> Requests \cup {NoReq}]
  /\ req \in [Requests -> ReqStates]
  /\ Probe!ProbeTypeOK

(* Spec 4.2 and scenario 2, for the probe Indexer::new runs: each round    *)
(* tries IPv4 then IPv6, the process exits with status 1 only after every  *)
(* round failed on both, and the URI handed to Server::spawn is the one    *)
(* that answered.                                                          *)
ProbeSchedule ==
  /\ Probe!ProbeSchedule
  /\ probePc = "exited" <=> exitCode = 1
  /\ idxPc # "new" => probePc = "connected"

(* Spec 5, the shutdown cascade: whenever the indexer status reads 5 (its  *)
(* value at spawn and after shutdown_components returns), no ingestor is   *)
(* listening, no request is in flight, the queue is empty and every        *)
(* spawned worker is offline.                                              *)
DrainedWhenOffline ==
  idxStatus = 5 =>
    /\ \A i \in Ingestors : ingPc[i] # "listening"
    /\ \A r \in Requests : req[r] \notin {"held", "queued", "serving"}
    /\ \A w \in Workers : wPc[w] \in {"none", "offline"}

(* No request is lost to a closed queue: ingestor.rs only prints on       *)
(* Closed, so the cascade must close the queue after every ingestor ended. *)
NoClosedDrop == \A r \in Requests : req[r] # "closed"

(* Spec 3: Closing is terminal.  Once the indexer status is 4 it is never  *)
(* set back to a running value (indexer.rs serve stores 2 unconditionally). *)
ClosingIsFinal == [][idxStatus = 4 => idxStatus' \in {4, 5}]_vars

(* Spec 4.4: a malformed Nym message maps to an error for that message;    *)
(* an ingestor only ends when shutdown is signalled.                       *)
IngestorEndsOnlyAtShutdown ==
  \A i \in Ingestors : ingPc[i] \in {"returned", "failed"} => ~online

(* The node answers every upstream call a worker makes: nothing in the     *)
(* code guarantees it (send_request has no deadline), so it is a hypothesis *)
(* of the property below, not part of Fairness.                            *)
NodeAnswers == \A w \in Workers : WF_vars(WorkerRespond(w))

(* Spec 5: a signal-triggered shutdown drains the queue: even when the     *)
(* node answers every call, every queued request is eventually answered.   *)
QueuedRequestDrained ==
  NodeAnswers => \A r \in Requests : req[r] = "queued" ~> req[r] = "answered"

=============================================================================
