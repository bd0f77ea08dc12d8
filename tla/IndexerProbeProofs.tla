-------------------------- MODULE IndexerProbeProofs --------------------------
(***************************************************************************)
(* The probe inside the indexer.  Indexer::new awaits                      *)
(* test_node_and_return_uri before it spawns anything, so the schedule     *)
(* proved of NodeProbe alone carries over: the probe's own steps are       *)
(* NodeProbe steps, and every other step leaves the probe's variables      *)
(* alone.  The one variable the probe shares is the process exit code,     *)
(* which the Ctrl-C handler may also set (to 0); the probe sees only       *)
(* whether it has called exit(1).                                          *)
(***************************************************************************)
EXTENDS IndexerProofs

(* The exit code as the probe module knows it: 1 after its exit(1), -1     *)
(* otherwise.                                                              *)
ProbeExit == IF exitCode = 1 THEN 1 ELSE -1

PP == INSTANCE NodeProbeProofs WITH pc <- probePc, exitCode <- ProbeExit

(* ProbeSchedule with the probe's inductive invariant, and the two facts   *)
(* that tie it to the indexer: only the probe's exit(1) sets the code 1,   *)
(* and the indexer leaves "new" only through a connected probe.            *)
IProbeInv ==
  /\ PP!ProbeInv
  /\ exitCode \in {-1, 0, 1}
  /\ probePc = "exited" <=> exitCode = 1
  /\ idxPc # "new" => probePc = "connected"

(* A step of the probe task is a step of NodeProbe.                        *)
LEMMA ProbeStepIsProbeNext ==
  ASSUME exitCode = -1, ProbeStep
  PROVE  /\ PP!Next
         /\ exitCode' \in {-1, 1}
         /\ probePc' = "exited" <=> exitCode' = 1
<1>1. Probe!Next
  BY DEF ProbeStep, ProbeTask
<1>2. ASSUME NEW f \in Probe!Families,
             Probe!RequestFail(f) \/ Probe!RequestHeaders(f)
             \/ Probe!BodyOk(f) \/ Probe!BodyFail(f)
      PROVE  /\ PP!Next
             /\ exitCode' \in {-1, 1}
             /\ probePc' = "exited" <=> exitCode' = 1
  <2>1. exitCode' = -1 /\ probePc' # "exited"
    BY <1>2 DEF Probe!RequestFail, Probe!RequestHeaders, Probe!BodyOk,
                Probe!BodyFail, Probe!AfterFailure, Probe!BodyPc
  <2>2. PP!RequestFail(f) \/ PP!RequestHeaders(f) \/ PP!BodyOk(f) \/ PP!BodyFail(f)
    BY <1>2, <2>1 DEF Probe!RequestFail, Probe!RequestHeaders, Probe!BodyOk,
                      Probe!BodyFail, PP!RequestFail, PP!RequestHeaders,
                      PP!BodyOk, PP!BodyFail, ProbeExit, Probe!ReqPc,
                      PP!ReqPc, Probe!BodyPc, PP!BodyPc, Probe!AfterFailure,
                      PP!AfterFailure
  <2>. QED BY <2>1, <2>2 DEF PP!Next, PP!Families, Probe!Families
<1>3. CASE Probe!Sleep
  BY <1>3 DEF Probe!Sleep, PP!Sleep, PP!Next, ProbeExit
<1>4. CASE Probe!Tick
  <2>1. exitCode' \in {-1, 1} /\ (probePc' = "exited" <=> exitCode' = 1)
    BY <1>4 DEF Probe!Tick
  <2>2. PP!Tick
    BY <1>4 DEF Probe!Tick, PP!Tick, ProbeExit, PP!Rounds, Probe!Rounds
  <2>. QED BY <2>1, <2>2 DEF PP!Next
<1>. QED BY <1>1, <1>2, <1>3, <1>4 DEF Probe!Next

LEMMA IProbeInit == Init => IProbeInv
<1> SUFFICES ASSUME Init PROVE IProbeInv
  OBVIOUS
<1>1. PP!Init
  BY DEF Init, Probe!Init, PP!Init, ProbeExit
<1>. QED BY <1>1, PP!ProbeInit DEF Init, IProbeInv, Probe!Init

LEMMA IProbeStep == IProbeInv /\ [Next]_vars => IProbeInv'
<1> SUFFICES ASSUME IProbeInv, [Next]_vars PROVE IProbeInv'
  OBVIOUS
(* The probe runs: a NodeProbe step, while the process runs.               *)
<1>1. CASE ProbeStep
  <2>1. exitCode = -1 /\ idxPc = "new" /\ idxPc' = "new"
    BY <1>1 DEF ProbeStep, ProbeTask, Running
  <2>2. PP!Next /\ exitCode' \in {-1, 1} /\ (probePc' = "exited" <=> exitCode' = 1)
    BY <1>1, <2>1, ProbeStepIsProbeNext
  <2>3. PP!ProbeInv'
    BY <2>2, PP!ProbeInvStep DEF IProbeInv
  <2>. QED BY <2>1, <2>2, <2>3 DEF IProbeInv
(* Indexer::new goes on only with the URI the probe returned.              *)
<1>2. CASE IndexerNew
  <2>1. probePc = "connected" /\ UNCHANGED <<exitCode, probeVars>>
    BY <1>2 DEF IndexerNew
  <2>2. PP!ProbeInv'
    BY <2>1 DEF IProbeInv, probeVars, ProbeExit, PP!ProbeInv, PP!TypeOK,
                PP!ProbeTypeOK, PP!Alternates
  <2>. QED BY <2>1, <2>2 DEF IProbeInv, IndexerNew, probeVars
(* The handler's exit(0): the probe has not exited, its code stays -1.     *)
<1>3. CASE SignalExit
  <2>1. exitCode = -1 /\ exitCode' = 0 /\ UNCHANGED probeVars /\ UNCHANGED idxPc
    BY <1>3 DEF SignalExit, Running
  <2>2. ProbeExit' = ProbeExit
    BY <2>1 DEF ProbeExit
  <2>3. PP!ProbeInv'
    BY <2>1, <2>2 DEF IProbeInv, probeVars, PP!ProbeInv, PP!TypeOK,
                      PP!ProbeTypeOK, PP!Alternates
  <2>. QED BY <2>1, <2>3 DEF IProbeInv, probeVars
(* Every other step leaves the probe and the exit code alone.              *)
<1>4. CASE ~ProbeStep /\ ~IndexerNew /\ ~SignalExit
  <2>1. UNCHANGED <<exitCode, probeVars>> /\ (idxPc # "new" => idxPc' # "new")
    BY <1>4 DEF Next, vars, IndexerStep, Shutdown, IndexerServe,
                IndexerCheckShutdown, IndexerFinish, SignalStore,
                IngestorStep, IngestorServe, IngestorTick, IngestorTrySend,
                AcceptAtShutdown, Accept, NymReject, WorkerStep, WorkerRecv,
                WorkerRespond, WorkerClose, ServerCloseQueue, ServerDone
  <2>2. idxPc' # "new" => idxPc # "new"
    BY <1>4 DEF Next, vars, IndexerStep, Shutdown, IndexerServe,
                IndexerCheckShutdown, IndexerFinish, SignalStore,
                IngestorStep, IngestorServe, IngestorTick, IngestorTrySend,
                AcceptAtShutdown, Accept, NymReject, WorkerStep, WorkerRecv,
                WorkerRespond, WorkerClose, ServerCloseQueue, ServerDone
  <2>3. PP!ProbeInv'
    BY <2>1 DEF IProbeInv, probeVars, ProbeExit, PP!ProbeInv, PP!TypeOK,
                PP!ProbeTypeOK, PP!Alternates
  <2>. QED BY <2>1, <2>2, <2>3 DEF IProbeInv, probeVars
<1>. QED BY <1>1, <1>2, <1>3, <1>4

(* Spec => []ProbeSchedule: for every instance of the indexer, the probe   *)
(* Indexer::new awaits alternates IPv4 and IPv6, the exit code 1 is set    *)
(* exactly when the probe exited after all three rounds, and the indexer   *)
(* builds its server only with the URI of the family that answered.        *)
THEOREM IndexerProbeSchedule == Spec => []ProbeSchedule
<1>1. IProbeInv => ProbeSchedule
  BY DEF IProbeInv, ProbeSchedule, Probe!ProbeSchedule, PP!ProbeInv,
         PP!Alternates, Probe!Rounds, PP!Rounds
<1>. QED BY IProbeInit, IProbeStep, <1>1, PTL DEF Spec

=============================================================================
