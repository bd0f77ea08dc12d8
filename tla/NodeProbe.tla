------------------------------ MODULE NodeProbe ------------------------------
(***************************************************************************)
(* test_node_and_return_uri and test_node_connection                       *)
(* (zingo-rpc/src/jsonrpc/connector.rs): up to three rounds of a getinfo   *)
(* POST to the IPv4 URI and then to the IPv6 URI, a 3 s sleep and an       *)
(* interval tick after a round in which both failed, and process::exit(1)  *)
(* once the rounds are spent.                                              *)
(*                                                                         *)
(* One attempt has two awaits: client.request, wrapped in a 3 s            *)
(* tokio::time::timeout, and the body read, which has no deadline.         *)
(***************************************************************************)
EXTENDS Integers, Sequences

(* The `for _ in 0..3` bound.                                               *)
Rounds == 3

VARIABLES
  round,      \* the loop index
  pc,         \* "v4req", "v4body", "v6req", "v6body", "sleep", "tick",
              \* "connected" (returned Ok(uri)) or "exited" (exit(1))
  uri,        \* the URI returned: "none", "v4" or "v6"
  exitCode,   \* -1 while the process runs, 1 after exit(1)
  log         \* history: the family of every attempt whose request ended

vars == <<round, pc, uri, exitCode, log>>

Families == {"v4", "v6"}

(* The program points of an attempt on each family.                        *)
ReqPc(f) == IF f = "v4" THEN "v4req" ELSE "v6req"
BodyPc(f) == IF f = "v4" THEN "v4body" ELSE "v6body"

(* Where a failed attempt goes: IPv4 falls through to IPv6, a failed IPv6  *)
(* attempt to the 3 s sleep.                                               *)
AfterFailure(f) == IF f = "v4" THEN "v6req" ELSE "sleep"

-----------------------------------------------------------------------------
(* client.request under the 3 s timeout ends in a connect error or the     *)
(* Elapsed error: test_node_connection returns Err.                        *)
RequestFail(f) ==
  /\ pc = ReqPc(f)
  /\ pc' = AfterFailure(f)
  /\ log' = Append(log, f)
  /\ UNCHANGED <<round, uri, exitCode>>

(* The response headers arrive within the 3 s; the body read starts.       *)
RequestHeaders(f) ==
  /\ pc = ReqPc(f)
  /\ pc' = BodyPc(f)
  /\ log' = Append(log, f)
  /\ UNCHANGED <<round, uri, exitCode>>

(* The body is read and parses as an RpcResponse: Ok(uri) is returned.     *)
BodyOk(f) ==
  /\ pc = BodyPc(f)
  /\ pc' = "connected"
  /\ uri' = f
  /\ UNCHANGED <<round, exitCode, log>>

(* to_bytes fails, or the body is not a JSON-RPC envelope: Err.            *)
BodyFail(f) ==
  /\ pc = BodyPc(f)
  /\ pc' = AfterFailure(f)
  /\ UNCHANGED <<round, uri, exitCode, log>>

(* tokio::time::sleep(3 s) after both families failed.                     *)
Sleep ==
  /\ pc = "sleep"
  /\ pc' = "tick"
  /\ UNCHANGED <<round, uri, exitCode, log>>

(* Mutant (ProbeSchedule): the loop runs one round short.                  *)
TickShort ==
  /\ pc = "tick"
  /\ round' = round + 1
  /\ IF round + 2 < Rounds
       THEN pc' = "v4req" /\ UNCHANGED exitCode
       ELSE pc' = "exited" /\ exitCode' = 1
  /\ UNCHANGED <<uri, log>>

(* interval.tick(), then the next round, or, after the last one, the       *)
(* error message and std::process::exit(1).                                *)
Tick ==
  /\ pc = "tick"
  /\ round' = round + 1
  /\ IF round + 1 < Rounds
       THEN pc' = "v4req" /\ UNCHANGED exitCode
       ELSE pc' = "exited" /\ exitCode' = 1
  /\ UNCHANGED <<uri, log>>

-----------------------------------------------------------------------------
Init ==
  /\ round = 0
  /\ pc = "v4req"
  /\ uri = "none"
  /\ exitCode = -1
  /\ log = <<>>

Next ==
  \/ \E f \in Families :
       RequestFail(f) \/ RequestHeaders(f) \/ BodyOk(f) \/ BodyFail(f)
  \/ Sleep \/ Tick

Spec == Init /\ [][Next]_vars

(* The task is polled whenever it can run, and tokio's timeout makes       *)
(* client.request end within 3 s; the sleep and the tick end by the clock. *)
(* Nothing bounds the body read: it ends only if the node sends the body.  *)
Fairness ==
  /\ \A f \in Families : WF_vars(RequestFail(f) \/ RequestHeaders(f))
  /\ WF_vars(Sleep) /\ WF_vars(Tick)

FairSpec == Spec /\ Fairness

-----------------------------------------------------------------------------
ProbeTypeOK ==
  /\ round \in Nat
  /\ pc \in {"v4req", "v4body", "v6req", "v6body", "sleep", "tick",
             "connected", "exited"}
  /\ uri \in {"none"} \cup Families
  /\ log \in Seq(Families)

TypeOK == ProbeTypeOK /\ exitCode \in {-1, 1}

(* Spec 4.2 and scenario 2: every round tries IPv4 first and IPv6 second;  *)
(* the process exits only after all the rounds tried both families, and a  *)
(* returned URI is the family of the attempt that just answered.           *)
ProbeSchedule ==
  /\ \A k \in 1 .. Len(log) : log[k] = IF k % 2 = 1 THEN "v4" ELSE "v6"
  /\ pc = "exited" => Len(log) = 2 * Rounds
  /\ pc = "connected" => Len(log) > 0 /\ uri = log[Len(log)]

(* Spec 4.2 and 5: each probe attempt carries a 3 s deadline, so the probe *)
(* always ends, with a URI or with the process exit.                       *)
ProbeTerminates == <>(pc \in {"connected", "exited"})

=============================================================================
