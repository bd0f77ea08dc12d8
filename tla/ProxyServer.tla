----------------------------- MODULE ProxyServer -----------------------------
(***************************************************************************)
(* zingo-proxyd's gRPC front (zingo-proxyd/src/server.rs): spawn_server    *)
(* finds the node's URI and unwraps the result, ProxyServer::new builds a  *)
(* ProxyClient with an online flag of its own, and ProxyServer::serve      *)
(* spawns a task that runs tonic's Server::serve while the caller's online *)
(* flag is set, and returns the first transport error.                     *)
(*                                                                         *)
(* The probe spawn_server calls, JsonRpcConnector::test_and_return_uri, is *)
(* not defined in zingo-rpc (the connector has test_node_and_return_uri);  *)
(* its outcome is left open: a URI, or an error that the unwrap turns into *)
(* a panic.  tonic's serve(addr), given no shutdown signal, returns only   *)
(* when the transport fails; the model also lets it return Ok.             *)
(***************************************************************************)
VARIABLES
  online,        \* the Arc<AtomicBool> passed to spawn_server
  clientOnline,  \* ProxyClient.online, created by ProxyServer::new
  pc             \* "probe", "check" (the while test), "serving",
                 \* "ok", "err" (the task returned) or "panicked"

vars == <<online, clientOnline, pc>>

Ended == {"ok", "err", "panicked"}

(* spawn_server: the probe's result is unwrapped; ProxyServer::new, then   *)
(* serve spawns the task.                                                  *)
ProbeOk ==
  /\ pc = "probe"
  /\ clientOnline' = TRUE
  /\ pc' = "check"
  /\ UNCHANGED online

ProbeFails ==
  /\ pc = "probe"
  /\ pc' = "panicked"
  /\ UNCHANGED <<online, clientOnline>>

(* `while online.load(SeqCst)`: enter tonic's serve, or return Ok(()).     *)
Check ==
  /\ pc = "check"
  /\ pc' = IF online THEN "serving" ELSE "ok"
  /\ UNCHANGED <<online, clientOnline>>

(* Server::builder().add_service(..).serve(sockaddr).await completes:      *)
(* Ok loops back to the test, Err is returned from the task.               *)
ServeReturns(outcome) ==
  /\ pc = "serving"
  /\ pc' = IF outcome = "ok" THEN "check" ELSE "err"
  /\ UNCHANGED <<online, clientOnline>>

(* The owner of the flag (zingo-proxyd's main, not under src/) clears it.  *)
ClearOnline ==
  /\ online
  /\ online' = FALSE
  /\ UNCHANGED <<clientOnline, pc>>

Init ==
  /\ online = TRUE
  /\ clientOnline = FALSE
  /\ pc = "probe"

Next ==
  \/ ProbeOk \/ ProbeFails \/ Check \/ ClearOnline
  \/ \E outcome \in {"ok", "err"} : ServeReturns(outcome)

Spec == Init /\ [][Next]_vars

(* The spawned task is polled whenever it can run; tonic's serve is not    *)
(* forced to return, and nobody is forced to clear the flag.               *)
FairSpec == Spec /\ WF_vars(ProbeOk \/ ProbeFails) /\ WF_vars(Check)

(* The `while online.load(..)` loop of ProxyServer::serve: once the        *)
(* caller clears online, the server task eventually ends.                  *)
StopsWhenOffline == ~online ~> pc \in Ended

=============================================================================
