--------------------------- MODULE JsonRpcConnector ---------------------------
(***************************************************************************)
(* JsonRpcConnector::send_request (zingo-rpc/src/jsonrpc/connector.rs),    *)
(* called concurrently by several tasks sharing one connector: the id is   *)
(* taken from the shared AtomicI32 with fetch_add, the same request is     *)
(* re-posted while the node's body carries the "Work queue depth exceeded" *)
(* sentinel, up to max_attempts posts, and every other outcome returns.    *)
(*                                                                         *)
(* The node's answer to one POST is one of NodeBodies, chosen by the node; *)
(* transport and serde failures end the call through `?`.                 *)
(***************************************************************************)
EXTENDS Integers

CONSTANTS
  Callers,       \* tasks calling send_request on one connector
  MaxAttempts,   \* max_attempts (5 in the code)
  IdWidth,       \* bit width of id_counter (32 in the code: AtomicI32)
  MaxCalls       \* bound on the number of send_request calls explored

ASSUME MaxAttemptsAssumption == MaxAttempts \in Nat \ {0}
ASSUME IdWidthAssumption == IdWidth \in Nat \ {0}
ASSUME MaxCallsAssumption == MaxCalls \in Nat

VARIABLES
  idCounter,  \* the connector's id_counter
  pc,         \* per caller: "idle", "post" (loop head), "await", "sleep"
  id,         \* per caller: the id of its current request
  attempts,   \* per caller: the local `attempts`
  result,     \* per caller: how its last call returned
  calls,      \* number of calls made so far (the exploration bound)
  lastId      \* history: the id handed out by the last fetch_add
              \* (NoId, below every id, before the first)

vars == <<idCounter, pc, id, attempts, result, calls, lastId>>

(* The i32 range at width IdWidth, and two's-complement wrap into it.       *)
Half == 2 ^ (IdWidth - 1)
IdRange == -Half .. Half - 1
(* AtomicI32::fetch_add wraps around on overflow.                          *)
Wrap(x) == ((x + Half) % (2 * Half)) - Half
NoId == -Half - 1

(* What one POST can come back with: the backpressure sentinel, a valid     *)
(* result envelope, an error envelope, a body that is not JSON, or a hyper  *)
(* error on the request or on reading the body.                            *)
NodeBodies == {"busy", "result", "rpcError", "badJson", "hyperError"}

Results == {"none", "ok", "rpcError", "serdeError", "hyperError", "gaveUp"}

-----------------------------------------------------------------------------
(* Entry of send_request: id = id_counter.fetch_add(1), attempts = 0.       *)
SendRequest(c) ==
  /\ pc[c] = "idle" /\ calls < MaxCalls
  /\ id' = [id EXCEPT ![c] = idCounter]
  /\ idCounter' = Wrap(idCounter + 1)
  /\ lastId' = idCounter
  /\ attempts' = [attempts EXCEPT ![c] = 0]
  /\ pc' = [pc EXCEPT ![c] = "post"]
  /\ calls' = calls + 1
  /\ UNCHANGED result

(* Loop head: attempts += 1, build the request and await client.request.    *)
Post(c) ==
  /\ pc[c] = "post"
  /\ attempts' = [attempts EXCEPT ![c] = @ + 1]
  /\ pc' = [pc EXCEPT ![c] = "await"]
  /\ UNCHANGED <<idCounter, id, result, calls, lastId>>

(* Mutant (RetryPolicy): the give-up test is one attempt late.             *)
GiveUpLate(n) == n > MaxAttempts

(* `if attempts >= max_attempts`.                                          *)
GiveUp(n) == n >= MaxAttempts

(* The response (or its failure) arrives.  The sentinel either ends the     *)
(* call with the give-up error or sends the task to sleep 500 ms; any other *)
(* body returns at once.                                                   *)
Receive(c, body) ==
  /\ pc[c] = "await"
  /\ IF body = "busy" /\ ~GiveUp(attempts[c])
       THEN /\ pc' = [pc EXCEPT ![c] = "sleep"]
            /\ UNCHANGED result
       ELSE /\ pc' = [pc EXCEPT ![c] = "idle"]
            /\ result' = [result EXCEPT ![c] =
                 CASE body = "busy"       -> "gaveUp"
                   [] body = "result"     -> "ok"
                   [] body = "rpcError"   -> "rpcError"
                   [] body = "badJson"    -> "serdeError"
                   [] body = "hyperError" -> "hyperError"]
  /\ UNCHANGED <<idCounter, id, attempts, calls, lastId>>

(* tokio::time::sleep(500 ms) ends; `continue` to the loop head.           *)
Wake(c) ==
  /\ pc[c] = "sleep"
  /\ pc' = [pc EXCEPT ![c] = "post"]
  /\ UNCHANGED <<idCounter, id, attempts, result, calls, lastId>>

-----------------------------------------------------------------------------
(* JsonRpcConnector::new: id_counter = AtomicI32::new(0).                  *)
Init ==
  /\ idCounter = 0
  /\ pc = [c \in Callers |-> "idle"]
  /\ id = [c \in Callers |-> 0]
  /\ attempts = [c \in Callers |-> 0]
  /\ result = [c \in Callers |-> "none"]
  /\ calls = 0
  /\ lastId = NoId

Next ==
  \E c \in Callers :
    \/ SendRequest(c) \/ Post(c) \/ Wake(c)
    \/ \E body \in NodeBodies : Receive(c, body)

Spec == Init /\ [][Next]_vars

-----------------------------------------------------------------------------
TypeOK ==
  /\ idCounter \in IdRange
  /\ pc \in [Callers -> {"idle", "post", "await", "sleep"}]
  /\ id \in [Callers -> IdRange]
  /\ attempts \in [Callers -> Nat]
  /\ result \in [Callers -> Results]
  /\ calls \in 0 .. MaxCalls
  /\ lastId \in IdRange \cup {NoId}

(* Spec 4.2 and 8, the retry policy: one logical request reaches the HTTP  *)
(* layer at most max_attempts times, and send_request gives up on the      *)
(* sentinel only once it has been posted exactly max_attempts times (so    *)
(* four sentinels followed by a result still succeed).                     *)
RetryPolicy ==
  \A c \in Callers :
    /\ attempts[c] <= MaxAttempts
    /\ pc[c] = "idle" /\ result[c] = "gaveUp" => attempts[c] = MaxAttempts

(* Spec 8: "the JSON-RPC request id is strictly monotonically increasing   *)
(* within a single client, across concurrent callers": every fetch_add     *)
(* hands out an id greater than the one handed out before it.              *)
IdIncreasing ==
  [][lastId' # lastId => lastId' > lastId]_vars

-----------------------------------------------------------------------------
(* The refinement mapping onto SendRequestContract: a caller at the loop   *)
(* head or in the 500 ms sleep is ready to post, one awaiting              *)
(* client.request has posted; the local attempts counts the posts.         *)
CallPhase(p) ==
  CASE p = "idle"  -> "idle"
    [] p = "await" -> "posted"
    [] OTHER       -> "ready"

Contract == INSTANCE SendRequestContract
              WITH phase <- [c \in Callers |-> CallPhase(pc[c])],
                   posts <- attempts, outcome <- result

(* Spec 4.2 and scenario 3, as SendRequestContract states them: each call  *)
(* of send_request re-posts its request only after the sentinel and below  *)
(* max_attempts posts, gives up only after the max_attempts-th post, and   *)
(* returns every other answer or error at once.                            *)
ContractRefinement == Contract!Spec

=============================================================================
