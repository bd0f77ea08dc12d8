------------------------ MODULE SendRequestContract ------------------------
(***************************************************************************)
(* What JsonRpcConnector::send_request promises each caller (spec 4.2 and  *)
(* scenario 3), with the HTTP client, the sleep and the id counter         *)
(* abstracted away.  A call posts its request, and posts it again only     *)
(* after the node answered with the backpressure sentinel and fewer than   *)
(* max_attempts posts were made; it gives up only after the max_attempts-th *)
(* post; every other answer ends the call at once.                         *)
(***************************************************************************)
EXTENDS Naturals

CONSTANTS Callers, MaxAttempts

VARIABLES
  phase,    \* per caller: "idle", "ready" (about to post) or "posted"
  posts,    \* per caller: posts made by its current call
  outcome   \* per caller: how its last call ended

Outcomes == {"none", "ok", "rpcError", "serdeError", "hyperError", "gaveUp"}

(* Ways a call ends with the node's own answer or a transport error.       *)
Answers == {"ok", "rpcError", "serdeError", "hyperError"}

Init ==
  /\ phase = [c \in Callers |-> "idle"]
  /\ posts = [c \in Callers |-> 0]
  /\ outcome = [c \in Callers |-> "none"]

(* A caller starts a call.                                                 *)
Call(c) ==
  /\ phase[c] = "idle"
  /\ phase' = [phase EXCEPT ![c] = "ready"]
  /\ posts' = [posts EXCEPT ![c] = 0]
  /\ UNCHANGED outcome

(* The request reaches the node, while posts are left.                     *)
Post(c) ==
  /\ phase[c] = "ready" /\ posts[c] < MaxAttempts
  /\ phase' = [phase EXCEPT ![c] = "posted"]
  /\ posts' = [posts EXCEPT ![c] = @ + 1]
  /\ UNCHANGED outcome

(* The sentinel answers a post that was not the last allowed one.          *)
Busy(c) ==
  /\ phase[c] = "posted" /\ posts[c] < MaxAttempts
  /\ phase' = [phase EXCEPT ![c] = "ready"]
  /\ UNCHANGED <<posts, outcome>>

(* Any other answer, or a failure, ends the call with it.                  *)
Return(c, a) ==
  /\ phase[c] = "posted"
  /\ phase' = [phase EXCEPT ![c] = "idle"]
  /\ outcome' = [outcome EXCEPT ![c] = a]
  /\ UNCHANGED posts

(* The sentinel on the max_attempts-th post ends the call in failure.      *)
GiveUp(c) ==
  /\ phase[c] = "posted" /\ posts[c] = MaxAttempts
  /\ phase' = [phase EXCEPT ![c] = "idle"]
  /\ outcome' = [outcome EXCEPT ![c] = "gaveUp"]
  /\ UNCHANGED posts

Next ==
  \E c \in Callers :
    \/ Call(c) \/ Post(c) \/ Busy(c) \/ GiveUp(c)
    \/ \E a \in Answers : Return(c, a)

Spec == Init /\ [][Next]_<<phase, posts, outcome>>

=============================================================================
