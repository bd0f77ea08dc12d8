--------------------------- MODULE ConnectorProofs ---------------------------
(***************************************************************************)
(* The retry policy of JsonRpcConnector::send_request, for every number of *)
(* concurrent callers, every max_attempts and every id width.              *)
(***************************************************************************)
EXTENDS JsonRpcConnector, FiniteSetTheorems, TLAPS

USE MaxAttemptsAssumption, MaxCallsAssumption

-----------------------------------------------------------------------------
(* The i32 arithmetic of id_counter at any width.                          *)

(* 2^(IdWidth-1) is a positive natural: it counts the subsets of           *)
(* 1..IdWidth-1, a finite set, and the empty set is one of them.           *)
LEMMA HalfPos == Half \in Nat \ {0}
<1> DEFINE S == 1 .. (IdWidth - 1)
<1>1. IsFiniteSet(S) /\ Cardinality(S) = IdWidth - 1
  BY IdWidthAssumption, FS_Interval
<1>2. IsFiniteSet(SUBSET S) /\ Cardinality(SUBSET S) = Half
  BY <1>1, FS_SUBSET DEF Half
<1>3. Cardinality(SUBSET S) \in Nat
  BY <1>2, FS_CardinalityType
<1>4. {} \in SUBSET S
  OBVIOUS
<1>5. Cardinality(SUBSET S) # 0
  BY <1>2, <1>4, FS_EmptySet, Zenon
<1>. QED BY <1>2, <1>3, <1>5

(* fetch_add's wrap lands in the i32 range whatever it is given.           *)
LEMMA WrapRange ==
  ASSUME NEW x \in Int
  PROVE  Wrap(x) \in IdRange
BY HalfPos DEF Wrap, IdRange

LEMMA TypeInit == Init => TypeOK
BY HalfPos DEF Init, TypeOK, IdRange, Results, NoId

LEMMA TypeStep == TypeOK /\ [Next]_vars => TypeOK'
<1> SUFFICES ASSUME TypeOK, [Next]_vars PROVE TypeOK'
  OBVIOUS
(* fetch_add: the caller's id is the old counter, the counter wraps.       *)
<1>1. ASSUME NEW c \in Callers, SendRequest(c) PROVE TypeOK'
  <2>1. idCounter' \in IdRange
    BY <1>1, WrapRange, HalfPos DEF SendRequest, TypeOK, IdRange
  <2>. QED BY <1>1, <2>1 DEF SendRequest, TypeOK
<1>2. ASSUME NEW c \in Callers, Post(c) PROVE TypeOK'
  BY <1>2 DEF Post, TypeOK
<1>3. ASSUME NEW c \in Callers, NEW body \in NodeBodies, Receive(c, body)
      PROVE TypeOK'
  BY <1>3 DEF Receive, TypeOK, NodeBodies, Results
<1>4. ASSUME NEW c \in Callers, Wake(c) PROVE TypeOK'
  BY <1>4 DEF Wake, TypeOK
<1>5. CASE UNCHANGED vars
  BY <1>5 DEF vars, TypeOK
<1>. QED BY <1>1, <1>2, <1>3, <1>4, <1>5 DEF Next

-----------------------------------------------------------------------------
(* The retry policy.                                                       *)

(* RetryPolicy is not inductive: a caller about to post (at the loop head  *)
(* or asleep after a sentinel) must still have an attempt left, and one    *)
(* awaiting a response has made at least one and at most max_attempts.    *)
RetryInv ==
  /\ pc \in [Callers -> {"idle", "post", "await", "sleep"}]
  /\ attempts \in [Callers -> Nat]
  /\ result \in [Callers -> Results]
  /\ \A c \in Callers : pc[c] \in {"post", "sleep"} => attempts[c] < MaxAttempts
  /\ \A c \in Callers : pc[c] = "await" => attempts[c] \in 1 .. MaxAttempts
  /\ RetryPolicy

LEMMA RetryInit == Init => RetryInv
BY DEF Init, RetryInv, RetryPolicy, Results

LEMMA RetryStep == RetryInv /\ [Next]_vars => RetryInv'
<1> SUFFICES ASSUME RetryInv, [Next]_vars PROVE RetryInv'
  OBVIOUS
(* fetch_add starts a call at the loop head with attempts = 0.             *)
<1>1. ASSUME NEW c \in Callers, SendRequest(c) PROVE RetryInv'
  BY <1>1 DEF SendRequest, RetryInv, RetryPolicy
(* attempts += 1 before the post: the loop head left one attempt.          *)
<1>2. ASSUME NEW c \in Callers, Post(c) PROVE RetryInv'
  BY <1>2 DEF Post, RetryInv, RetryPolicy
(* A sentinel below max_attempts sleeps with an attempt left; any other    *)
(* answer returns, with gaveUp only once attempts >= max_attempts.         *)
<1>3. ASSUME NEW c \in Callers, NEW body \in NodeBodies, Receive(c, body)
      PROVE RetryInv'
  <2>1. CASE body = "busy" /\ ~GiveUp(attempts[c])
    BY <1>3, <2>1 DEF Receive, GiveUp, RetryInv, RetryPolicy
  <2>2. CASE ~(body = "busy" /\ ~GiveUp(attempts[c]))
    <3>1. result' = [result EXCEPT ![c] =
                       CASE body = "busy"       -> "gaveUp"
                         [] body = "result"     -> "ok"
                         [] body = "rpcError"   -> "rpcError"
                         [] body = "badJson"    -> "serdeError"
                         [] body = "hyperError" -> "hyperError"]
          /\ pc' = [pc EXCEPT ![c] = "idle"]
          /\ UNCHANGED attempts
      BY <1>3, <2>2 DEF Receive
    <3>2. result'[c] \in Results /\ (result'[c] = "gaveUp" => body = "busy")
      BY <3>1, <1>3 DEF RetryInv, NodeBodies, Results
    <3>3. body = "busy" => attempts[c] = MaxAttempts
      BY <1>3, <2>2 DEF GiveUp, RetryInv, Receive
    <3>. QED BY <1>3, <3>1, <3>2, <3>3 DEF RetryInv, RetryPolicy, Receive
  <2>. QED BY <2>1, <2>2
(* The 500 ms sleep ends at the loop head with attempts unchanged.         *)
<1>4. ASSUME NEW c \in Callers, Wake(c) PROVE RetryInv'
  BY <1>4 DEF Wake, RetryInv, RetryPolicy
<1>5. CASE UNCHANGED vars
  BY <1>5 DEF vars, RetryInv, RetryPolicy
<1>. QED BY <1>1, <1>2, <1>3, <1>4, <1>5 DEF Next

(* Spec => []RetryPolicy: for any number of tasks sharing one connector    *)
(* and any max_attempts, send_request posts one logical request at most    *)
(* max_attempts times, and returns the "after multiple attempts" error     *)
(* only after exactly max_attempts posts all met the sentinel.             *)
THEOREM RetryPolicyHolds == Spec => []RetryPolicy
<1>1. Init => RetryInv BY RetryInit
<1>2. RetryInv /\ [Next]_vars => RetryInv' BY RetryStep
<1>3. RetryInv => RetryPolicy BY DEF RetryInv
<1>. QED BY <1>1, <1>2, <1>3, PTL DEF Spec

-----------------------------------------------------------------------------
(* send_request implements SendRequestContract.                            *)

AbsPhase == [c \in Callers |-> CallPhase(pc[c])]
absVars == <<AbsPhase, attempts, result>>

LEMMA ContractInit == Init => Contract!Init
BY DEF Init, Contract!Init, CallPhase

(* One caller moves from program point p to q: the mapped phase of that    *)
(* caller alone changes, to CallPhase(q).                                  *)
LEMMA PhaseMove ==
  ASSUME NEW c \in Callers, NEW q,
         pc \in [Callers -> {"idle", "post", "await", "sleep"}],
         pc' = [pc EXCEPT ![c] = q]
  PROVE  [d \in Callers |-> CallPhase(pc'[d])]
           = [AbsPhase EXCEPT ![c] = CallPhase(q)]
BY DEF AbsPhase

LEMMA ContractStep == RetryInv /\ [Next]_vars => [Contract!Next]_absVars
<1> SUFFICES ASSUME RetryInv, [Next]_vars PROVE [Contract!Next]_absVars
  OBVIOUS
<1>t. pc \in [Callers -> {"idle", "post", "await", "sleep"}]
      /\ attempts \in [Callers -> Nat]
  BY DEF RetryInv
(* fetch_add and attempts = 0: the call starts, ready to post.             *)
<1>1. ASSUME NEW c \in Callers, SendRequest(c) PROVE [Contract!Next]_absVars
  <2>1. [d \in Callers |-> CallPhase(pc'[d])] = [AbsPhase EXCEPT ![c] = "ready"]
    BY <1>1, <1>t, PhaseMove DEF SendRequest, CallPhase
  <2>2. Contract!Call(c)
    BY <1>1, <1>t, <2>1 DEF SendRequest, Contract!Call, AbsPhase, CallPhase
  <2>. QED BY <2>2 DEF Contract!Next
(* attempts += 1 and the post: the loop head left an attempt.             *)
<1>2. ASSUME NEW c \in Callers, Post(c) PROVE [Contract!Next]_absVars
  <2>1. [d \in Callers |-> CallPhase(pc'[d])] = [AbsPhase EXCEPT ![c] = "posted"]
    BY <1>2, <1>t, PhaseMove DEF Post, CallPhase
  <2>2. attempts[c] < MaxAttempts
    BY <1>2 DEF Post, RetryInv
  <2>3. Contract!Post(c)
    BY <1>2, <1>t, <2>1, <2>2 DEF Post, Contract!Post, AbsPhase, CallPhase
  <2>. QED BY <2>3 DEF Contract!Next
<1>3. ASSUME NEW c \in Callers, NEW body \in NodeBodies, Receive(c, body)
      PROVE [Contract!Next]_absVars
  <2>0. pc[c] = "await" /\ attempts[c] \in 1 .. MaxAttempts
    BY <1>3 DEF Receive, RetryInv
  (* A sentinel below max_attempts: the caller sleeps, ready to re-post.   *)
  <2>1. CASE body = "busy" /\ ~GiveUp(attempts[c])
    <3>1. [d \in Callers |-> CallPhase(pc'[d])] = [AbsPhase EXCEPT ![c] = "ready"]
      BY <1>3, <2>1, <1>t, PhaseMove DEF Receive, CallPhase
    <3>2. Contract!Busy(c)
      BY <1>3, <2>0, <2>1, <3>1, <1>t DEF Receive, GiveUp, Contract!Busy,
                                           AbsPhase, CallPhase
    <3>. QED BY <3>2 DEF Contract!Next
  (* Any other answer returns; the sentinel only on the last attempt.      *)
  <2>2. CASE ~(body = "busy" /\ ~GiveUp(attempts[c]))
    <3>1. [d \in Callers |-> CallPhase(pc'[d])] = [AbsPhase EXCEPT ![c] = "idle"]
      BY <1>3, <2>2, <1>t, PhaseMove DEF Receive, CallPhase
    <3>2. /\ result' = [result EXCEPT ![c] =
                         CASE body = "busy"       -> "gaveUp"
                           [] body = "result"     -> "ok"
                           [] body = "rpcError"   -> "rpcError"
                           [] body = "badJson"    -> "serdeError"
                           [] body = "hyperError" -> "hyperError"]
          /\ UNCHANGED attempts
      BY <1>3, <2>2 DEF Receive
    <3>3. CASE body = "busy"
      <4>1. attempts[c] = MaxAttempts
        BY <2>0, <2>2, <3>3 DEF GiveUp
      <4>2. Contract!GiveUp(c)
        BY <2>0, <3>1, <3>2, <3>3, <4>1 DEF Contract!GiveUp, AbsPhase, CallPhase
      <4>. QED BY <4>2 DEF Contract!Next
    <3>4. CASE body # "busy"
      <4> DEFINE a == CASE body = "result"     -> "ok"
                        [] body = "rpcError"   -> "rpcError"
                        [] body = "badJson"    -> "serdeError"
                        [] body = "hyperError" -> "hyperError"
      <4>1. a \in Contract!Answers /\ result' = [result EXCEPT ![c] = a]
        BY <3>2, <3>4 DEF NodeBodies, Contract!Answers
      <4>2. Contract!Return(c, a)
        BY <2>0, <3>1, <3>2, <4>1 DEF Contract!Return, AbsPhase, CallPhase
      <4>. QED BY <4>1, <4>2 DEF Contract!Next
    <3>. QED BY <3>3, <3>4
  <2>. QED BY <2>1, <2>2
(* The 500 ms sleep ends at the loop head: ready before and after.         *)
<1>4. ASSUME NEW c \in Callers, Wake(c) PROVE [Contract!Next]_absVars
  <2>1. [d \in Callers |-> CallPhase(pc'[d])] = [AbsPhase EXCEPT ![c] = "ready"]
    BY <1>4, <1>t, PhaseMove DEF Wake, CallPhase
  <2>2. AbsPhase' = AbsPhase
    BY <1>4, <1>t, <2>1 DEF Wake, AbsPhase, CallPhase
  <2>. QED BY <1>4, <2>2 DEF Wake, absVars
<1>5. CASE UNCHANGED vars
  BY <1>5 DEF vars, absVars, AbsPhase
<1>. QED BY <1>1, <1>2, <1>3, <1>4, <1>5 DEF Next

(* Spec => ContractRefinement: for any number of tasks sharing a connector *)
(* and any max_attempts, every behaviour of send_request is one of         *)
(* SendRequestContract: a request is re-posted only after the sentinel and *)
(* below max_attempts posts, the give-up error follows exactly the         *)
(* max_attempts-th post, and every other answer is returned at once.       *)
THEOREM ContractImplemented == Spec => ContractRefinement
<1>1. Init => RetryInv /\ Contract!Init BY RetryInit, ContractInit
<1>2. RetryInv /\ [Next]_vars => RetryInv' BY RetryStep
<1>3. RetryInv /\ [Next]_vars => [Contract!Next]_absVars BY ContractStep
<1>. QED BY <1>1, <1>2, <1>3, PTL
     DEF Spec, ContractRefinement, Contract!Spec, absVars, AbsPhase

=============================================================================
