--------------------------- MODULE NodeProbeProofs ---------------------------
(***************************************************************************)
(* The schedule of test_node_and_return_uri, proved for every run of the   *)
(* probe.  ProbeSchedule speaks of the history log only; the inductive     *)
(* invariant ties the length of the log to the loop index and the program  *)
(* point, which is what the code's control flow fixes.                     *)
(***************************************************************************)
EXTENDS NodeProbe, SequenceTheorems, TLAPS

(* The alternation part of ProbeSchedule.                                  *)
Alternates == \A k \in 1 .. Len(log) : log[k] = IF k % 2 = 1 THEN "v4" ELSE "v6"

(* Within round `round`, the IPv4 attempt is number 2*round+1 and the IPv6 *)
(* attempt 2*round+2; the sleep and the tick follow both.                  *)
ProbeInv ==
  /\ TypeOK
  /\ round \in 0 .. Rounds
  /\ Alternates
  /\ pc = "v4req" => Len(log) = 2 * round /\ round < Rounds
  /\ pc \in {"v4body", "v6req"} => Len(log) = 2 * round + 1 /\ round < Rounds
  /\ pc \in {"v6body", "sleep", "tick"} => Len(log) = 2 * round + 2 /\ round < Rounds
  /\ pc = "exited" => Len(log) = 2 * Rounds
  /\ pc = "connected" => Len(log) > 0 /\ uri = log[Len(log)]

(* The entry of the family f attempt is the one Alternates puts next.      *)
LEMMA AppendAlternates ==
  ASSUME NEW f \in Families, log \in Seq(Families), Alternates,
         (Len(log) + 1) % 2 = 1 <=> f = "v4"
  PROVE  LET l2 == Append(log, f) IN
           \A k \in 1 .. Len(l2) : l2[k] = IF k % 2 = 1 THEN "v4" ELSE "v6"
<1>1. /\ Len(Append(log, f)) = Len(log) + 1
      /\ \A i \in 1 .. Len(log) : Append(log, f)[i] = log[i]
      /\ Append(log, f)[Len(log) + 1] = f
  BY AppendProperties
<1>. QED BY <1>1 DEF Alternates, Families

LEMMA ProbeInit == Init => ProbeInv
BY DEF Init, ProbeInv, TypeOK, ProbeTypeOK, Alternates, Rounds

LEMMA ProbeInvStep == ProbeInv /\ [Next]_vars => ProbeInv'
<1> SUFFICES ASSUME ProbeInv, [Next]_vars PROVE ProbeInv'
  OBVIOUS
<1>0. log \in Seq(Families) /\ Len(log) \in Nat
  BY DEF ProbeInv, TypeOK, ProbeTypeOK
(* A request attempt ends: its family is the next entry of the log.        *)
<1>1. ASSUME NEW f \in Families, RequestFail(f) \/ RequestHeaders(f)
      PROVE  ProbeInv'
  <2>1. pc = ReqPc(f) /\ log' = Append(log, f) /\ UNCHANGED <<round, uri, exitCode>>
        /\ pc' \in {AfterFailure(f), BodyPc(f)}
    BY <1>1 DEF RequestFail, RequestHeaders
  <2>2. Len(log') = Len(log) + 1 /\ log' \in Seq(Families)
    BY <2>1, <1>0, AppendProperties
  <2>3. (Len(log) + 1) % 2 = 1 <=> f = "v4"
    <3>0. round \in Nat BY DEF ProbeInv
    <3>1. CASE f = "v4"
      <4>1. Len(log) = 2 * round BY <2>1, <3>1 DEF ProbeInv, ReqPc
      <4>. QED BY <4>1, <3>0, <3>1
    <3>2. CASE f = "v6"
      <4>1. Len(log) = 2 * round + 1 BY <2>1, <3>2 DEF ProbeInv, ReqPc
      <4>. QED BY <4>1, <3>0, <3>2
    <3>. QED BY <3>1, <3>2 DEF Families
  <2>4. Alternates'
    <3>1. \A k \in 1 .. Len(Append(log, f)) :
            Append(log, f)[k] = IF k % 2 = 1 THEN "v4" ELSE "v6"
      BY <2>3, <1>0, AppendAlternates DEF ProbeInv
    <3>. QED BY <3>1, <2>1 DEF Alternates
  <2>. QED
    BY <2>1, <2>2, <2>4 DEF ProbeInv, TypeOK, ProbeTypeOK, ReqPc, BodyPc,
                            AfterFailure, Families
(* The body is read: the URI returned is the family just logged.           *)
<1>2. ASSUME NEW f \in Families, BodyOk(f) PROVE ProbeInv'
  <2>1. pc = BodyPc(f) /\ uri' = f /\ pc' = "connected"
        /\ UNCHANGED <<round, exitCode, log>>
    BY <1>2 DEF BodyOk
  <2>2. Len(log) > 0 /\ (Len(log) % 2 = 1 <=> f = "v4")
    BY <2>1, <1>0 DEF ProbeInv, BodyPc, Families
  <2>3. log[Len(log)] = f
    BY <2>2, <1>0 DEF ProbeInv, Alternates, Families
  <2>. QED BY <2>1, <2>2, <2>3 DEF ProbeInv, TypeOK, ProbeTypeOK, Alternates
<1>3. ASSUME NEW f \in Families, BodyFail(f) PROVE ProbeInv'
  BY <1>3 DEF BodyFail, ProbeInv, TypeOK, ProbeTypeOK, Alternates, BodyPc,
              AfterFailure, Families
<1>4. CASE Sleep
  BY <1>4 DEF Sleep, ProbeInv, TypeOK, ProbeTypeOK, Alternates
(* The tick ends a round: the next one starts, or all three are spent.     *)
<1>5. CASE Tick
  BY <1>5 DEF Tick, ProbeInv, TypeOK, ProbeTypeOK, Alternates, Rounds
<1>6. CASE UNCHANGED vars
  BY <1>6 DEF vars, ProbeInv, TypeOK, ProbeTypeOK, Alternates
<1>. QED BY <1>1, <1>2, <1>3, <1>4, <1>5, <1>6 DEF Next

(* Spec => []ProbeSchedule: on every run of the probe, the attempts        *)
(* alternate IPv4 then IPv6, the process exits only after all three rounds *)
(* tried both families, and the URI returned is the family whose request   *)
(* answered last.                                                          *)
THEOREM ProbeScheduleHolds == Spec => []ProbeSchedule
<1>1. Init => ProbeInv BY ProbeInit
<1>2. ProbeInv /\ [Next]_vars => ProbeInv' BY ProbeInvStep
<1>3. ProbeInv => ProbeSchedule BY DEF ProbeInv, ProbeSchedule, Alternates
<1>. QED BY <1>1, <1>2, <1>3, PTL DEF Spec

=============================================================================
