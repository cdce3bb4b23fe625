-------------------------- MODULE RoundRobinProofs --------------------------
(***************************************************************************)
(* Round Robin (and fcfs, and no option at all) implements the run queue,  *)
(* so that what RunQueueProofs proves holds under it; and a thread never   *)
(* runs on past its quantum.                                               *)
(***************************************************************************)
EXTENDS RoundRobin, RunQueueProofs

(* A policy that leaves the run queue as it is picks one of its orders.    *)
LEMMA SameOrder ==
  ASSUME NEW S, NEW s \in Seq(S)
  PROVE  s \in Reorderings(s)
<1> DEFINE p == [i \in DOMAIN s |-> i]
<1>1. p \in Bijection(DOMAIN s, DOMAIN s)
  BY DEF Bijection, Injection, Surjection, IsInjective
<1>2. s = [i \in DOMAIN s |-> s[p[i]]]
  OBVIOUS
<1> HIDE DEF p
<1> QED BY <1>1, <1>2 DEF Reorderings

(* Every step of the policy is a step of the run queue, or leaves it alone. *)
LEMMA RRStep ==
  ASSUME IndInv, [RRNext]_rrVars
  PROVE  [Next]_vars
<1>1. /\ ready_list \in Reorderings(ready_list)
      /\ cur \in Sema /\ idle_started \in Sema /\ Public \subseteq Sema
  BY SameOrder, ConstantsAssumption DEF IndInv, TypeOK, Sema, Public
<1>2. CASE TimerTick \/ DeviceInterrupt
  <2>1. \E y \in BOOLEAN : IntrEnter(ready_list, y)
    BY Zenon, <1>2 DEF TimerTick, DeviceInterrupt, QuantumUsed, roundrobin
  <2> QED BY <1>1, <2>1 DEF Next, NotSwitching
<1>3. ASSUME NEW t \in Worker, RRInitThread(t) PROVE Next
  BY <1>3 DEF RRInitThread, Next, NotSwitching
<1>4. CASE AtomicStep
  BY <1>4 DEF AtomicStep, Next, NotSwitching, Switching
<1>5. CASE KernelStep
  BY <1>1, <1>5 DEF KernelStep, Next, NotSwitching, Switching
<1>6. CASE FreeStep
  BY <1>1, <1>6 DEF FreeStep, Next, NotSwitching, Switching
<1>7. CASE UNCHANGED rrVars
  BY <1>7 DEF rrVars
<1> QED BY <1>2, <1>3, <1>4, <1>5, <1>6, <1>7 DEF RRNext

(* Round Robin implements the run queue.                                   *)
THEOREM RRImplementsRunQueue == RRSpec => RunQueueSpec
<1>1. RRInit => Init /\ IndInv
  BY IndInvInit DEF RRInit
<1>2. IndInv /\ [RRNext]_rrVars => IndInv' /\ [Next]_vars
  BY RRStep, IndInvStep
<1> QED BY <1>1, <1>2, PTL DEF RRSpec, RunQueueSpec, Spec

(* No thread is charged a whole quantum and keeps the processor: the tick
   that uses the quantum up resets the count and asks for the yield.       *)
THEOREM QuantumBounded == RRSpec => []RRTypeOK
<1> USE QuantumAssumption
<1>1. RRInit => RRTypeOK
  BY DEF RRInit, RRTypeOK
<1>2. IndInv /\ RRTypeOK /\ [RRNext]_rrVars => RRTypeOK'
  <2> SUFFICES ASSUME IndInv, RRTypeOK, [RRNext]_rrVars PROVE RRTypeOK'
    OBVIOUS
  <2>1. cur \in Thread /\ (roundrobin \/ ~roundrobin)
    BY DEF IndInv, TypeOK
  <2>2. CASE TimerTick
    <3>1. CASE QuantumUsed
      BY <2>1, <2>2, <3>1 DEF TimerTick, RRTypeOK
    <3>2. CASE ~QuantumUsed
      BY <2>1, <2>2, <3>2 DEF TimerTick, QuantumUsed, RRTypeOK
    <3> QED BY <3>1, <3>2
  <2>3. ASSUME NEW t \in Worker, RRInitThread(t) PROVE RRTypeOK'
    BY <2>3 DEF RRInitThread, RRTypeOK, Thread
  <2> QED
    BY Zenon, <2>2, <2>3 DEF RRNext, RRTypeOK, DeviceInterrupt, AtomicStep, KernelStep, FreeStep,
       rrVars
<1>3. IndInv /\ [RRNext]_rrVars => IndInv'
  BY RRStep, IndInvStep
<1>4. RRInit => IndInv
  BY IndInvInit DEF RRInit
<1> QED BY <1>1, <1>2, <1>3, <1>4, PTL DEF RRSpec

=============================================================================
