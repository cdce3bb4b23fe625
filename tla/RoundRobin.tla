----------------------------- MODULE RoundRobin -----------------------------
(***************************************************************************)
(* thread_tick() for the options that do not look at the ready list:       *)
(* -alg 1 (fcfs), -alg 2 (roundrobin) and no option at all.  Under Round   *)
(* Robin each thread counts its own ticks and yields when it has used      *)
(* QUANTUM of them; the count survives a thread_block().                   *)
(***************************************************************************)
EXTENDS RunQueue

CONSTANT QUANTUM   \* 7 in the code

ASSUME QuantumAssumption == QUANTUM \in Nat \ {0}

VARIABLE tk        \* struct thread's ticks

rrVars == <<vars, tk>>

RRTypeOK == tk \in [Thread -> 0 .. QUANTUM - 1]

RRInit == Init /\ tk = [t \in Thread |-> 0]

(* timer_interrupt() up to and including thread_tick().                    *)
QuantumUsed == roundrobin /\ tk[cur] + 1 >= QUANTUM

TimerTick ==
  /\ IntrEnter(ready_list, QuantumUsed)
  /\ tk' = [tk EXCEPT ![cur] = IF QuantumUsed THEN 0
                               ELSE IF roundrobin THEN @ + 1 ELSE @]

(* An interrupt of another device: no handler but the timer's asks for a
   yield.                                                                  *)
DeviceInterrupt == IntrEnter(ready_list, FALSE) /\ UNCHANGED tk

(* init_thread() clears the count.                                         *)
RRInitThread(t) == InitThread(t) /\ tk' = [tk EXCEPT ![t] = 0]

(* What the kernel does with interrupts off: a handler returns, sema_down()
   goes round its loop.                                                    *)
AtomicStep ==
  /\ \/ SemaRetryPass
     \/ SemaRetryBlock
     \/ IntrReturn
     \/ IntrReturnYield
  /\ UNCHANGED tk

(* The steps of thread_start() and idle(), with ticks in between.          *)
KernelStep ==
  /\ \/ ThreadStart
     \/ SemaDownPass(idle_started)
     \/ SemaDownBlock(idle_started)
     \/ IdleInit
     \/ SemaUp(idle_started)
     \/ IdleBlock
  /\ UNCHANGED tk

(* What a thread function or a device may do, or not.                      *)
FreeStep ==
  /\ \/ \E s \in Public \cup {cur} : SemaDownPass(s) \/ SemaDownBlock(s)
     \/ \E s \in Public : SemaUp(s)
     \/ \E s \in Sema \ {idle_started} : IntrUp(s)
     \/ \E t \in Worker : UnblockNew(t)
     \/ ThreadYield
     \/ ThreadExit(ready_list)
  /\ UNCHANGED tk

RRNext ==
  \/ TimerTick
  \/ DeviceInterrupt
  \/ \E t \in Worker : RRInitThread(t)
  \/ AtomicStep
  \/ KernelStep
  \/ FreeStep

(* The interrupt controller keeps a timer interrupt pending while
   interrupts are off, so one is delivered again and again; code that runs
   with interrupts off is finite, and ticks leave time for the idle thread's
   next step.  Thread functions get no fairness.                           *)
Fairness ==
  /\ SF_rrVars(TimerTick)
  /\ WF_rrVars(AtomicStep)
  /\ SF_rrVars(KernelStep)

RRSpec == RRInit /\ [][RRNext]_rrVars /\ Fairness

-----------------------------------------------------------------------------
(* Round Robin starves nobody: whatever the other threads do, and however
   long the running one computes, a queued thread gets the processor.      *)
NoStarvation ==
  \A t \in Thread : t \in Range(ready_list) ~> cur = t

(* Every step is a step of the run queue.                                  *)
RunQueueSpec == Spec

=============================================================================
