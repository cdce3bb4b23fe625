------------------------------- MODULE Mlfqs --------------------------------
(***************************************************************************)
(* The multi-level feedback queue (-alg 4): thread_tick() charges the      *)
(* running thread, refreshes load_avg and every recent_cpu once a second   *)
(* and the priorities every fourth second, and preempts a thread that has  *)
(* used QUANTUM ticks when the front of the run queue has no lower         *)
(* priority.  The history of priorities kept for printing is left out.     *)
(***************************************************************************)
EXTENDS RunQueue, FixedPoint, Lists, FiniteSetsExt

CONSTANTS
  QUANTUM,      \* 7 in the code
  TIMER_FREQ,   \* ticks per second, 100 in the code
  PRI_MAX,      \* 63 in the code; PRI_MIN is 0
  Priorities,   \* initial priorities given to thread_create()
  Nices,        \* values given to thread_set_nice()
  MaxTicks      \* bound on the clock

VARIABLES
  ticks,
  thread_ticks,   \* ticks since the last switch; QUANTUM stands for more
  load_avg,
  recent_cpu,
  nice,
  priority

mlfqsVars == <<vars, ticks, thread_ticks, load_avg, recent_cpu, nice, priority>>

MlfqsTypeOK ==
  /\ ticks \in 0 .. MaxTicks
  /\ thread_ticks \in 0 .. QUANTUM
  /\ load_avg \in Int
  /\ recent_cpu \in [Thread -> Int]
  /\ nice \in [Thread -> Nices \cup {0}]
  /\ priority \in [Thread -> 0 .. PRI_MAX]

MlfqsInit ==
  /\ Init
  /\ ticks = 0
  /\ thread_ticks = 0
  /\ load_avg = 0
  /\ recent_cpu = [t \in Thread |-> 0]
  /\ nice = [t \in Thread |-> 0]
  /\ priority = [t \in Thread |-> 0]

-----------------------------------------------------------------------------
\* Mutant: the second term is not divided.
refresh_load_undivided ==
  add_fp(div_int(mult_int(load_avg, 59), 60), int_to_fp(Len(ready_list)))

(* refresh_load_avg(): the length of the run queue is what counts.         *)
refresh_load_avg ==
  add_fp(div_int(mult_int(load_avg, 59), 60), div_int(int_to_fp(Len(ready_list)), 60))

\* Mutant: multiplied by the divisor of the decay.
refresh_cpu_grown(load) ==
  [t \in Thread |->
     IF status[t] \in {"FREE", "DYING"} \/ t = idle_thread THEN recent_cpu[t]
     ELSE add_int(mult_fp(add_int(mult_int(load, 2), 1), recent_cpu[t]), nice[t])]

(* refresh_cpu() for every thread of all_list but the idle thread, with the
   load average just computed.                                             *)
refresh_cpu(load) ==
  LET twice == mult_int(load, 2)
      decay == div_fp(twice, add_int(twice, 1))
  IN  [t \in Thread |->
         IF status[t] \in {"FREE", "DYING"} \/ t = idle_thread THEN recent_cpu[t]
         ELSE add_int(mult_fp(decay, recent_cpu[t]), nice[t])]

\* Mutant: not clamped.
refresh_priority_unclamped(cpu, n) ==
  PRI_MAX - fp_to_int_round(div_int(cpu, 4)) - n * 2

(* refresh_priority_thread()                                               *)
refresh_priority_thread(cpu, n) ==
  LET pri == PRI_MAX - fp_to_int_round(div_int(cpu, 4)) - n * 2
  IN  IF pri > PRI_MAX THEN PRI_MAX ELSE IF pri < 0 THEN 0 ELSE pri

(* refresh_priority(): the queued threads other than the initial thread,
   and the running one.                                                    *)
refresh_priority(cpu, nc) ==
  [t \in Thread |-> IF t \in (Range(ready_list) \ {Main}) \cup {cur}
                    THEN refresh_priority_thread(cpu[t], nc[t])
                    ELSE priority[t]]

\* Mutants: the lowest first; equals reversed; the initial thread left out.
SortedLowest(pri) ==
  list_sort(ready_list, {lr \in Thread \X Thread : pri[lr[1]] < pri[lr[2]]})

SortedUnstable(pri) ==
  LET n == Len(ready_list)
      priority_cmp == {lr \in Thread \X Thread : pri[lr[1]] > pri[lr[2]]}
  IN  list_sort([i \in 1 .. n |-> ready_list[n + 1 - i]], priority_cmp)

SortedNotInitial(pri) == SelectSeq(ready_list, LAMBDA t : t # Main)

SortedByPriority(pri) ==
  LET priority_cmp == {lr \in Thread \X Thread : pri[lr[1]] > pri[lr[2]]}
  IN  list_sort(ready_list, priority_cmp)

(* timer_interrupt() up to and including thread_tick().  With an empty run
   queue nothing is charged or refreshed.                                  *)
NobodyReadyTick ==
  /\ ready_list = << >>
  /\ ticks < MaxTicks
  /\ ticks' = ticks + 1
  /\ IntrEnter(ready_list, FALSE)
  /\ UNCHANGED <<thread_ticks, load_avg, recent_cpu, nice, priority>>

Tick ==
  LET second == (ticks + 1) % TIMER_FREQ = 0
      fourth == (ticks + 1) % (4 * TIMER_FREQ) = 0
      load == IF second THEN refresh_load_avg ELSE load_avg
      decayed == IF second THEN refresh_cpu(load) ELSE recent_cpu
      charged == [decayed EXCEPT ![cur] = add_int(@, 1)]
      pri == IF fourth THEN refresh_priority(charged, nice) ELSE priority
      preempt == /\ thread_ticks + 1 >= QUANTUM
                 /\ pri[cur] <= pri[Head(ready_list)]
  IN  /\ ready_list # << >>
      /\ ticks < MaxTicks
      /\ ticks' = ticks + 1
      /\ thread_ticks' = IF thread_ticks < QUANTUM THEN thread_ticks + 1 ELSE QUANTUM
      /\ load_avg' = load
      /\ recent_cpu' = charged
      /\ priority' = pri
      /\ IntrEnter(IF fourth \/ preempt THEN SortedByPriority(pri) ELSE ready_list,
                   preempt)
      /\ UNCHANGED nice

(* thread_set_nice(), and thread_set_priority(), whose argument the refresh
   overwrites.                                                             *)
SetNice(n) ==
  /\ InFunction
  /\ creating[cur] = NULL
  /\ nice' = [nice EXCEPT ![cur] = n]
  /\ priority' = refresh_priority(recent_cpu, nice')
  /\ UNCHANGED <<vars, ticks, thread_ticks, load_avg, recent_cpu>>

SetPriority ==
  /\ InFunction
  /\ creating[cur] = NULL
  /\ priority' = refresh_priority(recent_cpu, nice)
  /\ UNCHANGED <<vars, ticks, thread_ticks, load_avg, recent_cpu, nice>>

(* init_thread()                                                           *)
Fresh(t, p) ==
  /\ recent_cpu' = [recent_cpu EXCEPT ![t] = 0]
  /\ nice' = [nice EXCEPT ![t] = 0]
  /\ priority' = [priority EXCEPT ![t] = p]
  /\ UNCHANGED <<ticks, thread_ticks, load_avg>>

MlfqsThreadStart == ThreadStart /\ Fresh(Idle, 0)
MlfqsInitThread(t, p) == InitThread(t) /\ Fresh(t, p)

(* A switch starts a new time slice.                                       *)
MlfqsSwitch ==
  /\ \/ \E s \in Sema : SemaDownBlock(s)
     \/ SemaRetryBlock
     \/ ThreadYield
     \/ IdleBlock
     \/ IntrReturnYield
  /\ thread_ticks' = 0
  /\ UNCHANGED <<ticks, load_avg, recent_cpu, nice, priority>>

(* The page of an exited thread is overwritten when it is freed.           *)
MlfqsThreadExit ==
  LET gone == {cur} \ {Main}
      Clear(f) == [t \in Thread |-> IF t \in gone THEN 0 ELSE f[t]]
  IN  /\ ThreadExit(ready_list)
      /\ thread_ticks' = 0
      /\ recent_cpu' = Clear(recent_cpu)
      /\ nice' = Clear(nice)
      /\ priority' = Clear(priority)
      /\ UNCHANGED <<ticks, load_avg>>

MlfqsOther ==
  /\ \/ \E s \in Sema : SemaDownPass(s) \/ SemaUp(s)
     \/ \E s \in Sema : waiters[s] # << >> /\ IntrUp(s)
     \/ SemaRetryPass
     \/ \E t \in Worker : UnblockNew(t)
     \/ IdleInit
     \/ IntrEnter(ready_list, FALSE)   \* a device other than the timer
     \/ IntrReturn
  /\ UNCHANGED <<ticks, thread_ticks, load_avg, recent_cpu, nice, priority>>

MlfqsNext ==
  \/ NobodyReadyTick
  \/ Tick
  \/ \E n \in Nices : SetNice(n)
  \/ SetPriority
  \/ MlfqsThreadStart
  \/ \E t \in Worker, p \in Priorities : MlfqsInitThread(t, p)
  \/ MlfqsSwitch
  \/ MlfqsThreadExit
  \/ MlfqsOther

MlfqsSpec == MlfqsInit /\ [][MlfqsNext]_mlfqsVars

-----------------------------------------------------------------------------
(* The test of thread_tick() looks at the front of the run queue before it
   is sorted, and handlers wake threads after it; still preemption never
   hands the processor to a thread of lower priority.                      *)
NeverPreemptedByLower ==
  in_external_intr /\ yield_on_return /\ ~in_external_intr'
    => priority[cur'] >= priority[cur]

(* A preempting tick leaves a thread of the highest priority of all queued
   at the front, and among equals the one queued first.                    *)
PreemptToHighest ==
  ~in_external_intr /\ in_external_intr' /\ yield_on_return' =>
    \E i \in DOMAIN ready_list :
      /\ Head(ready_list') = ready_list[i]
      /\ \A j \in DOMAIN ready_list :
           LET p(k) == priority'[ready_list[k]]
           IN  p(i) >= p(j) /\ (p(i) = p(j) => i <= j)

(* Decay and charging conserve processor time: unless somebody is given a
   positive nice value, all recent_cpu together are at most the time since
   boot, however often they are refreshed and threads come and go.         *)
CpuConserved ==
  (\A n \in Nices : n <= 0) =>
    LET cpu(t) == IF recent_cpu[t] > 0 THEN recent_cpu[t] ELSE 0
    IN  MapThenSumSet(cpu, Thread) <= int_to_fp(ticks)

(* The load average stays between zero and the longest run queue there can
   be, whatever the rounding of fixedpoint.h does.                         *)
LoadBounded ==
  0 <= load_avg /\ load_avg <= int_to_fp(Cardinality(Thread) - 1)

(* The design document: "en cada llamada a thread_tick() el valor de
   recent_cpu se aumenta en 1 para el thread que está corriendo". Said here
   of threads other than the idle thread, between the decays.              *)
RunningCharged ==
  [][ticks' # ticks /\ ticks' % TIMER_FREQ # 0 /\ cur # Idle =>
       recent_cpu'[cur] = add_int(recent_cpu[cur], 1)]_mlfqsVars

=============================================================================
