----------------------------- MODULE TimerSleep -----------------------------
(***************************************************************************)
(* devices/timer.c: timer_sleep() and the wake-up loop of                  *)
(* timer_interrupt(), for every policy that does not sort the ready list.  *)
(* timer_sleep() runs with interrupts on, so ticks fall between its steps. *)
(* The insertion into wait_list is one step here, which the code does not  *)
(* ensure: WaitListRace has its single assignments, and what a tick        *)
(* between them does.                                                      *)
(***************************************************************************)
EXTENDS RunQueue, Lists

CONSTANTS
  MaxTicks,   \* bound on the clock (64 bits in the code)
  MaxSleep    \* longest sleep asked for

ASSUME TimerAssumption == MaxTicks \in Nat /\ MaxSleep \in Nat /\ MaxValue > 1

VARIABLES
  ticks,         \* timer ticks since boot; MaxTicks stands for any later time
  wait_list,     \* sleeping threads, by wakeup_time
  wakeup_time,
  at             \* where a thread is in timer_sleep()

timerVars == <<vars, ticks, wait_list, wakeup_time, at>>

TimerTypeOK ==
  /\ ticks \in 0 .. MaxTicks
  /\ wait_list \in Seq(Thread)
  /\ wakeup_time \in [Thread -> 0 .. MaxTicks]
  /\ at \in [Thread -> {"function", "set", "listed", "down"}]

TimerInit ==
  /\ Init
  /\ ticks = 0
  /\ wait_list = << >>
  /\ wakeup_time = [t \in Thread |-> 0]
  /\ at = [t \in Thread |-> "function"]

-----------------------------------------------------------------------------
Awake == InFunction /\ at[cur] = "function"

\* Mutant: one tick too many.
SleepSetLate(n) ==
  /\ Awake
  /\ creating[cur] = NULL
  /\ ticks + n <= MaxTicks
  /\ wakeup_time' = [wakeup_time EXCEPT ![cur] = ticks + n + 1]
  /\ at' = [at EXCEPT ![cur] = "set"]
  /\ UNCHANGED <<vars, ticks, wait_list>>

(* timer_sleep(n): the wake-up time, computed from the clock as it is now.
   A negative n returns at once.  The guard on the clock is the bound.      *)
SleepSet(n) ==
  /\ Awake
  /\ creating[cur] = NULL
  /\ ticks + n <= MaxTicks
  /\ wakeup_time' = [wakeup_time EXCEPT ![cur] = ticks + n]
  /\ at' = [at EXCEPT ![cur] = "set"]
  /\ UNCHANGED <<vars, ticks, wait_list>>

wakeup_cmp == {lr \in Thread \X Thread : wakeup_time[lr[1]] < wakeup_time[lr[2]]}

\* Mutant: list_push_back().
SleepInsertBack ==
  /\ InFunction
  /\ at[cur] = "set"
  /\ wait_list' = Append(wait_list, cur)
  /\ at' = [at EXCEPT ![cur] = "listed"]
  /\ UNCHANGED <<vars, ticks, wakeup_time>>

SleepInsert ==
  /\ InFunction
  /\ at[cur] = "set"
  /\ wait_list' = list_insert_ordered(wait_list, cur, wakeup_cmp)
  /\ at' = [at EXCEPT ![cur] = "listed"]
  /\ UNCHANGED <<vars, ticks, wakeup_time>>

(* sema_down(&t->timer_sema), which may find the value already up.         *)
SleepDown ==
  /\ at[cur] = "listed"
  /\ \/ SemaDownPass(cur) /\ at' = [at EXCEPT ![cur] = "function"]
     \/ SemaDownBlock(cur) /\ at' = [at EXCEPT ![cur] = "down"]
  /\ UNCHANGED <<ticks, wait_list, wakeup_time>>

SleepReturn ==
  /\ at[cur] = "down"
  /\ \/ SemaRetryPass /\ at' = [at EXCEPT ![cur] = "function"]
     \/ SemaRetryBlock /\ UNCHANGED at
  /\ UNCHANGED <<ticks, wait_list, wakeup_time>>

(* timer_interrupt(): count the tick and let the policy look at it ...     *)
Tick(y) ==
  /\ y => roundrobin
  /\ IntrEnter(ready_list, y)
  /\ ticks' = IF ticks < MaxTicks THEN ticks + 1 ELSE ticks
  /\ UNCHANGED <<wait_list, wakeup_time, at>>

\* Mutants: the comparison one tick off, either way, or an equality.
DueEarly == wait_list # << >> /\ ticks + 1 >= wakeup_time[Head(wait_list)]
DueLate == wait_list # << >> /\ ticks > wakeup_time[Head(wait_list)]
DueNow == wait_list # << >> /\ ticks = wakeup_time[Head(wait_list)]

Due == wait_list # << >> /\ ticks >= wakeup_time[Head(wait_list)]

\* Mutant: the front is not popped.
WakeFrontKept ==
  /\ Due
  /\ IntrUp(Head(wait_list))
  /\ UNCHANGED <<ticks, wait_list, wakeup_time, at>>

(* ... then wake the threads at the front whose time has come, ...         *)
WakeFront ==
  /\ Due
  /\ IntrUp(Head(wait_list))
  /\ wait_list' = Tail(wait_list)
  /\ UNCHANGED <<ticks, wakeup_time, at>>

(* ... and return, perhaps into another thread.                            *)
TickReturn ==
  /\ ~Due
  /\ IntrReturn \/ IntrReturnYield
  /\ UNCHANGED <<ticks, wait_list, wakeup_time, at>>

(* The steps of threads that do not sleep now.                             *)
TimerOther ==
  /\ \/ /\ Awake
        /\ \/ \E s \in Public : SemaDownPass(s) \/ SemaDownBlock(s) \/ SemaUp(s)
           \/ \E t \in Worker : InitThread(t) \/ UnblockNew(t)
           \/ ThreadYield
           \/ ThreadExit(ready_list)
     \/ /\ at[cur] = "function"
        /\ \/ SemaDownPass(idle_started) \/ SemaDownBlock(idle_started)
           \/ SemaUp(idle_started)
           \/ SemaRetryPass
           \/ SemaRetryBlock
     \/ ThreadStart
     \/ IdleInit
     \/ IdleBlock
  /\ UNCHANGED <<ticks, wait_list, wakeup_time, at>>

TimerNext ==
  \/ \E n \in 0 .. MaxSleep : SleepSet(n)
  \/ SleepInsert
  \/ SleepDown
  \/ SleepReturn
  \/ \E y \in BOOLEAN : Tick(y)
  \/ WakeFront
  \/ TickReturn
  \/ TimerOther

(* Ticks keep coming, and a handler runs to its end.                       *)
TimerFairness ==
  /\ SF_timerVars(\E y \in BOOLEAN : Tick(y))
  /\ WF_timerVars(WakeFront \/ TickReturn \/ SleepReturn)
  /\ WF_timerVars(TimerOther /\ pc[cur] # "run")
  /\ WF_timerVars(TimerOther /\ downing[cur] # NULL)

TimerSpec == TimerInit /\ [][TimerNext]_timerVars /\ TimerFairness

-----------------------------------------------------------------------------
(* The loop of timer_interrupt() stops at the first thread that is not due,
   which is right only because wait_list is in order of wakeup_time.       *)
WaitListSorted ==
  \A i, j \in DOMAIN wait_list :
    i < j => wakeup_time[wait_list[i]] <= wakeup_time[wait_list[j]]

(* A thread on its way to sleep or asleep is on wait_list, once, or has been
   woken exactly once for this sleep: its timer_sema is 0 while listed, and
   no count is left over to cut a later sleep short.                       *)
SleeperAccounted ==
  /\ IsInjective(wait_list)
  /\ \A t \in Thread :
       LET listed == t \in Range(wait_list)
       IN  /\ at[t] \in {"function", "set"} => ~listed /\ value[t] = 0
           /\ at[t] \in {"listed", "down"} => (listed <=> value[t] = 0)
           /\ at[t] = "down" /\ status[t] = "BLOCKED" => listed

(* What timer_interrupt() relies on: wait_list is sorted, and who is on it
   has not been woken.                                                     *)
WaitListExact == TimerTypeOK /\ WaitListSorted /\ SleeperAccounted

(* timer_sleep() never returns before its time.                            *)
NeverEarly ==
  [][\A t \in Thread : at[t] \in {"listed", "down"} /\ at'[t] = "function"
                          => ticks >= wakeup_time[t]]_timerVars

(* A sleeper leaves wait_list on the first tick at or after its time: when a
   handler returns nobody is overdue, unless it listed itself after that
   tick, and then it is overdue only until the next one.                   *)
NobodyOverdue ==
  [][in_external_intr /\ ~in_external_intr' =>
       \A t \in Range(wait_list) : wakeup_time[t] > ticks]_timerVars

(* A sleep ends at its time: not before it, nor after the next tick.       *)
WokenOnTime == NeverEarly /\ NobodyOverdue

(* Every sleep is ended by an interrupt, wherever ticks fall between the
   steps of timer_sleep() and whatever the other threads do.               *)
SleeperWoken ==
  \A t \in Thread : t \in Range(wait_list) ~> t \notin Range(wait_list)
=============================================================================
