----------------------------- MODULE WaitStats ------------------------------
(***************************************************************************)
(* The statistics that threads/thread.c keeps for the scheduler test: how  *)
(* long each thread waited in the ready list, and how often it came back   *)
(* from schedule().  thread_unblock(), thread_yield() and thread_exit()    *)
(* touch them before they turn interrupts off, so each is two steps here.  *)
(* Any tick may preempt.  What is kept for the initial and the idle thread *)
(* is never read and is left out.                                          *)
(***************************************************************************)
EXTENDS RunQueue

CONSTANT MaxTicks     \* bound on the timer's count

VARIABLES
  ticks,
  recent_wait, total_wait,
  repeat,       \* returns from schedule(), counted up to 1
  rep,          \* the copy of repeat that thread_exit() reads, 0 outside it
  at,           \* the call a thread is in the middle of
  switched,     \* it has been switched to since it was created
  faulted,     \* the divide error: retried for ever, or a panic under USERPROG
  born, waited, slept, \* history: when created, ticks spent READY, slept once
  overtaken     \* history: preempted between the two steps of thread_yield()

counts == <<recent_wait, total_wait, repeat, switched>>
history == <<born, waited, slept, overtaken>>
statVars == <<vars, ticks, counts, rep, at, faulted, history>>

StatTypeOK ==
  /\ ticks \in 0 .. MaxTicks
  /\ recent_wait \in [Worker -> 0 .. MaxTicks]
  /\ total_wait \in [Worker -> 0 .. MaxTicks + 1]
  /\ repeat \in [Worker -> 0 .. 1] /\ rep \in [Worker -> 0 .. 1]
  /\ at \in [Thread -> {"run", "yield", "unblock", "exit"}]
  /\ switched \in [Worker -> BOOLEAN] /\ faulted \in BOOLEAN

Zero == [t \in Worker |-> 0]
None == [t \in Worker |-> FALSE]

StatInit ==
  /\ Init
  /\ ticks = 0 /\ recent_wait = Zero /\ total_wait = Zero /\ repeat = Zero /\ rep = Zero
  /\ at = [t \in Thread |-> "run"] /\ switched = None /\ faulted = FALSE
  /\ born = Zero /\ waited = Zero /\ slept = None /\ overtaken = None

-----------------------------------------------------------------------------
AtMost(n, max) == IF n > max THEN max ELSE n

\* Mutant: the time is not stored.
Stored_not(t) == recent_wait

(* thread_unblock() and thread_yield(): from now on t waits.               *)
Stored(t) == IF t \in Worker THEN [recent_wait EXCEPT ![t] = ticks] ELSE recent_wait

\* Mutant: counted only for a thread that did not wait for a semaphore.
Counted_yield(t) == switched[t] /\ downing[t] = NULL

(* schedule() goes on behind switch_threads() in the thread switched to,
   unless that one starts in switch_entry().                               *)
Counted(t) == switched[t]

(* thread_schedule_tail() and the rest of schedule(), in the thread that
   has the processor now; rw are the times stored until then.              *)
thread_schedule_tail(rw) ==
  LET t == cur' IN
  IF t \notin Worker THEN recent_wait' = rw /\ UNCHANGED <<total_wait, repeat, switched>>
  ELSE /\ total_wait' = [total_wait EXCEPT ![t] = AtMost(@ + ticks - rw[t], MaxTicks + 1)]
       /\ recent_wait' = [rw EXCEPT ![t] = 0]
       /\ repeat' = [repeat EXCEPT ![t] = IF Counted(t) THEN 1 ELSE @]
       /\ switched' = [switched EXCEPT ![t] = TRUE]

At(p) == at[cur] = p /\ ~faulted
Goto(p) == at' = [at EXCEPT ![cur] = p]

(* init_thread() clears the page.                                          *)
StatCreate(t) ==
  /\ At("run") /\ InitThread(t)
  /\ recent_wait' = [recent_wait EXCEPT ![t] = 0]
  /\ total_wait' = [total_wait EXCEPT ![t] = 0]
  /\ repeat' = [repeat EXCEPT ![t] = 0]
  /\ switched' = [switched EXCEPT ![t] = FALSE]
  /\ born' = [born EXCEPT ![t] = ticks] /\ waited' = [waited EXCEPT ![t] = 0]
  /\ slept' = [slept EXCEPT ![t] = FALSE]
  /\ overtaken' = [overtaken EXCEPT ![t] = FALSE]
  /\ UNCHANGED <<ticks, rep, at, faulted>>

(* thread_create(): thread_unblock() before and behind intr_disable().     *)
UnblockStore ==
  /\ At("run") /\ InFunction /\ creating[cur] # NULL
  /\ recent_wait' = Stored(creating[cur]) /\ Goto("unblock")
  /\ UNCHANGED <<vars, ticks, total_wait, repeat, switched, rep, faulted, history>>

UnblockQueue(t) ==
  /\ At("unblock") /\ UnblockNew(t) /\ Goto("run")
  /\ UNCHANGED <<ticks, counts, rep, faulted, history>>

(* thread_yield() before and behind intr_disable().                        *)
YieldStore ==
  /\ At("run") /\ InFunction /\ creating[cur] = NULL
  /\ recent_wait' = Stored(cur) /\ Goto("yield")
  /\ UNCHANGED <<vars, ticks, total_wait, repeat, switched, rep, faulted, history>>

YieldSwitch ==
  /\ At("yield") /\ ThreadYield /\ Goto("run")
  /\ thread_schedule_tail(recent_wait)
  /\ UNCHANGED <<ticks, rep, faulted, history>>

(* thread_exit() reads repeat with interrupts on ...                       *)
ExitRead ==
  /\ At("run") /\ InFunction /\ creating[cur] = NULL
  /\ IF cur \in Worker THEN rep' = [rep EXCEPT ![cur] = repeat[cur]] ELSE UNCHANGED rep
  /\ Goto("exit")
  /\ UNCHANGED <<vars, ticks, counts, faulted, history>>

(* ... and divides by the copy; the initial thread keeps no statistics.    *)
ExitSwitch ==
  /\ At("exit") /\ (cur \in Worker => rep[cur] # 0)
  /\ ThreadExit(ready_list) /\ Goto("run")
  /\ thread_schedule_tail(recent_wait)
  /\ rep' = IF cur \in Worker THEN [rep EXCEPT ![cur] = 0] ELSE rep
  /\ UNCHANGED <<ticks, faulted, history>>

ExitDivide ==
  /\ At("exit") /\ InFunction /\ cur \in Worker /\ rep[cur] = 0
  /\ faulted' = TRUE
  /\ UNCHANGED <<vars, ticks, counts, rep, at, history>>

(* sema_down() and the idle thread's thread_block().                       *)
StatBlock ==
  /\ At("run")
  /\ (\E s \in Sema : SemaDownBlock(s)) \/ SemaRetryBlock \/ IdleBlock
  /\ thread_schedule_tail(recent_wait)
  /\ UNCHANGED <<ticks, rep, at, faulted, history>>

StatPass ==
  /\ At("run")
  /\ (\E s \in Sema : SemaDownPass(s)) \/ SemaRetryPass
  /\ slept' = IF cur \in Worker /\ downing[cur] # NULL THEN [slept EXCEPT ![cur] = TRUE] ELSE slept
  /\ UNCHANGED <<ticks, counts, rep, at, faulted, born, waited, overtaken>>

(* sema_up() calls thread_unblock() with interrupts off.                   *)
StatUp(s) ==
  /\ ~faulted /\ ((at[cur] = "run" /\ SemaUp(s)) \/ IntrUp(s))
  /\ recent_wait' = IF waiters[s] = << >> THEN recent_wait ELSE Stored(Head(waiters[s]))
  /\ UNCHANGED <<ticks, total_wait, repeat, switched, rep, at, faulted, history>>

(* timer_interrupt()                                                       *)
StatTick(y) ==
  /\ ~faulted /\ ticks < MaxTicks
  /\ IntrEnter(ready_list, y)
  /\ ticks' = ticks + 1
  /\ waited' = [t \in Worker |-> IF status[t] = "READY" THEN waited[t] + 1 ELSE waited[t]]
  /\ UNCHANGED <<counts, rep, at, faulted, born, slept, overtaken>>

(* intr_handler() yields with interrupts off.                              *)
StatPreempt ==
  /\ ~faulted /\ IntrReturnYield
  /\ thread_schedule_tail(Stored(cur))
  /\ overtaken' = IF cur \in Worker /\ at[cur] = "yield"
                  THEN [overtaken EXCEPT ![cur] = TRUE] ELSE overtaken
  /\ UNCHANGED <<ticks, rep, at, faulted, born, waited, slept>>

StatOther ==
  /\ ~faulted
  /\ \/ ThreadStart
     \/ IdleInit
     \/ IntrReturn
     \/ IntrEnter(ready_list, FALSE)   \* a device other than the timer
  /\ UNCHANGED <<ticks, counts, rep, at, faulted, history>>

StatHalt == faulted /\ UNCHANGED statVars

StatNext ==
  \/ \E t \in Worker : StatCreate(t) \/ UnblockQueue(t)
  \/ UnblockStore \/ YieldStore \/ YieldSwitch
  \/ ExitRead \/ ExitSwitch \/ ExitDivide
  \/ StatBlock \/ StatPass \/ StatPreempt
  \/ \E s \in Sema : StatUp(s)
  \/ \E y \in BOOLEAN : StatTick(y)
  \/ StatOther \/ StatHalt

StatSpec == StatInit /\ [][StatNext]_statVars

-----------------------------------------------------------------------------
(* The wait time of a thread, the current wait included.                   *)
Wait(t) == total_wait[t] + (IF status[t] = "READY" THEN ticks - recent_wait[t] ELSE 0)

(* The wait time a thread reports counts every tick it spent in the ready
   list and never more than its life, whoever preempts it and however often
   it blocks; unless it was preempted inside thread_yield(), before
   interrupts are off: thread_schedule_tail() then clears the time that
   thread_yield() stored, and the next wait is counted from boot.          *)
WaitAccounted ==
  \A t \in Worker : status[t] \notin {"FREE", "DYING"} /\ ~overtaken[t] =>
    waited[t] <= Wait(t) /\ Wait(t) <= ticks - born[t]

(* The division of thread_exit() is safe for a thread that slept once, as
   the threads of the scheduler test do first.                             *)
SleeperExits == faulted => ~slept[cur]

(* thread_create(): the new thread "could even exit before thread_create()
   returns".                                                               *)
ExitAnyTime == ~faulted

=============================================================================
