------------------------------ MODULE RunQueue ------------------------------
(***************************************************************************)
(* The part of threads/thread.c, threads/synch.c (semaphores) and          *)
(* threads/interrupt.c that every scheduling policy shares: thread states, *)
(* the run queue, semaphore wait lists, the idle thread, the boot sequence *)
(* and external interrupts.                                                *)
(*                                                                         *)
(* The machine has one processor.  A stretch of code with interrupts off   *)
(* is one step; a timer or device interrupt may arrive between any two     *)
(* steps taken with interrupts on.  What a policy decides (how the ready   *)
(* list is reordered, whether a tick preempts) is a parameter of the       *)
(* actions: Next quantifies over it, the modules RoundRobin, Sjf, Mlfqs    *)
(* and TimerSleep fix it.                                                  *)
(***************************************************************************)
EXTENDS Integers, Sequences, FiniteSets, Functions

CONSTANTS
  Worker,        \* pages that can hold a thread made by thread_create()
  Main,          \* initial_thread, the thread running init.c:main()
  Idle,          \* the page of the idle thread
  Shared,        \* semaphores other than the threads' timer_sema
  idle_started,  \* the semaphore of thread_start()
  alg,           \* the -alg option: which of the four flags is set
  MaxValue,      \* bound on semaphore values (unsigned in the code)
  NULL

Thread == Worker \cup {Main, Idle}

\* A thread also names its own timer_sema.
Sema == Thread \cup Shared
Public == Shared \ {idle_started}

sjf == alg = "sjf"
roundrobin == alg = "roundrobin"

ASSUME ConstantsAssumption ==
  /\ Main # Idle
  /\ Main \notin Worker
  /\ Idle \notin Worker
  /\ NULL \notin Sema
  /\ idle_started \in Shared
  /\ Shared \cap Thread = {}
  /\ MaxValue \in Nat
  /\ alg \in {"none", "fcfs", "roundrobin", "sjf", "mlfqs"}

VARIABLES
  cur,              \* the running thread: the page the stack pointer is in
  status,           \* enum thread_status; "FREE" is a page no thread is in
  ready_list,       \* the run queue
  value,            \* semaphore values
  waiters,          \* semaphore wait lists
  downing,          \* the semaphore a thread is in the loop of sema_down() on
  creating,         \* the thread a thread_create() call has initialised
  pc,               \* where the initial and the idle thread are
  idle_thread,      \* set by idle() itself
  in_external_intr, \* an external interrupt handler is running
  yield_on_return   \* the handler asked for a yield

semaVars == <<value, waiters, downing>>
intrVars == <<in_external_intr, yield_on_return>>
vars == <<cur, status, ready_list, semaVars, creating, pc, idle_thread, intrVars>>

Statuses == {"FREE", "RUNNING", "READY", "BLOCKED", "DYING"}
Points == {"boot", "start", "run", "init", "up", "loop", "hlt"}

TypeOK ==
  /\ cur \in Thread
  /\ status \in [Thread -> Statuses]
  /\ ready_list \in Seq(Thread)
  /\ value \in [Sema -> Nat]
  /\ waiters \in [Sema -> Seq(Thread)]
  /\ downing \in [Thread -> Sema \cup {NULL}]
  /\ creating \in [Thread -> Worker \cup {NULL}]
  /\ pc \in [Thread -> Points]
  /\ idle_thread \in {NULL, Idle}
  /\ in_external_intr \in BOOLEAN
  /\ yield_on_return \in BOOLEAN

(***************************************************************************)
(* thread_init() has turned the boot code into the initial thread;         *)
(* interrupts are still off.                                               *)
(***************************************************************************)
Init ==
  /\ cur = Main
  /\ status = [t \in Thread |-> IF t = Main THEN "RUNNING" ELSE "FREE"]
  /\ ready_list = << >>
  /\ value = [s \in Sema |-> 0]
  /\ waiters = [s \in Sema |-> << >>]
  /\ downing = [t \in Thread |-> NULL]
  /\ creating = [t \in Thread |-> NULL]
  /\ pc = [t \in Thread |-> IF t = Main THEN "boot"
                            ELSE IF t = Idle THEN "init" ELSE "run"]
  /\ idle_thread = NULL
  /\ in_external_intr = FALSE
  /\ yield_on_return = FALSE

-----------------------------------------------------------------------------
(* next_thread_to_run(): the front of the run queue, or the idle thread.   *)
next_thread_to_run(rl) == IF rl = << >> THEN idle_thread ELSE Head(rl)

(* The page of a thread that has exited is freed by its successor, in
   thread_schedule_tail(): except the initial thread's, and except under
   SJF, where the history list all_all_list still holds the thread.        *)
\* Mutant: the history of SJF is forgotten.
ReapAlways(st) ==
  [st EXCEPT ![cur] = IF @ = "DYING" /\ cur # Main THEN "FREE" ELSE @]

Reap(st) ==
  [st EXCEPT ![cur] = IF @ = "DYING" /\ cur # Main /\ ~sjf THEN "FREE" ELSE @]

\* Mutant: the new thread is not marked as running.
scheduleUnmarked(st, rl) ==
  LET next == next_thread_to_run(rl)
  IN  /\ cur' = next
      /\ ready_list' = IF rl = << >> THEN rl ELSE Tail(rl)
      /\ status' = Reap(st)

(* schedule() and thread_schedule_tail(), called with the run queue rl and
   the thread states st that the caller has prepared.                      *)
schedule(st, rl) ==
  LET next == next_thread_to_run(rl)
  IN  /\ cur' = next
      /\ ready_list' = IF rl = << >> THEN rl ELSE Tail(rl)
      /\ status' = [Reap(st) EXCEPT ![next] = "RUNNING"]

(* thread_yield() up to the call of schedule(): the idle thread is the one
   thread that does not go back to the run queue.                          *)
\* Mutants: the initial thread is excepted too; the idle thread is not; the
\* yielding thread stays at the front.
YieldQueueNotInitial == IF cur \in {idle_thread, Main} THEN ready_list ELSE Append(ready_list, cur)
YieldQueueAll == Append(ready_list, cur)
YieldQueueFront == IF cur = idle_thread THEN ready_list ELSE <<cur>> \o ready_list

YieldQueue == IF cur = idle_thread THEN ready_list ELSE Append(ready_list, cur)

(* The running thread executes code with interrupts on, outside a
   half-done sema_down().                                                  *)
InThread == ~in_external_intr /\ downing[cur] = NULL
InFunction == InThread /\ pc[cur] = "run"

-----------------------------------------------------------------------------
(* Semaphores (synch.c).                                                   *)

(* One turn of the loop in sema_down(), with interrupts off.               *)
DownPass(s) ==
  /\ value[s] > 0
  /\ value' = [value EXCEPT ![s] = @ - 1]
  /\ downing' = [downing EXCEPT ![cur] = NULL]
  /\ UNCHANGED <<cur, status, ready_list, waiters, creating, idle_thread, intrVars>>

DownBlock(s) ==
  /\ value[s] = 0
  /\ waiters' = [waiters EXCEPT ![s] = Append(@, cur)]
  /\ downing' = [downing EXCEPT ![cur] = s]
  /\ schedule([status EXCEPT ![cur] = "BLOCKED"], ready_list)
  /\ UNCHANGED <<value, creating, idle_thread, intrVars>>

\* Mutants: the woken thread stays on the wait list; nobody is woken unless
\* two wait.
UpNotPopped(s) ==
  /\ value[s] < MaxValue
  /\ value' = [value EXCEPT ![s] = @ + 1]
  /\ IF waiters[s] = << >>
     THEN UNCHANGED <<ready_list, status>>
     ELSE /\ ready_list' = Append(ready_list, Head(waiters[s]))
          /\ status' = [status EXCEPT ![Head(waiters[s])] = "READY"]
  /\ UNCHANGED <<cur, waiters, downing, creating, idle_thread, intrVars>>

UpWakesIf(s, wake) ==
  /\ value[s] < MaxValue
  /\ value' = [value EXCEPT ![s] = @ + 1]
  /\ IF ~wake
     THEN UNCHANGED <<waiters, ready_list, status>>
     ELSE /\ waiters' = [waiters EXCEPT ![s] = Tail(@)]
          /\ ready_list' = Append(ready_list, Head(waiters[s]))
          /\ status' = [status EXCEPT ![Head(waiters[s])] = "READY"]
  /\ UNCHANGED <<cur, downing, creating, idle_thread, intrVars>>

UpIfTwoWait(s) == UpWakesIf(s, Len(waiters[s]) > 1)

(* thread_unblock() as sema_up() calls it: the longest waiter joins the
   run queue, and the value goes up whether or not there was one.          *)
Up(s) ==
  LET t == Head(waiters[s])
  IN  /\ value[s] < MaxValue
      /\ value' = [value EXCEPT ![s] = @ + 1]
      /\ IF waiters[s] = << >>
         THEN UNCHANGED <<waiters, ready_list, status>>
         ELSE /\ waiters' = [waiters EXCEPT ![s] = Tail(@)]
              /\ ready_list' = Append(ready_list, t)
              /\ status' = [status EXCEPT ![t] = "READY"]
      /\ UNCHANGED <<cur, downing, creating, idle_thread, intrVars>>

(* sema_down(): the first test.  Nobody but its owner waits on a thread's
   timer_sema; thread_start() waits on idle_started, which is its local.   *)
DownAt(s) ==
  /\ InThread
  /\ \/ pc[cur] = "run" /\ s \in Public /\ UNCHANGED pc
     \/ pc[cur] = "run" /\ s = cur /\ creating[cur] = NULL /\ UNCHANGED pc
     \/ pc[cur] = "start" /\ s = idle_started /\ pc' = [pc EXCEPT ![cur] = "run"]

SemaDownPass(s) == DownAt(s) /\ DownPass(s)
SemaDownBlock(s) == DownAt(s) /\ DownBlock(s)

(* thread_block() returns into the loop of sema_down(); the test is made
   again before interrupts are turned on.                                  *)
SemaRetryPass ==
  /\ ~in_external_intr
  /\ \E s \in Sema : downing[cur] = s /\ DownPass(s)
  /\ UNCHANGED pc

SemaRetryBlock ==
  /\ ~in_external_intr
  /\ \E s \in Sema : downing[cur] = s /\ DownBlock(s)
  /\ UNCHANGED pc

(* sema_up() by a thread; idle() calls it once, on idle_started.           *)
SemaUp(s) ==
  /\ InThread
  /\ \/ pc[cur] = "run" /\ s \in Public /\ UNCHANGED pc
     \/ pc[cur] = "up" /\ s = idle_started /\ pc' = [pc EXCEPT ![cur] = "loop"]
  /\ Up(s)

-----------------------------------------------------------------------------
(* Threads (thread.c).                                                     *)

(* thread_start() up to intr_enable(): thread_create("idle") runs with
   interrupts off, so the new thread is queued in the same step.           *)
ThreadStart ==
  /\ pc[cur] = "boot"
  /\ pc' = [pc EXCEPT ![cur] = "start"]
  /\ status' = [status EXCEPT ![Idle] = "READY"]
  /\ ready_list' = Append(ready_list, Idle)
  /\ UNCHANGED <<cur, semaVars, creating, idle_thread, intrVars>>

\* Mutant: the new thread is queued before it is ready.
InitThreadQueued(t) ==
  /\ InFunction
  /\ creating[cur] = NULL
  /\ status[t] = "FREE"
  /\ status' = [status EXCEPT ![t] = "BLOCKED"]
  /\ creating' = [creating EXCEPT ![cur] = t]
  /\ ready_list' = Append(ready_list, t)
  /\ UNCHANGED <<cur, semaVars, pc, idle_thread, intrVars>>

(* thread_create(): init_thread() makes t a BLOCKED thread on no list.     *)
InitThread(t) ==
  /\ InFunction
  /\ creating[cur] = NULL
  /\ status[t] = "FREE"
  /\ status' = [status EXCEPT ![t] = "BLOCKED"]
  /\ creating' = [creating EXCEPT ![cur] = t]
  /\ value' = [value EXCEPT ![t] = 0]
  /\ waiters' = [waiters EXCEPT ![t] = << >>]
  /\ UNCHANGED <<cur, ready_list, downing, pc, idle_thread, intrVars>>

(* thread_create(): the final thread_unblock().                            *)
UnblockNew(t) ==
  /\ InFunction
  /\ creating[cur] = t
  /\ creating' = [creating EXCEPT ![cur] = NULL]
  /\ ready_list' = Append(ready_list, t)
  /\ status' = [status EXCEPT ![t] = "READY"]
  /\ UNCHANGED <<cur, semaVars, pc, idle_thread, intrVars>>

(* thread_yield() called by a thread function.                             *)
ThreadYield ==
  /\ InFunction
  /\ creating[cur] = NULL
  /\ schedule([status EXCEPT ![cur] = "READY"], YieldQueue)
  /\ UNCHANGED <<semaVars, creating, pc, idle_thread, intrVars>>

(* thread_exit(): the policy leaves the run queue in the order rl.         *)
ThreadExit(rl) ==
  /\ InFunction
  /\ creating[cur] = NULL
  /\ schedule([status EXCEPT ![cur] = "DYING"], rl)
  /\ UNCHANGED <<semaVars, creating, pc, idle_thread, intrVars>>

\* Mutant: idle() does not record itself.
IdleInitUnrecorded ==
  /\ InThread
  /\ pc[cur] = "init"
  /\ pc' = [pc EXCEPT ![cur] = "up"]
  /\ UNCHANGED <<cur, status, ready_list, semaVars, creating, idle_thread, intrVars>>

(* idle(): record itself, ...                                              *)
IdleInit ==
  /\ InThread
  /\ pc[cur] = "init"
  /\ pc' = [pc EXCEPT ![cur] = "up"]
  /\ idle_thread' = cur
  /\ UNCHANGED <<cur, status, ready_list, semaVars, creating, intrVars>>

(* ... and let someone else run; on return it halts until an interrupt.    *)
IdleBlock ==
  /\ InThread
  /\ pc[cur] = "loop"
  /\ pc' = [pc EXCEPT ![cur] = "hlt"]
  /\ schedule([status EXCEPT ![cur] = "BLOCKED"], ready_list)
  /\ UNCHANGED <<semaVars, creating, idle_thread, intrVars>>

-----------------------------------------------------------------------------
(* External interrupts (interrupt.c:intr_handler).                         *)

(* The handler starts; a timer tick may reorder the run queue to rl and
   ask for a yield y.  The idle thread wakes from hlt.                     *)
IntrEnter(rl, y) ==
  /\ InThread
  /\ pc[cur] # "boot"
  /\ in_external_intr' = TRUE
  /\ yield_on_return' = y
  /\ ready_list' = rl
  /\ pc' = [pc EXCEPT ![cur] = IF @ = "hlt" THEN "loop" ELSE @]
  /\ UNCHANGED <<cur, status, semaVars, creating, idle_thread>>

(* A sema_up() by the handler.                                             *)
IntrUp(s) ==
  /\ in_external_intr
  /\ Up(s)
  /\ UNCHANGED pc

IntrReturn ==
  /\ in_external_intr
  /\ ~yield_on_return
  /\ in_external_intr' = FALSE
  /\ UNCHANGED <<cur, status, ready_list, semaVars, creating, pc, idle_thread,
                 yield_on_return>>

IntrReturnYield ==
  /\ in_external_intr
  /\ yield_on_return
  /\ in_external_intr' = FALSE
  /\ schedule([status EXCEPT ![cur] = "READY"], YieldQueue)
  /\ UNCHANGED <<semaVars, creating, pc, idle_thread, yield_on_return>>

-----------------------------------------------------------------------------
(* The orders in which a policy may leave a list.                          *)
Reorderings(s) == {[i \in DOMAIN s |-> s[p[i]]] : p \in Bijection(DOMAIN s, DOMAIN s)}

(* The steps that call schedule(), and those that do not.                  *)
Switching ==
  \/ \E s \in Sema : SemaDownBlock(s)
  \/ SemaRetryBlock
  \/ ThreadYield
  \/ \E rl \in Reorderings(ready_list) : ThreadExit(rl)
  \/ IdleBlock
  \/ IntrReturnYield

NotSwitching ==
  \/ \E s \in Sema : SemaDownPass(s) \/ SemaUp(s) \/ IntrUp(s)
  \/ SemaRetryPass
  \/ ThreadStart
  \/ \E t \in Worker : InitThread(t) \/ UnblockNew(t)
  \/ IdleInit
  \/ \E rl \in Reorderings(ready_list), y \in BOOLEAN : IntrEnter(rl, y)
  \/ IntrReturn

Next == Switching \/ NotSwitching

Spec == Init /\ [][Next]_vars

-----------------------------------------------------------------------------
(* Properties.                                                             *)

(* Exactly the thread whose stack is in use is RUNNING: the assertion of
   thread_current() holds wherever it is called.                           *)
OneRunning == \A t \in Thread : status[t] = "RUNNING" <=> t = cur

(* struct thread has one list element for the run queue and for semaphore
   wait lists.  It is on at most one list, once: READY threads on the run
   queue, BLOCKED threads on the list of the semaphore they wait for.      *)
ElemOnOneList ==
  /\ IsInjective(ready_list)
  /\ \A t \in Range(ready_list) : status[t] = "READY"
  /\ \A s \in Sema : /\ IsInjective(waiters[s])
                     /\ \A t \in Range(waiters[s]) :
                          status[t] = "BLOCKED" /\ downing[t] = s

(* No thread is lost: a READY thread is where schedule() will find it, and a
   BLOCKED thread is where sema_up() or its creator will find it, except
   the idle thread, which next_thread_to_run() finds.                      *)
NoThreadLost ==
  \A t \in Thread \ {idle_thread} :
    /\ status[t] = "READY" => t \in Range(ready_list)
    /\ status[t] = "BLOCKED" => \/ \E s \in Sema : t \in Range(waiters[s])
                               \/ \E u \in Thread : creating[u] = t

(* Once idle() has recorded itself the idle thread is never queued, though
   timer ticks may preempt it at any point.                                *)
IdleNeverQueued == idle_thread # NULL => Idle \notin Range(ready_list)

(* A wake-up is never lost: while threads wait on a semaphore its value is
   covered by threads already woken that have yet to retry the loop of
   sema_down(), whatever other threads take the value before them.         *)
NoLostWakeup ==
  \A s \in Sema : waiters[s] # << >> =>
    value[s] <= Cardinality({t \in Thread : /\ downing[t] = s
                                            /\ status[t] \in {"READY", "RUNNING"}})

(* schedule() switches only to a thread that was queued READY or to the
   idle thread, never to a blocked or exited one or to a freed page.       *)
SwitchToRunnable ==
  [][cur' \in Thread /\ (status[cur'] = "READY" \/ cur' = idle_thread)]_cur

-----------------------------------------------------------------------------
(* What makes the properties above inductive.                              *)

(* The boot sequence: the idle thread is not there before thread_start(),
   and until idle() has recorded itself it is running or queued, so that
   next_thread_to_run() never returns a null idle_thread.                  *)
BootOrder ==
  /\ pc[Main] \in {"boot", "start", "run"}
  /\ pc[Idle] \in {"init", "up", "loop", "hlt"}
  /\ \A t \in Worker : pc[t] = "run"
  /\ downing[Idle] = NULL
  /\ idle_thread = NULL <=> pc[Idle] = "init"
  /\ pc[Main] = "boot" => /\ cur = Main
                          /\ status[Idle] = "FREE"
                          /\ idle_thread = NULL
                          /\ ~in_external_intr
                          /\ downing[Main] = NULL
  /\ pc[Main] # "boot" /\ idle_thread = NULL => Idle \in Range(ready_list) \cup {cur}

(* A thread under construction is BLOCKED, waits for nobody and has one
   creator.                                                                *)
UnderConstruction ==
  \A u \in Thread : creating[u] # NULL =>
    /\ status[creating[u]] = "BLOCKED"
    /\ downing[creating[u]] = NULL
    /\ \A v \in Thread : creating[v] = creating[u] => v = u

(* A page without a live thread is in no sema_down(), and a timer_sema is
   waited on by its owner alone: so init_thread() resets an empty list.    *)
DowningOwn ==
  \A t \in Thread : /\ status[t] \in {"FREE", "DYING"} => downing[t] = NULL
                    /\ downing[t] \in Thread => downing[t] = t

IndInv ==
  /\ TypeOK
  /\ OneRunning
  /\ ElemOnOneList
  /\ NoThreadLost
  /\ IdleNeverQueued
  /\ BootOrder
  /\ UnderConstruction
  /\ DowningOwn

=============================================================================
