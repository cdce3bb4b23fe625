---------------------------- MODULE MCAccounting ----------------------------
(***************************************************************************)
(* Processor time and waiting time: the policy of -alg 4, and the          *)
(* statistics kept under any policy, each on the run queue.  A behaviour   *)
(* is one of the part that part names; the variables of the other parts    *)
(* are null.                                                               *)
(***************************************************************************)
EXTENDS FixedPoint, Sequences, TLC

CONSTANTS Main, Idle, NULL, idle_started, w1, w2, w3

VARIABLES
  part,
  cur, status, ready_list, value, waiters, downing, creating, pc, idle_thread,
  in_external_intr, yield_on_return,                         \* RunQueue
  ticks, thread_ticks, load_avg, recent_cpu, nice, priority, \* Mlfqs
  recent_wait, total_wait, repeat, rep, at, switched, faulted,
  born, waited, slept, overtaken                             \* WaitStats

mlfqs == <<thread_ticks, load_avg, recent_cpu, nice, priority>>
stats == <<recent_wait, total_wait, repeat, rep, at, switched, faulted,
           born, waited, slept, overtaken>>
queue == <<cur, status, ready_list, value, waiters, downing, creating, pc, idle_thread,
           in_external_intr, yield_on_return>>
vars == <<part, queue, ticks, mlfqs, stats>>

Shared == {idle_started}

(* Refreshes: a second is one tick, so that the priorities are refreshed. *)
Re == INSTANCE Mlfqs WITH alg <- "mlfqs", Worker <- {w3}, MaxValue <- 1, MaxTicks <- 4,
        QUANTUM <- 1, TIMER_FREQ <- 1, PRI_MAX <- 63, Priorities <- {31}, Nices <- {}

(* Preemption: two workers whose priorities differ, within one second.     *)
Ml == INSTANCE Mlfqs WITH alg <- "mlfqs", Worker <- {w1, w2}, MaxValue <- 1, MaxTicks <- 2,
        QUANTUM <- 1, TIMER_FREQ <- 100, PRI_MAX <- 63, Priorities <- {31}, Nices <- {-20}

St == INSTANCE WaitStats WITH alg <- "none", Worker <- {w3}, MaxValue <- 1, MaxTicks <- 2

NoMlfqs == thread_ticks = NULL /\ load_avg = NULL /\ recent_cpu = NULL /\ nice = NULL /\ priority = NULL
NoStats ==
  /\ recent_wait = NULL /\ total_wait = NULL /\ repeat = NULL /\ rep = NULL /\ at = NULL
  /\ switched = NULL /\ faulted = NULL
  /\ born = NULL /\ waited = NULL /\ slept = NULL /\ overtaken = NULL

Init ==
  \/ part = "mlfqs" /\ Ml!MlfqsInit /\ NoStats
  \/ part = "refresh" /\ Re!MlfqsInit /\ NoStats
  \/ part = "stats" /\ St!StatInit /\ NoMlfqs

Next ==
  /\ UNCHANGED part
  /\ \/ part = "mlfqs" /\ Ml!MlfqsNext /\ UNCHANGED stats
     \/ part = "refresh" /\ Re!MlfqsNext /\ UNCHANGED stats
     \/ part = "stats" /\ St!StatNext /\ UNCHANGED mlfqs

Spec == Init /\ [][Next]_vars

Symmetry == Permutations({w1, w2})

-----------------------------------------------------------------------------
(* thread_tick() under MLFQS: a tick never preempts in favour of a lower
   priority, and a preempting tick hands over to the highest.              *)
PreemptToHighest ==
  [][/\ part = "mlfqs" => Ml!NeverPreemptedByLower /\ Ml!PreemptToHighest
     /\ part = "refresh" => Re!NeverPreemptedByLower /\ Re!PreemptToHighest]_vars

(* refresh_cpu(), refresh_load_avg(), refresh_priority(): no more processor
   time is charged than has passed, the average stays between 0 and the
   longest queue, and priorities between PRI_MIN and PRI_MAX.              *)
AveragesBounded ==
  /\ part = "mlfqs" => Ml!MlfqsTypeOK /\ Ml!CpuConserved
  /\ part = "refresh" => Re!MlfqsTypeOK /\ Re!CpuConserved /\ Re!LoadBounded

(* thread_yield(), thread_schedule_tail(), thread_exit(): wait times are
   accounted for, and a thread that slept can compute its average.         *)
WaitsReported == part = "stats" => St!StatTypeOK /\ St!WaitAccounted /\ St!SleeperExits

(* MLFQS implements the run queue: every step is one of RunQueue or leaves
   its variables alone.                                                    *)
IsRunQueue ==
  /\ part = "mlfqs" => Ml!Init
  /\ [][part = "mlfqs" => [Ml!Next]_queue]_vars
=============================================================================
