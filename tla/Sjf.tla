--------------------------------- MODULE Sjf --------------------------------
(***************************************************************************)
(* Shortest Job First (-alg 3).  A thread that exits folds the ticks it    *)
(* used into the estimate of its name, hands the estimates to the live     *)
(* threads, and sorts the ready list by them.  Ticks never preempt.        *)
(***************************************************************************)
EXTENDS RunQueue, FixedPoint, Lists, TLC

CONSTANTS
  Names,     \* names given to thread_create()
  MaxExec    \* bound on the ticks a thread uses

ASSUME SjfAssumption == sjf /\ MaxExec \in Nat /\ {"main", "idle"} \cap Names = {}

Symmetry == Permutations(Worker)

VARIABLES
  name,
  curr_exec,     \* ticks used by a thread
  total_exec,    \* estimate of the ticks a thread will use
  all_all_list   \* one thread for each name seen since boot

sjfVars == <<vars, name, curr_exec, total_exec, all_all_list>>

SjfTypeOK ==
  /\ name \in [Thread -> Names \cup {"main", "idle"}]
  /\ curr_exec \in [Thread -> 0 .. MaxExec]
  /\ total_exec \in [Thread -> 0 .. MaxExec]
  /\ all_all_list \in Seq(Thread)

(* thread_foreach() walks all_list, which threads join in init_thread() and
   leave in thread_exit().                                                 *)
all_list == {t \in Thread : status[t] \notin {"FREE", "DYING"}}

SjfInit ==
  /\ Init
  /\ name = [t \in Thread |-> IF t = Main THEN "main" ELSE "idle"]
  /\ curr_exec = [t \in Thread |-> 0]
  /\ total_exec = [t \in Thread |-> 0]
  /\ all_all_list = <<Main>>

-----------------------------------------------------------------------------
(* The threads of all_all_list named n: get_total_exec() takes the first.  *)
Namesakes(n) == SelectSeq(all_all_list, LAMBDA u : name[u] = n)
Reference(t) == Head(Namesakes(name[t]))

\* Mutant: the thread is registered though its name is known.
RegisterAlways(t, n) ==
  /\ name' = [name EXCEPT ![t] = n]
  /\ curr_exec' = [curr_exec EXCEPT ![t] = 0]
  /\ all_all_list' = Append(all_all_list, t)
  /\ total_exec' = [total_exec EXCEPT ![t] = 0]

(* init_thread(t, n): get_total_exec() looks the name up, or registers t.  *)
Register(t, n) ==
  /\ name' = [name EXCEPT ![t] = n]
  /\ curr_exec' = [curr_exec EXCEPT ![t] = 0]
  /\ IF Namesakes(n) = << >>
     THEN /\ all_all_list' = Append(all_all_list, t)
          /\ total_exec' = [total_exec EXCEPT ![t] = 0]
     ELSE /\ total_exec' = [total_exec EXCEPT ![t] = total_exec[Head(Namesakes(n))]]
          /\ UNCHANGED all_all_list

SjfThreadStart == ThreadStart /\ Register(Idle, "idle")
SjfInitThread(t, n) == InitThread(t) /\ Register(t, n)

\* Mutant: the result is left in fixed point.
calc_unconverted(old, recent) ==
  LET alpha == div_int(int_to_fp(1), 2)
  IN  IF old = 0 THEN int_to_fp(recent)
      ELSE add_fp(mult_int(alpha, recent), mult_int(alpha, old))

(* calc_new_total_exec(): t_new = alpha * t_recent + (1 - alpha) * t_old.  *)
calc_new_total_exec(old, recent) ==
  LET one == int_to_fp(1)
      alpha == div_int(one, 2)
      alpha_alt == sub_fp(one, alpha)
  IN  IF old = 0 THEN recent
      ELSE fp_to_int_round(add_fp(mult_int(alpha, recent), mult_int(alpha_alt, old)))

\* Mutant: the other threads of the name do not learn the estimate.
EstimatesOwn == [total_exec EXCEPT ![cur] = calc_new_total_exec(@, curr_exec[cur])]

(* thread_exit(): the estimate of the running thread, then those of every
   live thread as get_total_exec_each() finds them.                        *)
Estimates ==
  LET te == [total_exec EXCEPT ![cur] = calc_new_total_exec(@, curr_exec[cur])]
  IN  [t \in Thread |-> IF t \in all_list THEN te[Reference(t)] ELSE te[t]]

\* Mutants: sorted by the estimates before the update; threads without an
\* estimate left out.
SortedByStale ==
  list_sort(ready_list, {lr \in Thread \X Thread : total_exec[lr[1]] < total_exec[lr[2]]})

SortedKnown == SelectSeq(ready_list, LAMBDA t : Estimates[t] > 0)

SortedByDuration ==
  LET te == Estimates
      duration_cmp == {lr \in Thread \X Thread : te[lr[1]] < te[lr[2]]}
  IN  list_sort(ready_list, duration_cmp)

SjfThreadExit ==
  /\ total_exec' = Estimates
  /\ ThreadExit(SortedByDuration)
  /\ UNCHANGED <<name, curr_exec, all_all_list>>

(* thread_tick()                                                           *)
SjfTick ==
  /\ curr_exec[cur] < MaxExec
  /\ IntrEnter(ready_list, FALSE)
  /\ curr_exec' = [curr_exec EXCEPT ![cur] = @ + 1]
  /\ UNCHANGED <<name, total_exec, all_all_list>>

(* The steps that leave the estimates alone.  Handlers wake threads that
   wait: what an early sema_up() does is the subject of TimerSleep.        *)
SjfOther ==
  /\ \/ \E s \in Sema : SemaDownPass(s) \/ SemaDownBlock(s) \/ SemaUp(s)
     \/ \E s \in Sema : waiters[s] # << >> /\ IntrUp(s)
     \/ IntrEnter(ready_list, FALSE)   \* a device other than the timer
     \/ SemaRetryPass
     \/ SemaRetryBlock
     \/ \E t \in Worker : UnblockNew(t)
     \/ ThreadYield
     \/ IdleInit
     \/ IdleBlock
     \/ IntrReturn
  /\ UNCHANGED <<name, curr_exec, total_exec, all_all_list>>

SjfNext ==
  \/ SjfThreadStart
  \/ \E t \in Worker, n \in Names : SjfInitThread(t, n)
  \/ SjfThreadExit
  \/ SjfTick
  \/ SjfOther

SjfSpec == SjfInit /\ [][SjfNext]_sjfVars

-----------------------------------------------------------------------------
(* When a thread exits, the processor goes to a queued thread with the
   smallest estimate, estimates as just updated, and among equals to the
   one that was queued first.                                              *)
ShortestFirst ==
  [][status[cur] = "RUNNING" /\ status'[cur] = "DYING" /\ ready_list # << >> =>
       \E i \in DOMAIN ready_list :
         /\ cur' = ready_list[i]
         /\ \A j \in DOMAIN ready_list :
              LET e(k) == total_exec'[ready_list[k]]
              IN  e(i) <= e(j) /\ (e(i) = e(j) => i <= j)]_sjfVars

(* all_all_list "keeps a unique reference for a given thread": one for each
   name, and for every name a live thread has.                             *)
OneReferencePerName ==
  /\ \A i, j \in DOMAIN all_all_list :
       name[all_all_list[i]] = name[all_all_list[j]] => i = j
  /\ \A t \in all_list : Namesakes(name[t]) # << >>

(* All live threads of one name are sorted by one estimate.                *)
EstimatesAgree ==
  \A t, u \in all_list : name[t] = name[u] => total_exec[t] = total_exec[u]

(* The history outlives the threads in it: their pages are never freed.    *)
HistoryNotFreed == \A t \in Range(all_all_list) : status[t] # "FREE"

(* What the sort of the ready list in thread_exit() relies on.             *)
HistorySound == SjfTypeOK /\ OneReferencePerName /\ EstimatesAgree /\ HistoryNotFreed

(* The design document: calc_new_total_exec() is called when a thread ends
   and so the estimate of its name is brought up to date, for those running
   now and those created later.                                            *)
EstimateLearned ==
  [][status[cur] = "RUNNING" /\ status'[cur] = "DYING" =>
       total_exec'[Reference(cur)] =
         calc_new_total_exec(total_exec[cur], curr_exec[cur])]_sjfVars

(* Every step is a step of the run queue.                                  *)
SjfRunQueueSpec == Spec
=============================================================================
