--------------------------- MODULE RunQueueProofs ---------------------------
(***************************************************************************)
(* Proofs of the safety properties of RunQueue, for any number of threads  *)
(* and semaphores and any bound on their values.                           *)
(***************************************************************************)
EXTENDS RunQueueSteps

-----------------------------------------------------------------------------
(* Every step preserves the invariant.                                     *)
LEMMA IndInvStep ==
  ASSUME IndInv, [Next]_vars
  PROVE  IndInv'
<1> USE DEF intrVars
<1>1. /\ TypeOK /\ OneRunning /\ ElemOnOneList /\ NoThreadLost /\ BootOrder
      /\ IdleNeverQueued /\ UnderConstruction /\ DowningOwn
  BY DEF IndInv
<1>2. /\ cur \in Thread /\ Main \in Thread /\ Idle \in Thread /\ Main # Idle
      /\ NULL \notin Thread /\ NULL \notin Sema /\ Thread \subseteq Sema
      /\ Public \cup {idle_started} \subseteq Sema \ Thread
      /\ Worker \subseteq Thread
      /\ Main \notin Worker /\ Idle \notin Worker
      /\ pc[cur] \in {"init", "up", "loop", "hlt"} <=> cur = Idle
      /\ pc[cur] # "boot" \/ downing[cur] # NULL \/ in_external_intr => pc[Main] # "boot"
      /\ pc[cur] = "start" => cur = Main
      /\ pc[Main] # "boot" /\ cur # Idle /\ ready_list = << >> => idle_thread = Idle
  BY BootFacts, ConstantsAssumption
<1>3. /\ pc \in [Thread -> Points]
      /\ idle_thread \in {NULL, Idle}
      /\ in_external_intr \in BOOLEAN /\ yield_on_return \in BOOLEAN
      /\ downing[Idle] = NULL
      /\ ready_list \in Seq(Thread) /\ IsInjective(ready_list)
      /\ status \in [Thread -> Statuses]
      /\ downing \in [Thread -> Sema \cup {NULL}]
  BY <1>1 DEF TypeOK, BootOrder, ElemOnOneList
<1>4. ASSUME pc[Main] # "boot", UNCHANGED <<pc, idle_thread>>,
             ListInv', IdleAbout', downing'[Idle] = NULL,
             in_external_intr' \in BOOLEAN, yield_on_return' \in BOOLEAN
      PROVE  IndInv'
  <2>1. /\ pc' \in [Thread -> Points]
        /\ pc'[Main] \in {"start", "run"}
        /\ pc'[Idle] \in {"init", "up", "loop", "hlt"}
        /\ \A t \in Worker : pc'[t] = "run"
        /\ idle_thread' \in {NULL, Idle}
        /\ idle_thread' = NULL <=> pc'[Idle] = "init"
    BY <1>1, <1>3, <1>4 DEF BootOrder
  <2> QED BY <1>4, <2>1, Reassembled
<1>5. ASSUME NEW s \in Sema, SemaDownPass(s) PROVE IndInv'
  <2>1. /\ pc[cur] \in {"run", "start"} /\ pc[Main] # "boot" /\ DownPass(s)
        /\ pc' = pc \/ (cur = Main /\ pc' = [pc EXCEPT ![cur] = "run"])
    BY <1>2, <1>5 DEF SemaDownPass, DownAt
  <2>2. ListInv' /\ IdleAbout' /\ downing'[Idle] = NULL
    BY <2>1, DownPassStep
  <2>3. UNCHANGED <<idle_thread, in_external_intr, yield_on_return>>
    BY <2>1 DEF DownPass
  <2>4. /\ pc' \in [Thread -> Points]
        /\ pc'[Main] \in {"start", "run"}
        /\ pc'[Idle] = pc[Idle]
        /\ \A t \in Worker : pc'[t] = "run"
    BY <1>1, <1>2, <1>3, <2>1 DEF BootOrder, Points
  <2> QED BY <1>1, <1>3, <2>2, <2>3, <2>4, Reassembled DEF BootOrder
<1>6. ASSUME NEW s \in Sema, SemaDownBlock(s) PROVE IndInv'
  <2>1. /\ pc[cur] \in {"run", "start"} /\ pc[Main] # "boot" /\ DownBlock(s) /\ cur # Idle
        /\ pc' = pc \/ (cur = Main /\ pc' = [pc EXCEPT ![cur] = "run"])
        /\ s \in Thread => s = cur
    BY <1>2, <1>6 DEF SemaDownBlock, DownAt
  <2>2. ListInv' /\ IdleAbout' /\ downing'[Idle] = NULL
    BY <2>1, DownBlockStep
  <2>3. UNCHANGED <<idle_thread, in_external_intr, yield_on_return>>
    BY <2>1 DEF DownBlock
  <2>4. /\ pc' \in [Thread -> Points]
        /\ pc'[Main] \in {"start", "run"}
        /\ pc'[Idle] = pc[Idle]
        /\ \A t \in Worker : pc'[t] = "run"
    BY <1>1, <1>2, <1>3, <2>1 DEF BootOrder, Points
  <2> QED BY <1>1, <1>3, <2>2, <2>3, <2>4, Reassembled DEF BootOrder
<1>7. CASE SemaRetryPass
  <2>1. PICK s \in Sema : downing[cur] = s /\ DownPass(s)
    BY <1>7 DEF SemaRetryPass
  <2>2. pc[Main] # "boot"
    BY <1>2, <2>1
  <2>3. ListInv' /\ IdleAbout' /\ downing'[Idle] = NULL
    BY <2>1, <2>2, DownPassStep
  <2>4. UNCHANGED <<pc, idle_thread, in_external_intr, yield_on_return>>
    BY <1>7, <2>1 DEF SemaRetryPass, DownPass
  <2> QED BY <1>3, <1>4, <2>2, <2>3, <2>4
<1>8. CASE SemaRetryBlock
  <2>1. PICK s \in Sema : downing[cur] = s /\ DownBlock(s)
    BY <1>8 DEF SemaRetryBlock
  <2>2. pc[Main] # "boot" /\ cur # Idle /\ (s \in Thread => s = cur)
    BY <1>1, <1>2, <1>3, <2>1 DEF DowningOwn
  <2>3. ListInv' /\ IdleAbout' /\ downing'[Idle] = NULL
    BY <2>1, <2>2, DownBlockStep
  <2>4. UNCHANGED <<pc, idle_thread, in_external_intr, yield_on_return>>
    BY <1>8, <2>1 DEF SemaRetryBlock, DownBlock
  <2> QED BY <1>3, <1>4, <2>2, <2>3, <2>4
<1>9. ASSUME NEW s \in Sema, SemaUp(s) PROVE IndInv'
  <2>1. /\ pc[cur] \in {"run", "up"} /\ pc[Main] # "boot" /\ Up(s)
        /\ pc' = pc \/ (cur = Idle /\ pc[Idle] = "up" /\ pc' = [pc EXCEPT ![Idle] = "loop"])
    BY <1>2, <1>9 DEF SemaUp
  <2>2. ListInv' /\ IdleAbout' /\ downing'[Idle] = NULL
    BY <2>1, UpStep
  <2>3. UNCHANGED <<idle_thread, in_external_intr, yield_on_return>>
    BY <2>1 DEF Up
  <2>4. /\ pc' \in [Thread -> Points]
        /\ pc'[Main] \in {"start", "run"}
        /\ pc'[Idle] \in {"init", "up", "loop", "hlt"}
        /\ pc'[Idle] = "init" <=> pc[Idle] = "init"
        /\ \A t \in Worker : pc'[t] = "run"
    BY <1>1, <1>2, <1>3, <2>1 DEF BootOrder, Points
  <2> QED BY <1>1, <1>3, <2>2, <2>3, <2>4, Reassembled DEF BootOrder
<1>10. ASSUME NEW s \in Sema, IntrUp(s) PROVE IndInv'
  <2>1. Up(s) /\ pc[Main] # "boot" /\ UNCHANGED pc
    BY <1>2, <1>10 DEF IntrUp
  <2>2. ListInv' /\ IdleAbout' /\ downing'[Idle] = NULL
    BY <2>1, UpStep
  <2>3. UNCHANGED <<idle_thread, in_external_intr, yield_on_return>>
    BY <2>1 DEF Up
  <2> QED BY <1>3, <1>4, <2>1, <2>2, <2>3
<1>11. ASSUME pc[Main] # "boot",
              schedule([status EXCEPT ![cur] = "READY"], YieldQueue),
              UNCHANGED <<semaVars, creating, idle_thread>>
       PROVE  ListInv' /\ IdleAbout' /\ downing'[Idle] = NULL
  <2> DEFINE st == [status EXCEPT ![cur] = "READY"]
  <2>1. /\ st \in [Thread -> Statuses] /\ st[cur] = "READY"
        /\ \A t \in Thread \ {cur} : st[t] = status[t]
    BY <1>2, <1>3 DEF Statuses
  <2>2. cur \notin Range(ready_list)
    BY <1>1, <1>2 DEF OneRunning, ElemOnOneList
  <2>3. /\ YieldQueue \in Seq(Thread) /\ IsInjective(YieldQueue)
        /\ Range(YieldQueue) = Range(ready_list) \cup
             (IF cur # idle_thread THEN {cur} ELSE {})
        /\ YieldQueue = << >> => idle_thread = Idle
    <3>1. CASE cur = idle_thread
      <4>1. idle_thread = Idle
        BY <1>2, <1>3, <3>1
      <4> QED BY <1>3, <3>1, <4>1 DEF YieldQueue
    <3>2. CASE cur # idle_thread
      <4>1. YieldQueue = Append(ready_list, cur)
        BY <3>2 DEF YieldQueue
      <4> QED BY <1>2, <1>3, <2>2, <3>2, <4>1, PushBack
    <3> QED BY <3>1, <3>2
  <2> HIDE DEF st
  <2>4. schedule(st, YieldQueue)
    BY <1>11 DEF st
  <2> QED BY <1>11, <2>1, <2>3, <2>4, SwitchStep
<1>12. CASE ThreadYield
  <2>1. pc[Main] # "boot"
    BY <1>2, <1>12 DEF ThreadYield, InFunction
  <2>2. /\ schedule([status EXCEPT ![cur] = "READY"], YieldQueue)
        /\ UNCHANGED <<semaVars, creating, pc, idle_thread, in_external_intr, yield_on_return>>
    BY <1>12 DEF ThreadYield
  <2>3. ListInv' /\ IdleAbout' /\ downing'[Idle] = NULL
    BY <1>11, <2>1, <2>2
  <2> QED BY <1>3, <1>4, <2>1, <2>2, <2>3
<1>13. CASE IntrReturnYield
  <2>1. pc[Main] # "boot"
    BY <1>2, <1>13 DEF IntrReturnYield
  <2>2. /\ schedule([status EXCEPT ![cur] = "READY"], YieldQueue)
        /\ UNCHANGED <<semaVars, creating, pc, idle_thread, yield_on_return>>
        /\ in_external_intr' = FALSE
    BY <1>13 DEF IntrReturnYield
  <2>3. ListInv' /\ IdleAbout' /\ downing'[Idle] = NULL
    BY <1>11, <2>1, <2>2
  <2> QED BY Zenon, <1>3, <1>4, <2>1, <2>2, <2>3
<1>14. ASSUME NEW rl \in Reorderings(ready_list), ThreadExit(rl) PROVE IndInv'
  <2> DEFINE st == [status EXCEPT ![cur] = "DYING"]
  <2>1. pc[Main] # "boot" /\ cur # Idle /\ downing[cur] = NULL
    BY <1>2, <1>14 DEF ThreadExit, InFunction, InThread
  <2>2. /\ schedule(st, rl)
        /\ UNCHANGED <<semaVars, creating, pc, idle_thread, in_external_intr, yield_on_return>>
    BY <1>14 DEF ThreadExit
  <2>3. /\ st \in [Thread -> Statuses] /\ st[cur] = "DYING"
        /\ \A t \in Thread \ {cur} : st[t] = status[t]
    BY <1>2, <1>3 DEF Statuses
  <2>4. /\ rl \in Seq(Thread) /\ IsInjective(rl) /\ Range(rl) = Range(ready_list)
        /\ rl = << >> => idle_thread = Idle
    BY <1>2, <1>3, <2>1, Reordered
  <2> HIDE DEF st
  <2>5. ListInv' /\ IdleAbout' /\ downing'[Idle] = NULL
    BY Zenon, <2>1, <2>2, <2>3, <2>4, SwitchStep
  <2> QED BY <1>3, <1>4, <2>1, <2>2, <2>5
<1>15. CASE IdleBlock
  <2> DEFINE st == [status EXCEPT ![cur] = "BLOCKED"]
  <2>1. /\ pc[Main] # "boot" /\ cur = Idle /\ pc[Idle] = "loop" /\ idle_thread = Idle
    BY <1>1, <1>2, <1>3, <1>15 DEF IdleBlock, BootOrder
  <2>2. /\ schedule(st, ready_list)
        /\ pc' = [pc EXCEPT ![cur] = "hlt"]
        /\ UNCHANGED <<semaVars, creating, idle_thread, in_external_intr, yield_on_return>>
    BY <1>15 DEF IdleBlock
  <2>3. /\ st \in [Thread -> Statuses] /\ st[cur] = "BLOCKED"
        /\ \A t \in Thread \ {cur} : st[t] = status[t]
    BY <1>2, <1>3 DEF Statuses
  <2>4. ListInv' /\ IdleAbout' /\ downing'[Idle] = NULL
    <3> HIDE DEF st
    <3> QED BY Zenon, <1>3, <2>1, <2>2, <2>3, SwitchStep
  <2>5. /\ pc' \in [Thread -> Points]
        /\ pc'[Main] \in {"start", "run"}
        /\ pc'[Idle] = "hlt"
        /\ \A t \in Worker : pc'[t] = "run"
    BY <1>1, <1>2, <1>3, <2>1, <2>2 DEF BootOrder, Points
  <2> QED BY <1>2, <1>3, <2>1, <2>2, <2>4, <2>5, Reassembled
<1>16. CASE ThreadStart
  <2>1. ListInv' /\ IdleAbout' /\ downing'[Idle] = NULL /\ cur = Main
    BY <1>16, ThreadStartStep
  <2>2. /\ pc' = [pc EXCEPT ![cur] = "start"]
        /\ UNCHANGED <<idle_thread, in_external_intr, yield_on_return>>
    BY <1>16 DEF ThreadStart
  <2>3. /\ pc' \in [Thread -> Points]
        /\ pc'[Main] = "start"
        /\ pc'[Idle] = pc[Idle]
        /\ \A t \in Worker : pc'[t] = "run"
    BY <1>1, <1>2, <1>3, <2>1, <2>2 DEF BootOrder, Points
  <2> QED BY <1>1, <1>3, <2>1, <2>2, <2>3, Reassembled DEF BootOrder
<1>17. ASSUME NEW t \in Worker, InitThread(t) PROVE IndInv'
  <2>1. ListInv' /\ IdleAbout' /\ downing'[Idle] = NULL
    BY <1>17, InitThreadStep
  <2>2. /\ pc[Main] # "boot"
        /\ UNCHANGED <<pc, idle_thread, in_external_intr, yield_on_return>>
    BY <1>2, <1>17 DEF InitThread, InFunction
  <2> QED BY <1>3, <1>4, <2>1, <2>2
<1>18. ASSUME NEW t \in Worker, UnblockNew(t) PROVE IndInv'
  <2>1. ListInv' /\ IdleAbout' /\ downing'[Idle] = NULL
    BY <1>18, UnblockNewStep
  <2>2. /\ pc[Main] # "boot"
        /\ UNCHANGED <<pc, idle_thread, in_external_intr, yield_on_return>>
    BY <1>2, <1>18 DEF UnblockNew, InFunction
  <2> QED BY <1>3, <1>4, <2>1, <2>2
<1>19. CASE IdleInit
  <2>1. /\ cur = Idle /\ pc[Main] # "boot" /\ idle_thread' = Idle
        /\ pc' = [pc EXCEPT ![cur] = "up"]
        /\ UNCHANGED <<cur, status, ready_list, value, waiters, downing, creating,
                       in_external_intr, yield_on_return>>
    BY <1>2, <1>19 DEF IdleInit, semaVars
  <2>2. Idle \notin Range(ready_list)
    BY <1>1, <1>2, <2>1 DEF OneRunning, ElemOnOneList
  <2>3. NoThreadLost'
    <3> SUFFICES ASSUME NEW t \in Thread \ {Idle}
                 PROVE  /\ status[t] = "READY" => t \in Range(ready_list)
                        /\ status[t] = "BLOCKED" =>
                             \/ \E s \in Sema : t \in Range(waiters[s])
                             \/ \E u \in Thread : creating[u] = t
      BY <2>1 DEF NoThreadLost
    <3>1. t # idle_thread
      BY <1>2, <1>3
    <3> QED BY <1>1, <3>1 DEF NoThreadLost
  <2>4. ListInv' /\ IdleAbout' /\ downing'[Idle] = NULL
    <3>1. OneRunning' /\ ElemOnOneList' /\ UnderConstruction' /\ DowningOwn'
      BY <1>1, <2>1 DEF OneRunning, ElemOnOneList, UnderConstruction, DowningOwn
    <3>2. IdleNeverQueued' /\ IdleAbout' /\ downing'[Idle] = NULL
      BY <1>3, <2>1, <2>2 DEF IdleNeverQueued, IdleAbout
    <3>3. /\ cur' \in Thread /\ status' \in [Thread -> Statuses] /\ ready_list' \in Seq(Thread)
          /\ value' \in [Sema -> Nat] /\ waiters' \in [Sema -> Seq(Thread)]
          /\ downing' \in [Thread -> Sema \cup {NULL}]
          /\ creating' \in [Thread -> Worker \cup {NULL}]
      BY <1>1, <2>1 DEF TypeOK
    <3> QED BY <2>3, <3>1, <3>2, <3>3 DEF ListInv
  <2>5. /\ pc' \in [Thread -> Points]
        /\ pc'[Main] \in {"start", "run"}
        /\ pc'[Idle] = "up"
        /\ \A t \in Worker : pc'[t] = "run"
    BY <1>1, <1>2, <1>3, <2>1 DEF BootOrder, Points
  <2> QED BY <1>2, <1>3, <2>1, <2>4, <2>5, Reassembled
<1>20. ASSUME NEW rl \in Reorderings(ready_list), NEW y \in BOOLEAN, IntrEnter(rl, y)
       PROVE  IndInv'
  <2>1. ListInv' /\ IdleAbout' /\ downing'[Idle] = NULL
    BY <1>20, IntrEnterStep
  <2>2. /\ pc[Main] # "boot"
        /\ pc' = [pc EXCEPT ![cur] = IF @ = "hlt" THEN "loop" ELSE @]
        /\ UNCHANGED idle_thread
        /\ in_external_intr' = TRUE /\ yield_on_return' = y
    BY <1>2, <1>20 DEF IntrEnter
  <2>3. /\ pc' \in [Thread -> Points]
        /\ pc'[Main] \in {"start", "run"}
        /\ pc'[Idle] \in {"init", "up", "loop", "hlt"}
        /\ pc'[Idle] = "init" <=> pc[Idle] = "init"
        /\ \A t \in Worker : pc'[t] = "run"
    BY <1>1, <1>2, <1>3, <2>2 DEF BootOrder, Points
  <2> QED BY <1>1, <1>3, <2>1, <2>2, <2>3, Reassembled DEF BootOrder
<1>21. CASE IntrReturn \/ UNCHANGED vars
  <2>1. /\ UNCHANGED <<cur, status, ready_list, value, waiters, downing, creating, pc,
                       idle_thread, yield_on_return>>
        /\ in_external_intr' = FALSE \/ in_external_intr' = in_external_intr
    BY <1>21 DEF IntrReturn, vars, semaVars
  <2>2. OneRunning' /\ ElemOnOneList' /\ NoThreadLost' /\ IdleNeverQueued'
    BY <1>1, <2>1 DEF OneRunning, ElemOnOneList, NoThreadLost, IdleNeverQueued
  <2>3. UnderConstruction' /\ DowningOwn'
    BY <1>1, <2>1 DEF UnderConstruction, DowningOwn
  <2>4. TypeOK'
    BY Zenon, <1>1, <2>1 DEF TypeOK
  <2>5. BootOrder'
    BY <1>1, <2>1 DEF BootOrder
  <2> QED BY <2>2, <2>3, <2>4, <2>5 DEF IndInv
<1> QED
  BY <1>5, <1>6, <1>7, <1>8, <1>9, <1>10, <1>12, <1>13, <1>14, <1>15, <1>16, <1>17,
     <1>18, <1>19, <1>20, <1>21 DEF Next, Switching, NotSwitching

(* The boot state satisfies the invariant.                                 *)
LEMMA IndInvInit == Init => IndInv
<1> SUFFICES ASSUME Init PROVE IndInv
  OBVIOUS
<1>1. /\ Main \in Thread /\ Idle \in Thread /\ Main # Idle /\ Thread \subseteq Sema
      /\ Main \notin Worker /\ Idle \notin Worker /\ Worker \subseteq Thread
      /\ NULL \notin Thread
  BY ConstantsAssumption DEF Thread, Sema
<1>2. << >> \in Seq(Thread) /\ Range(<< >>) = {} /\ IsInjective(<< >>)
  BY EmptySeq DEF Range, IsInjective
<1>3. TypeOK
  BY Zenon, <1>1, <1>2 DEF Init, TypeOK, Statuses, Points
<1>4. OneRunning /\ ElemOnOneList /\ NoThreadLost /\ IdleNeverQueued
  BY <1>1, <1>2 DEF Init, OneRunning, ElemOnOneList, NoThreadLost, IdleNeverQueued
<1>5. BootOrder
  BY <1>1 DEF Init, BootOrder
<1>6. UnderConstruction /\ DowningOwn
  BY <1>1 DEF Init, UnderConstruction, DowningOwn
<1> QED BY <1>3, <1>4, <1>5, <1>6 DEF IndInv

(* The inductive invariant holds in every reachable state of the run queue,
   under any scheduling policy that only reorders it.                      *)
THEOREM Invariance == Spec => []IndInv
<1>1. Init => IndInv
  BY IndInvInit
<1>2. IndInv /\ [Next]_vars => IndInv'
  BY IndInvStep
<1> QED BY <1>1, <1>2, PTL DEF Spec

(* Type correctness, and with it that schedule() always finds a thread to
   run: next_thread_to_run() never returns a null idle_thread.             *)
THEOREM TypeCorrect == Spec => []TypeOK
<1>1. IndInv => TypeOK
  BY DEF IndInv
<1> QED BY <1>1, Invariance, PTL

(* The assertion of thread_current(): the thread in whose page the stack is
   is the one RUNNING thread.                                              *)
THEOREM RunningIsCurrent == Spec => []OneRunning
<1>1. IndInv => OneRunning
  BY DEF IndInv
<1> QED BY <1>1, Invariance, PTL

(* The one list element of a thread is never on two lists.                 *)
THEOREM ListsAreDisjoint == Spec => []ElemOnOneList
<1>1. IndInv => ElemOnOneList
  BY DEF IndInv
<1> QED BY <1>1, Invariance, PTL

(* No READY or BLOCKED thread drops out of every list.                     *)
THEOREM NobodyLost == Spec => []NoThreadLost
<1>1. IndInv => NoThreadLost
  BY DEF IndInv
<1> QED BY <1>1, Invariance, PTL

(* The comment of idle(): "After that, the idle thread never appears in the
   ready list."                                                            *)
THEOREM IdleOffTheQueue == Spec => []IdleNeverQueued
<1>1. IndInv => IdleNeverQueued
  BY DEF IndInv
<1> QED BY <1>1, Invariance, PTL

(* What schedule() picks from a run queue that holds only queued threads and
   the running one.                                                        *)
LEMMA Picked ==
  ASSUME IndInv, NEW st, NEW rl \in Seq(Thread),
         Range(rl) \subseteq Range(ready_list) \cup {cur},
         schedule(st, rl)
  PROVE  cur' = cur \/ status[cur'] = "READY" \/ cur' = idle_thread
<1>1. CASE rl = << >>
  BY <1>1 DEF schedule, next_thread_to_run
<1>2. CASE rl # << >>
  <2>1. cur' = Head(rl)
    BY <1>2 DEF schedule, next_thread_to_run
  <2>2. Head(rl) \in Range(rl)
    BY <1>2, PopFront
  <2> QED BY <2>1, <2>2 DEF IndInv, ElemOnOneList
<1> QED BY <1>1, <1>2

(* schedule() never switches to a blocked or exited thread or to a freed
   page.                                                                   *)
THEOREM SwitchesToRunnable == Spec => SwitchToRunnable
<1>1. ASSUME IndInv, IndInv', [Next]_vars
      PROVE  [cur' \in Thread /\ (status[cur'] = "READY" \/ cur' = idle_thread)]_cur
  <2>1. /\ ready_list \in Seq(Thread) /\ cur \in Thread /\ cur' \in Thread
        /\ IsInjective(ready_list)
    BY <1>1 DEF IndInv, TypeOK, ElemOnOneList
  <2>2. YieldQueue \in Seq(Thread) /\ Range(YieldQueue) \subseteq Range(ready_list) \cup {cur}
    <3>1. cur \notin Range(ready_list)
      BY <1>1, <2>1 DEF IndInv, OneRunning, ElemOnOneList
    <3>2. CASE cur = idle_thread
      BY <2>1, <3>2 DEF YieldQueue
    <3>3. CASE cur # idle_thread
      BY <2>1, <3>1, <3>3, PushBack DEF YieldQueue
    <3> QED BY <3>2, <3>3
  <2>3. ASSUME NEW st, schedule(st, ready_list)
        PROVE  cur' = cur \/ status[cur'] = "READY" \/ cur' = idle_thread
    BY <1>1, <2>1, <2>3, Picked
  <2>4. CASE Switching
    <3>1. ASSUME NEW s \in Sema, DownBlock(s)
          PROVE  cur' = cur \/ status[cur'] = "READY" \/ cur' = idle_thread
      BY <2>3, <3>1 DEF DownBlock
    <3>2. CASE ThreadYield \/ IntrReturnYield
      <4>1. schedule([status EXCEPT ![cur] = "READY"], YieldQueue)
        BY <3>2 DEF ThreadYield, IntrReturnYield
      <4> QED BY <1>1, <2>1, <2>2, <4>1, Picked
    <3>3. ASSUME NEW rl \in Reorderings(ready_list), ThreadExit(rl)
          PROVE  cur' = cur \/ status[cur'] = "READY" \/ cur' = idle_thread
      <4>1. rl \in Seq(Thread) /\ Range(rl) = Range(ready_list)
        BY <2>1, Reordered
      <4>2. schedule([status EXCEPT ![cur] = "DYING"], rl)
        BY <3>3 DEF ThreadExit
      <4> QED BY <1>1, <4>1, <4>2, Picked
    <3>4. CASE IdleBlock
      BY <2>1, <2>3, <3>4 DEF IdleBlock
    <3>5. cur' = cur \/ status[cur'] = "READY" \/ cur' = idle_thread
      <4>1. CASE \E s \in Sema : SemaDownBlock(s)
        BY <3>1, <4>1 DEF SemaDownBlock
      <4>2. CASE SemaRetryBlock
        BY <3>1, <4>2 DEF SemaRetryBlock
      <4> QED BY <2>4, <3>2, <3>3, <3>4, <4>1, <4>2 DEF Switching
    <3> QED BY <2>1, <3>5
  <2>5. CASE NotSwitching
    BY <2>5 DEF NotSwitching, SemaDownPass, SemaUp, IntrUp, SemaRetryPass, DownPass, Up,
       ThreadStart, InitThread, UnblockNew, IdleInit, IntrEnter, IntrReturn
  <2>6. CASE UNCHANGED vars
    BY <2>6 DEF vars
  <2> QED BY <1>1, <2>4, <2>5, <2>6 DEF Next
<1> QED BY <1>1, Invariance, PTL DEF Spec, SwitchToRunnable

=============================================================================
