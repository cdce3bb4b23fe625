---------------------------- MODULE RunQueueSteps ---------------------------
(***************************************************************************)
(* What the operations of RunQueue do to the parts of its inductive        *)
(* invariant: one lemma for each kind of step, and lemmas about lists.     *)
(***************************************************************************)
EXTENDS RunQueue, SequenceTheorems, TLAPS

-----------------------------------------------------------------------------
(* Lists.  The invariants speak of a list only through Range and           *)
(* IsInjective; these lemmas say what list_push_back(), list_pop_front()   *)
(* and list_sort() do to the two.                                          *)

(* list_push_back() adds one element and repeats none.                     *)
LEMMA PushBack ==
  ASSUME NEW S, NEW s \in Seq(S), NEW e \in S
  PROVE  /\ Append(s, e) \in Seq(S)
         /\ Append(s, e) # << >>
         /\ Range(Append(s, e)) = Range(s) \cup {e}
         /\ IsInjective(s) /\ e \notin Range(s) => IsInjective(Append(s, e))
<1> DEFINE a == Append(s, e)
<1>1. /\ a \in Seq(S) /\ a # << >>
      /\ DOMAIN a = 1 .. Len(s) + 1
      /\ DOMAIN s = 1 .. Len(s)
      /\ Len(s) \in Nat
      /\ \A i \in 1 .. Len(s) : a[i] = s[i]
      /\ a[Len(s) + 1] = e
  BY AppendProperties
<1>2. Range(a) = Range(s) \cup {e}
  <2>1. ASSUME NEW x \in Range(a) PROVE x \in Range(s) \cup {e}
    <3>1. PICK i \in DOMAIN a : x = a[i]
      BY DEF Range
    <3>2. CASE i \in 1 .. Len(s)
      BY <1>1, <3>1, <3>2 DEF Range
    <3>3. CASE i = Len(s) + 1
      BY <1>1, <3>1, <3>3
    <3> QED BY <1>1, <3>1, <3>2, <3>3
  <2>2. ASSUME NEW x \in Range(s) PROVE x \in Range(a)
    <3>1. PICK i \in 1 .. Len(s) : x = s[i]
      BY <1>1 DEF Range
    <3> QED BY <1>1, <3>1 DEF Range
  <2>3. e \in Range(a)
    BY <1>1 DEF Range
  <2> QED BY <2>1, <2>2, <2>3
<1>3. ASSUME IsInjective(s), e \notin Range(s) PROVE IsInjective(a)
  <2> SUFFICES ASSUME NEW i \in DOMAIN a, NEW j \in DOMAIN a, a[i] = a[j]
               PROVE  i = j
    BY DEF IsInjective
  <2>1. \A k \in 1 .. Len(s) : a[k] \in Range(s)
    BY <1>1 DEF Range
  <2>2. CASE i \in 1 .. Len(s) /\ j \in 1 .. Len(s)
    BY <1>1, <1>3, <2>2 DEF IsInjective
  <2>3. CASE i = Len(s) + 1 \/ j = Len(s) + 1
    BY <1>1, <1>3, <2>1, <2>3
  <2> QED BY <1>1, <2>2, <2>3
<1> QED BY <1>1, <1>2, <1>3

(* list_pop_front() takes one element out, which is then on the list no
   more.                                                                   *)
LEMMA PopFront ==
  ASSUME NEW S, NEW s \in Seq(S), s # << >>
  PROVE  /\ Head(s) \in S /\ Tail(s) \in Seq(S)
         /\ Range(s) = {Head(s)} \cup Range(Tail(s))
         /\ IsInjective(s) => IsInjective(Tail(s)) /\ Head(s) \notin Range(Tail(s))
<1> DEFINE t == Tail(s)
<1>1. /\ Head(s) \in S /\ t \in Seq(S)
      /\ Len(s) \in Nat \ {0}
      /\ DOMAIN s = 1 .. Len(s)
      /\ DOMAIN t = 1 .. Len(s) - 1
      /\ \A i \in 1 .. Len(s) - 1 : t[i] = s[i + 1]
      /\ Head(s) = s[1]
  BY HeadTailProperties, EmptySeq
<1>2. Range(s) = {Head(s)} \cup Range(t)
  <2>1. ASSUME NEW x \in Range(s) PROVE x \in {Head(s)} \cup Range(t)
    <3>1. PICK i \in 1 .. Len(s) : x = s[i]
      BY <1>1 DEF Range
    <3>2. CASE i = 1
      BY <1>1, <3>1, <3>2
    <3>3. CASE i # 1
      <4>1. i - 1 \in 1 .. Len(s) - 1 /\ (i - 1) + 1 = i
        BY <1>1, <3>1, <3>3
      <4>2. t[i - 1] = x
        BY <1>1, <3>1, <4>1
      <4> QED BY Zenon, <1>1, <4>1, <4>2 DEF Range
    <3> QED BY <3>2, <3>3
  <2>2. ASSUME NEW x \in Range(t) PROVE x \in Range(s)
    <3>1. PICK i \in 1 .. Len(s) - 1 : x = t[i]
      BY <1>1 DEF Range
    <3>2. i + 1 \in 1 .. Len(s)
      BY <1>1, <3>1
    <3> QED BY <1>1, <3>1, <3>2 DEF Range
  <2>3. Head(s) \in Range(s)
    BY <1>1 DEF Range
  <2> QED BY <2>1, <2>2, <2>3
<1>3. ASSUME IsInjective(s) PROVE IsInjective(t) /\ Head(s) \notin Range(t)
  <2>1. IsInjective(t)
    <3> SUFFICES ASSUME NEW i \in DOMAIN t, NEW j \in DOMAIN t, t[i] = t[j]
                 PROVE  i = j
      BY DEF IsInjective
    <3>1. i + 1 \in DOMAIN s /\ j + 1 \in DOMAIN s /\ s[i + 1] = s[j + 1]
      BY <1>1
    <3> QED BY <1>1, <1>3, <3>1 DEF IsInjective
  <2>2. ASSUME Head(s) \in Range(t) PROVE FALSE
    <3>1. PICK i \in 1 .. Len(s) - 1 : Head(s) = t[i]
      BY <1>1, <2>2 DEF Range
    <3>2. i + 1 \in DOMAIN s /\ 1 \in DOMAIN s /\ s[i + 1] = s[1]
      BY <1>1, <3>1
    <3> QED BY <1>1, <1>3, <3>1, <3>2 DEF IsInjective
  <2> QED BY <2>1, <2>2
<1> QED BY <1>1, <1>2, <1>3

(* Sorting neither loses nor repeats an element.                           *)
LEMMA Reordered ==
  ASSUME NEW S, NEW s \in Seq(S), NEW r \in Reorderings(s)
  PROVE  /\ r \in Seq(S)
         /\ Range(r) = Range(s)
         /\ IsInjective(s) => IsInjective(r)
         /\ r = << >> <=> s = << >>
<1>1. PICK p \in Bijection(DOMAIN s, DOMAIN s) : r = [i \in DOMAIN s |-> s[p[i]]]
  BY DEF Reorderings
<1>2. /\ p \in [DOMAIN s -> DOMAIN s]
      /\ IsInjective(p)
      /\ \A j \in DOMAIN s : \E i \in DOMAIN s : p[i] = j
  BY <1>1 DEF Bijection, Injection, Surjection
<1>3. /\ Len(s) \in Nat /\ DOMAIN s = 1 .. Len(s)
      /\ \A i \in DOMAIN s : s[i] \in S
  BY LenProperties, ElementOfSeq
<1>4. r \in Seq(S) /\ Len(r) = Len(s)
  <2>1. r \in [1 .. Len(s) -> S]
    BY <1>1, <1>2, <1>3
  <2> QED BY <1>3, <2>1
<1>5. Range(r) = Range(s)
  BY <1>1, <1>2 DEF Range
<1>6. IsInjective(s) => IsInjective(r)
  BY <1>1, <1>2 DEF IsInjective
<1> QED BY <1>4, <1>5, <1>6, EmptySeq

-----------------------------------------------------------------------------
(* What a call of schedule() does, whoever calls it: the caller has given
   the running thread the state st[cur] and put it on the run queue rl if
   that state is READY, the idle thread excepted.                          *)
LEMMA SwitchEffect ==
  ASSUME IndInv,
         NEW st \in [Thread -> Statuses], NEW rl \in Seq(Thread),
         st[cur] \in {"READY", "BLOCKED", "DYING"},
         st[cur] = "DYING" => cur # Idle,
         \A t \in Thread \ {cur} : st[t] = status[t],
         IsInjective(rl),
         Range(rl) = Range(ready_list) \cup
           (IF st[cur] = "READY" /\ cur # idle_thread THEN {cur} ELSE {}),
         rl = << >> => idle_thread = Idle,
         schedule(st, rl)
  PROVE  /\ cur' \in Thread
         /\ ready_list' \in Seq(Thread)
         /\ status' \in [Thread -> Statuses]
         /\ IsInjective(ready_list')
         /\ \A t \in Range(ready_list') : t \in Thread /\ status'[t] = "READY"
         /\ \A t \in Thread : status'[t] = "RUNNING" <=> t = cur'
         /\ \A t \in Thread \ {idle_thread} :
              status'[t] = "READY" => t \in Range(ready_list')
         /\ idle_thread # NULL => Idle \notin Range(ready_list')
         /\ \A t \in Thread : /\ st[t] = "BLOCKED" /\ t # Idle => status'[t] = "BLOCKED"
                              /\ status'[t] = "BLOCKED" => st[t] = "BLOCKED"
                              /\ status'[t] \in {"FREE", "DYING"} => st[t] \in {"FREE", "DYING"}
         /\ Idle \in Range(rl) => Idle \in Range(ready_list') \cup {cur'}
         /\ cur' = cur \/ status[cur'] = "READY" \/ cur' = idle_thread
<1> DEFINE next == next_thread_to_run(rl)
<1>1. /\ cur' = next
      /\ ready_list' = IF rl = << >> THEN rl ELSE Tail(rl)
      /\ status' = [Reap(st) EXCEPT ![next] = "RUNNING"]
  BY DEF schedule
<1>2. /\ TypeOK /\ OneRunning /\ ElemOnOneList /\ NoThreadLost /\ IdleNeverQueued
      /\ cur \in Thread /\ Idle \in Thread /\ idle_thread \in {NULL, Idle} /\ NULL \notin Thread
  BY ConstantsAssumption DEF IndInv, TypeOK, Thread, Sema
<1>3. Range(ready_list) \subseteq Thread
  BY <1>2, RangeOfSeq DEF TypeOK
<1>4. \A t \in Range(rl) : t \in Thread /\ st[t] = "READY"
  BY <1>2, <1>3 DEF OneRunning, ElemOnOneList
<1>5. /\ next \in Thread
      /\ ready_list' \in Seq(Thread)
      /\ IsInjective(ready_list')
      /\ Range(ready_list') = Range(rl) \ {next}
      /\ next \in Range(rl) \/ (Range(rl) = {} /\ next = Idle /\ idle_thread = Idle)
  <2>1. CASE rl = << >>
    <3>1. Range(rl) = {}
      BY <2>1 DEF Range
    <3> QED BY <1>1, <1>2, <2>1, <3>1 DEF next_thread_to_run
  <2>2. CASE rl # << >>
    <3>1. next = Head(rl) /\ ready_list' = Tail(rl)
      BY <1>1, <2>2 DEF next_thread_to_run
    <3> QED BY <2>2, <3>1, PopFront
  <2> QED BY <2>1, <2>2
<1>6. \A t \in Thread : /\ t = next => status'[t] = "RUNNING"
                        /\ t # next /\ t # cur => status'[t] = status[t]
                        /\ t # next /\ t = cur => \/ status'[t] = st[t]
                                                  \/ st[t] = "DYING" /\ status'[t] = "FREE"
  BY <1>1, <1>2, <1>5 DEF Reap
<1>7. status' \in [Thread -> Statuses]
  BY <1>1, <1>2, <1>5 DEF Reap, Statuses
<1>8. \A t \in Range(ready_list') : t \in Thread /\ status'[t] = "READY"
  BY <1>2, <1>4, <1>5, <1>6
<1>9. \A t \in Thread : status'[t] = "RUNNING" <=> t = cur'
  BY <1>1, <1>2, <1>5, <1>6 DEF OneRunning
<1>10. \A t \in Thread \ {idle_thread} : status'[t] = "READY" => t \in Range(ready_list')
  BY <1>2, <1>5, <1>6 DEF NoThreadLost
<1>11. idle_thread # NULL => Idle \notin Range(ready_list')
  BY <1>2, <1>5 DEF IdleNeverQueued
<1>12. \A t \in Thread : /\ st[t] = "BLOCKED" /\ t # Idle => status'[t] = "BLOCKED"
                         /\ status'[t] = "BLOCKED" => st[t] = "BLOCKED"
                         /\ status'[t] \in {"FREE", "DYING"} => st[t] \in {"FREE", "DYING"}
  BY Zenon, <1>2, <1>4, <1>5, <1>6
<1>13. cur' = cur \/ status[cur'] = "READY" \/ cur' = idle_thread
  BY <1>1, <1>4, <1>5
<1> QED BY <1>1, <1>5, <1>7, <1>8, <1>9, <1>10, <1>11, <1>12, <1>13

-----------------------------------------------------------------------------
(* The facts about boot that the steps need: only the boot code runs before
   thread_start(), and a null idle_thread means the idle thread is about.  *)
LEMMA BootFacts ==
  ASSUME IndInv
  PROVE  /\ cur \in Thread /\ Main \in Thread /\ Idle \in Thread /\ Main # Idle
         /\ NULL \notin Thread /\ NULL \notin Sema /\ Thread \subseteq Sema
         /\ Public \cup {idle_started} \subseteq Sema \ Thread
         /\ Worker \subseteq Thread
         /\ Range(ready_list) \subseteq Thread
         /\ \A s \in Sema : Range(waiters[s]) \subseteq Thread
         /\ pc[cur] \in {"init", "up", "loop", "hlt"} <=> cur = Idle
         /\ pc[cur] # "boot" \/ downing[cur] # NULL \/ in_external_intr => pc[Main] # "boot"
         /\ pc[cur] = "start" => cur = Main
         /\ pc[Main] # "boot" /\ cur # Idle /\ ready_list = << >> => idle_thread = Idle
<1>1. /\ TypeOK /\ BootOrder
  BY DEF IndInv
<1>2. /\ cur \in Thread /\ Main \in Thread /\ Idle \in Thread /\ Main # Idle
      /\ NULL \notin Thread /\ NULL \notin Sema /\ Thread \subseteq Sema
      /\ Public \cup {idle_started} \subseteq Sema \ Thread
      /\ Worker \subseteq Thread
  BY <1>1, ConstantsAssumption DEF TypeOK, Thread, Sema, Public
<1>3. Range(ready_list) \subseteq Thread
  BY <1>1, RangeOfSeq DEF TypeOK
<1>4. \A s \in Sema : Range(waiters[s]) \subseteq Thread
  BY <1>1, RangeOfSeq DEF TypeOK
<1>5. \A t \in Thread : t = Main \/ t = Idle \/ t \in Worker
  BY DEF Thread
<1>6. ready_list = << >> => Range(ready_list) = {}
  BY DEF Range
<1>7. pc[cur] \in {"init", "up", "loop", "hlt"} <=> cur = Idle
  BY <1>1, <1>2, <1>5 DEF BootOrder
<1>8. pc[cur] # "boot" \/ downing[cur] # NULL \/ in_external_intr => pc[Main] # "boot"
  BY <1>1, <1>2 DEF BootOrder
<1>9. pc[cur] = "start" => cur = Main
  BY <1>1, <1>2, <1>5 DEF BootOrder
<1>10. pc[Main] # "boot" /\ cur # Idle /\ ready_list = << >> => idle_thread = Idle
  BY <1>1, <1>6 DEF BootOrder, TypeOK
<1> QED BY <1>2, <1>3, <1>4, <1>7, <1>8, <1>9, <1>10

(* The invariant without what it says of pc and the boot sequence.         *)
ListInv ==
  /\ cur \in Thread
  /\ status \in [Thread -> Statuses]
  /\ ready_list \in Seq(Thread)
  /\ value \in [Sema -> Nat]
  /\ waiters \in [Sema -> Seq(Thread)]
  /\ downing \in [Thread -> Sema \cup {NULL}]
  /\ creating \in [Thread -> Worker \cup {NULL}]
  /\ OneRunning
  /\ ElemOnOneList
  /\ NoThreadLost
  /\ IdleNeverQueued
  /\ UnderConstruction
  /\ DowningOwn

(* The part of BootOrder about the idle thread's whereabouts.              *)
IdleAbout == idle_thread = NULL => Idle \in Range(ready_list) \cup {cur}

(* One turn of sema_down() that blocks.                                    *)
LEMMA DownBlockStep ==
  ASSUME IndInv, NEW s \in Sema, DownBlock(s), cur # Idle, pc[Main] # "boot",
         s \in Thread => s = cur
  PROVE  ListInv' /\ IdleAbout' /\ downing'[Idle] = NULL
         /\ (cur' = cur \/ status[cur'] = "READY" \/ cur' = idle_thread)
<1> DEFINE st == [status EXCEPT ![cur] = "BLOCKED"]
<1>1. /\ TypeOK /\ OneRunning /\ ElemOnOneList /\ NoThreadLost /\ BootOrder
      /\ UnderConstruction /\ DowningOwn
  BY DEF IndInv
<1>2. /\ cur \in Thread /\ Idle \in Thread /\ NULL \notin Sema /\ Thread \subseteq Sema
      /\ ready_list = << >> => idle_thread = Idle
      /\ \A r \in Sema : Range(waiters[r]) \subseteq Thread
  BY BootFacts
<1>3. /\ waiters' = [waiters EXCEPT ![s] = Append(@, cur)]
      /\ downing' = [downing EXCEPT ![cur] = s]
      /\ schedule(st, ready_list)
      /\ UNCHANGED <<value, creating, idle_thread>>
  BY DEF DownBlock
<1>4. /\ cur' \in Thread
      /\ ready_list' \in Seq(Thread)
      /\ status' \in [Thread -> Statuses]
      /\ IsInjective(ready_list')
      /\ \A t \in Range(ready_list') : t \in Thread /\ status'[t] = "READY"
      /\ \A t \in Thread : status'[t] = "RUNNING" <=> t = cur'
      /\ \A t \in Thread \ {idle_thread} :
           status'[t] = "READY" => t \in Range(ready_list')
      /\ idle_thread # NULL => Idle \notin Range(ready_list')
      /\ \A t \in Thread : /\ st[t] = "BLOCKED" /\ t # Idle => status'[t] = "BLOCKED"
                           /\ status'[t] = "BLOCKED" => st[t] = "BLOCKED"
                           /\ status'[t] \in {"FREE", "DYING"} => st[t] \in {"FREE", "DYING"}
      /\ Idle \in Range(ready_list) => Idle \in Range(ready_list') \cup {cur'}
      /\ cur' = cur \/ status[cur'] = "READY" \/ cur' = idle_thread
  <2>1. /\ st \in [Thread -> Statuses] /\ st[cur] = "BLOCKED"
        /\ \A t \in Thread \ {cur} : st[t] = status[t]
    BY <1>1, <1>2 DEF TypeOK, Statuses
  <2>2. ready_list \in Seq(Thread) /\ IsInjective(ready_list)
    BY <1>1 DEF TypeOK, ElemOnOneList
  <2> HIDE DEF st
  <2> QED BY <1>2, <1>3, <2>1, <2>2, SwitchEffect
<1>5. /\ waiters' \in [Sema -> Seq(Thread)]
      /\ Range(waiters'[s]) = Range(waiters[s]) \cup {cur}
      /\ IsInjective(waiters'[s])
      /\ \A r \in Sema \ {s} : waiters'[r] = waiters[r]
  <2>1. waiters[s] \in Seq(Thread) /\ IsInjective(waiters[s]) /\ cur \notin Range(waiters[s])
    BY <1>1, <1>2 DEF TypeOK, ElemOnOneList, OneRunning
  <2>2. /\ Append(waiters[s], cur) \in Seq(Thread)
        /\ Range(Append(waiters[s], cur)) = Range(waiters[s]) \cup {cur}
        /\ IsInjective(Append(waiters[s], cur))
    BY <1>2, <2>1, PushBack
  <2> QED BY <1>1, <1>3, <2>2 DEF TypeOK
<1>6. /\ downing' \in [Thread -> Sema \cup {NULL}]
      /\ downing'[cur] = s
      /\ \A t \in Thread \ {cur} : downing'[t] = downing[t]
  BY <1>1, <1>2, <1>3 DEF TypeOK
<1>7. /\ st[cur] = "BLOCKED"
      /\ \A t \in Thread \ {cur} : st[t] = status[t]
      /\ status[cur] = "RUNNING"
      /\ downing[Idle] = NULL
  BY <1>1, <1>2 DEF TypeOK, OneRunning, BootOrder
<1> HIDE DEF st
<1>8. ElemOnOneList'
  <2>1. \A r \in Sema : \A t \in Range(waiters'[r]) : status'[t] = "BLOCKED" /\ downing'[t] = r
    <3> SUFFICES ASSUME NEW r \in Sema, NEW t \in Range(waiters'[r])
                 PROVE  status'[t] = "BLOCKED" /\ downing'[t] = r
      OBVIOUS
    <3>1. CASE t = cur
      <4>1. r = s
        BY Zenon, <1>1, <1>2, <1>5, <1>7, <3>1 DEF ElemOnOneList
      <4> QED BY <1>2, <1>4, <1>6, <1>7, <3>1, <4>1
    <3>2. CASE t # cur
      <4>1. t \in Range(waiters[r])
        BY <1>5, <3>2
      <4>2. t \in Thread /\ status[t] = "BLOCKED" /\ downing[t] = r /\ t # Idle
        BY <1>1, <1>2, <1>7, <4>1 DEF ElemOnOneList
      <4> QED BY <1>4, <1>6, <1>7, <3>2, <4>2
    <3> QED BY <3>1, <3>2
  <2>2. \A r \in Sema : IsInjective(waiters'[r])
    BY <1>1, <1>5 DEF ElemOnOneList
  <2> QED BY <1>4, <2>1, <2>2 DEF ElemOnOneList
<1>9. NoThreadLost'
  <2> SUFFICES ASSUME NEW t \in Thread \ {idle_thread}, status'[t] = "BLOCKED"
               PROVE  \/ \E r \in Sema : t \in Range(waiters'[r])
                      \/ \E u \in Thread : creating[u] = t
    BY <1>3, <1>4 DEF NoThreadLost
  <2>1. CASE t = cur
    BY <1>5, <2>1
  <2>2. CASE t # cur
    <3>1. t \in Thread /\ status[t] = "BLOCKED"
      BY <1>4, <1>7, <2>2
    <3>2. \A r \in Sema : Range(waiters[r]) \subseteq Range(waiters'[r])
      BY <1>5
    <3> QED BY <1>1, <3>1, <3>2 DEF NoThreadLost
  <2> QED BY <2>1, <2>2
<1>10. UnderConstruction'
  <2> SUFFICES ASSUME NEW u \in Thread, creating[u] # NULL
               PROVE  /\ status'[creating[u]] = "BLOCKED"
                      /\ downing'[creating[u]] = NULL
                      /\ \A v \in Thread : creating[v] = creating[u] => v = u
    BY <1>3 DEF UnderConstruction
  <2>1. creating[u] \in Thread /\ creating[u] # Idle
    BY <1>1, ConstantsAssumption DEF TypeOK, Thread
  <2> QED BY <1>1, <1>4, <1>6, <1>7, <2>1 DEF UnderConstruction
<1>11. DowningOwn'
  BY <1>1, <1>2, <1>4, <1>6, <1>7 DEF DowningOwn
<1>12. OneRunning' /\ IdleNeverQueued' /\ IdleAbout' /\ downing'[Idle] = NULL
  BY <1>1, <1>2, <1>3, <1>4, <1>6, <1>7 DEF OneRunning, IdleNeverQueued, IdleAbout, BootOrder
<1> QED BY <1>1, <1>3, <1>4, <1>5, <1>6, <1>8, <1>9, <1>10, <1>11, <1>12 DEF ListInv, TypeOK

(* A switch that leaves the semaphores alone: the running thread yields,
   exits, or is the idle thread and blocks.                                *)
LEMMA SwitchStep ==
  ASSUME IndInv,
         NEW st \in [Thread -> Statuses], NEW rl \in Seq(Thread),
         st[cur] \in {"READY", "BLOCKED", "DYING"},
         st[cur] = "DYING" => cur # Idle /\ downing[cur] = NULL,
         st[cur] = "BLOCKED" => cur = Idle /\ idle_thread = Idle,
         \A t \in Thread \ {cur} : st[t] = status[t],
         IsInjective(rl),
         Range(rl) = Range(ready_list) \cup
           (IF st[cur] = "READY" /\ cur # idle_thread THEN {cur} ELSE {}),
         rl = << >> => idle_thread = Idle,
         pc[Main] # "boot",
         schedule(st, rl),
         UNCHANGED <<semaVars, creating, idle_thread>>
  PROVE  ListInv' /\ IdleAbout' /\ downing'[Idle] = NULL
         /\ (cur' = cur \/ status[cur'] = "READY" \/ cur' = idle_thread)
<1>1. /\ TypeOK /\ OneRunning /\ ElemOnOneList /\ NoThreadLost /\ BootOrder
      /\ UnderConstruction /\ DowningOwn
  BY DEF IndInv
<1>2. /\ cur \in Thread /\ Idle \in Thread /\ NULL \notin Sema
      /\ \A r \in Sema : Range(waiters[r]) \subseteq Thread
  BY BootFacts
<1>3. UNCHANGED <<value, waiters, downing, creating, idle_thread>>
  BY DEF semaVars
<1>4. /\ cur' \in Thread
      /\ ready_list' \in Seq(Thread)
      /\ status' \in [Thread -> Statuses]
      /\ IsInjective(ready_list')
      /\ \A t \in Range(ready_list') : t \in Thread /\ status'[t] = "READY"
      /\ \A t \in Thread : status'[t] = "RUNNING" <=> t = cur'
      /\ \A t \in Thread \ {idle_thread} :
           status'[t] = "READY" => t \in Range(ready_list')
      /\ idle_thread # NULL => Idle \notin Range(ready_list')
      /\ \A t \in Thread : /\ st[t] = "BLOCKED" /\ t # Idle => status'[t] = "BLOCKED"
                           /\ status'[t] = "BLOCKED" => st[t] = "BLOCKED"
                           /\ status'[t] \in {"FREE", "DYING"} => st[t] \in {"FREE", "DYING"}
      /\ Idle \in Range(rl) => Idle \in Range(ready_list') \cup {cur'}
      /\ cur' = cur \/ status[cur'] = "READY" \/ cur' = idle_thread
  BY SMTT(30), SwitchEffect
<1>5. status[cur] = "RUNNING" /\ downing[Idle] = NULL
  BY <1>1, <1>2 DEF OneRunning, BootOrder
<1>6. ElemOnOneList'
  <2>1. ASSUME NEW r \in Sema, NEW t \in Range(waiters[r])
        PROVE  status'[t] = "BLOCKED" /\ downing[t] = r
    <3>1. t \in Thread /\ status[t] = "BLOCKED" /\ downing[t] = r /\ t # Idle /\ t # cur
      BY <1>1, <1>2, <1>5 DEF ElemOnOneList
    <3> QED BY <1>4, <3>1
  <2> QED BY <1>1, <1>3, <1>4, <2>1 DEF ElemOnOneList
<1>7. NoThreadLost'
  <2> SUFFICES ASSUME NEW t \in Thread \ {idle_thread}, status'[t] = "BLOCKED"
               PROVE  \/ \E r \in Sema : t \in Range(waiters[r])
                      \/ \E u \in Thread : creating[u] = t
    BY <1>3, <1>4 DEF NoThreadLost
  <2>1. t # cur /\ status[t] = "BLOCKED"
    BY <1>4
  <2> QED BY <1>1, <2>1 DEF NoThreadLost
<1>8. UnderConstruction'
  <2> SUFFICES ASSUME NEW u \in Thread, creating[u] # NULL
               PROVE  /\ status'[creating[u]] = "BLOCKED"
                      /\ downing[creating[u]] = NULL
                      /\ \A v \in Thread : creating[v] = creating[u] => v = u
    BY <1>3 DEF UnderConstruction
  <2>1. creating[u] \in Thread /\ creating[u] # Idle
    BY <1>1, ConstantsAssumption DEF TypeOK, Thread
  <2>2. status[creating[u]] = "BLOCKED" /\ creating[u] # cur
    BY <1>1, <1>5 DEF UnderConstruction
  <2> QED BY <1>1, <1>4, <2>1, <2>2 DEF UnderConstruction
<1>9. DowningOwn'
  BY <1>1, <1>2, <1>3, <1>4 DEF DowningOwn
<1>10. IdleAbout'
  <2> SUFFICES ASSUME idle_thread = NULL PROVE Idle \in Range(rl)
    BY <1>3, <1>4 DEF IdleAbout
  <2>1. Idle \in Range(ready_list) \/ (cur = Idle /\ idle_thread # Idle)
    BY <1>1, BootFacts DEF BootOrder
  <2> QED BY <2>1
<1>11. OneRunning' /\ IdleNeverQueued'
  BY <1>3, <1>4 DEF OneRunning, IdleNeverQueued
<1> QED BY <1>1, <1>3, <1>4, <1>5, <1>6, <1>7, <1>8, <1>9, <1>10, <1>11 DEF ListInv, TypeOK

(* sema_up(), by a thread or by a handler.                                 *)
LEMMA UpStep ==
  ASSUME IndInv, NEW s \in Sema, Up(s), pc[Main] # "boot"
  PROVE  ListInv' /\ IdleAbout' /\ downing'[Idle] = NULL
<1>1. /\ TypeOK /\ OneRunning /\ ElemOnOneList /\ NoThreadLost /\ BootOrder
      /\ IdleNeverQueued /\ UnderConstruction /\ DowningOwn
  BY DEF IndInv
<1>2. /\ cur \in Thread /\ Idle \in Thread /\ NULL \notin Sema
      /\ Range(ready_list) \subseteq Thread
      /\ \A r \in Sema : Range(waiters[r]) \subseteq Thread
  BY BootFacts
<1>3. UNCHANGED <<cur, downing, creating, idle_thread>> /\ value' \in [Sema -> Nat]
  BY <1>1 DEF Up, TypeOK
<1>4. CASE waiters[s] = << >>
  <2>1. UNCHANGED <<waiters, ready_list, status>>
    BY <1>4 DEF Up
  <2> QED
    BY <1>1, <1>3, <2>1 DEF ListInv, IdleAbout, TypeOK, OneRunning, ElemOnOneList,
       NoThreadLost, IdleNeverQueued, UnderConstruction, DowningOwn, BootOrder
<1>5. CASE waiters[s] # << >>
  <2> DEFINE t == Head(waiters[s])
  <2>1. /\ waiters' = [waiters EXCEPT ![s] = Tail(@)]
        /\ ready_list' = Append(ready_list, t)
        /\ status' = [status EXCEPT ![t] = "READY"]
    BY <1>5 DEF Up
  <2>2. waiters[s] \in Seq(Thread) /\ IsInjective(waiters[s])
    BY <1>1 DEF TypeOK, ElemOnOneList
  <2>3. /\ t \in Thread /\ Tail(waiters[s]) \in Seq(Thread)
        /\ Range(waiters[s]) = {t} \cup Range(Tail(waiters[s]))
        /\ IsInjective(Tail(waiters[s])) /\ t \notin Range(Tail(waiters[s]))
    BY <1>5, <2>2, PopFront
  <2>4. status[t] = "BLOCKED" /\ downing[t] = s
    BY <1>1, <2>3 DEF ElemOnOneList
  <2>5. t # cur /\ t # Idle /\ t \notin Range(ready_list)
    BY <1>1, <1>2, <2>4 DEF OneRunning, ElemOnOneList, BootOrder
  <2>6. /\ ready_list' \in Seq(Thread)
        /\ Range(ready_list') = Range(ready_list) \cup {t}
        /\ IsInjective(ready_list')
    <3>1. ready_list \in Seq(Thread) /\ IsInjective(ready_list)
      BY <1>1 DEF TypeOK, ElemOnOneList
    <3> QED BY <2>1, <2>3, <2>5, <3>1, PushBack
  <2>7. /\ waiters' \in [Sema -> Seq(Thread)]
        /\ waiters'[s] = Tail(waiters[s])
        /\ \A r \in Sema \ {s} : waiters'[r] = waiters[r]
    BY <1>1, <2>1, <2>3 DEF TypeOK
  <2>8. /\ status' \in [Thread -> Statuses]
        /\ status'[t] = "READY"
        /\ \A u \in Thread \ {t} : status'[u] = status[u]
    BY <1>1, <2>1, <2>3 DEF TypeOK, Statuses
  <2> HIDE DEF t
  <2>9. OneRunning'
    BY <1>1, <1>3, <2>4, <2>5, <2>8 DEF OneRunning
  <2>10. ElemOnOneList'
    <3>1. \A u \in Range(ready_list') : status'[u] = "READY"
      BY <1>1, <1>2, <2>6, <2>8 DEF ElemOnOneList
    <3>2. ASSUME NEW r \in Sema PROVE IsInjective(waiters'[r])
      BY Zenon, <1>1, <2>3, <2>7 DEF ElemOnOneList
    <3>3. ASSUME NEW r \in Sema, NEW u \in Range(waiters'[r])
          PROVE  status'[u] = "BLOCKED" /\ downing[u] = r
      <4>1. u \in Range(waiters[r]) /\ u # t
        <5>1. CASE r = s
          BY Zenon, <2>3, <2>7, <5>1
        <5>2. CASE r # s
          <6>1. u \in Range(waiters[r])
            BY <2>7, <5>2
          <6> QED BY <1>1, <2>4, <5>2, <6>1 DEF ElemOnOneList
        <5> QED BY <5>1, <5>2
      <4>2. u \in Thread
        BY <1>2, <4>1
      <4> QED BY <1>1, <2>8, <4>1, <4>2 DEF ElemOnOneList
    <3> QED BY <1>3, <2>6, <3>1, <3>2, <3>3 DEF ElemOnOneList
  <2>11. NoThreadLost'
    <3> SUFFICES ASSUME NEW u \in Thread \ {idle_thread}
                 PROVE  /\ status'[u] = "READY" => u \in Range(ready_list')
                        /\ status'[u] = "BLOCKED" =>
                             \/ \E r \in Sema : u \in Range(waiters'[r])
                             \/ \E v \in Thread : creating[v] = u
      BY <1>3 DEF NoThreadLost
    <3>1. CASE u = t
      BY <2>6, <2>8, <3>1
    <3>2. CASE u # t
      <4>1. status'[u] = status[u]
        BY <2>8, <3>2
      <4>2. ASSUME NEW r \in Sema, u \in Range(waiters[r]) PROVE u \in Range(waiters'[r])
        BY Zenon, <2>3, <2>7, <3>2, <4>2
      <4> QED BY <1>1, <2>6, <4>1, <4>2 DEF NoThreadLost
    <3> QED BY <3>1, <3>2
  <2>12. UnderConstruction'
    <3> SUFFICES ASSUME NEW u \in Thread, creating[u] # NULL
                 PROVE  /\ status'[creating[u]] = "BLOCKED"
                        /\ downing[creating[u]] = NULL
                        /\ \A v \in Thread : creating[v] = creating[u] => v = u
      BY <1>3 DEF UnderConstruction
    <3>1. creating[u] \in Thread /\ creating[u] # t
      BY <1>1, <1>2, <2>4 DEF TypeOK, Thread, UnderConstruction
    <3> QED BY <1>1, <2>8, <3>1 DEF UnderConstruction
  <2>13. DowningOwn'
    BY <1>1, <1>3, <2>8 DEF DowningOwn
  <2>14. IdleNeverQueued' /\ IdleAbout' /\ downing'[Idle] = NULL
    BY <1>1, <1>3, <2>5, <2>6 DEF IdleNeverQueued, IdleAbout, BootOrder
  <2> QED
    BY <1>1, <1>3, <2>6, <2>7, <2>8, <2>9, <2>10, <2>11, <2>12, <2>13, <2>14
       DEF ListInv, TypeOK
<1> QED BY <1>4, <1>5

(* One turn of sema_down() that passes.                                    *)
LEMMA DownPassStep ==
  ASSUME IndInv, NEW s \in Sema, DownPass(s), pc[Main] # "boot"
  PROVE  ListInv' /\ IdleAbout' /\ downing'[Idle] = NULL
<1>1. /\ TypeOK /\ OneRunning /\ ElemOnOneList /\ NoThreadLost /\ BootOrder
      /\ IdleNeverQueued /\ UnderConstruction /\ DowningOwn
  BY DEF IndInv
<1>2. /\ cur \in Thread /\ Idle \in Thread /\ NULL \notin Sema /\ Thread \subseteq Sema
      /\ Worker \subseteq Thread
      /\ \A r \in Sema : Range(waiters[r]) \subseteq Thread
  BY BootFacts
<1>3. UNCHANGED <<cur, status, ready_list, waiters, creating, idle_thread>>
  BY DEF DownPass
<1>4. value' \in [Sema -> Nat]
  BY <1>1 DEF DownPass, TypeOK
<1>5. /\ downing' \in [Thread -> Sema \cup {NULL}]
      /\ downing'[cur] = NULL
      /\ \A t \in Thread \ {cur} : downing'[t] = downing[t]
  BY <1>1, <1>2 DEF DownPass, TypeOK
<1>6. \A r \in Sema : cur \notin Range(waiters[r])
  BY <1>1, <1>2 DEF OneRunning, ElemOnOneList
<1>7. ElemOnOneList'
  <2>1. ASSUME NEW r \in Sema, NEW t \in Range(waiters[r])
        PROVE  status[t] = "BLOCKED" /\ downing'[t] = r
    BY <1>1, <1>2, <1>5, <1>6 DEF ElemOnOneList
  <2> QED BY <1>1, <1>3, <2>1 DEF ElemOnOneList
<1>8. UnderConstruction'
  <2>1. \A u \in Thread : creating[u] # NULL => creating[u] \in Thread
    BY <1>1, <1>2 DEF TypeOK
  <2> QED BY <1>1, <1>3, <1>5, <2>1 DEF UnderConstruction
<1>9. DowningOwn'
  BY <1>1, <1>2, <1>3, <1>5 DEF DowningOwn
<1>10. /\ OneRunning' /\ NoThreadLost' /\ IdleNeverQueued' /\ IdleAbout'
       /\ downing'[Idle] = NULL
  BY <1>1, <1>2, <1>3, <1>5
     DEF OneRunning, NoThreadLost, IdleNeverQueued, IdleAbout, BootOrder
<1> QED BY <1>1, <1>3, <1>4, <1>5, <1>7, <1>8, <1>9, <1>10 DEF ListInv, TypeOK

(* thread_create() initialises a thread.                                   *)
LEMMA InitThreadStep ==
  ASSUME IndInv, NEW t \in Worker, InitThread(t)
  PROVE  ListInv' /\ IdleAbout' /\ downing'[Idle] = NULL
<1>1. /\ TypeOK /\ OneRunning /\ ElemOnOneList /\ NoThreadLost /\ BootOrder
      /\ IdleNeverQueued /\ UnderConstruction /\ DowningOwn
  BY DEF IndInv
<1>2. /\ cur \in Thread /\ Idle \in Thread /\ NULL \notin Sema /\ Thread \subseteq Sema
      /\ Worker \subseteq Thread /\ NULL \notin Thread
      /\ Range(ready_list) \subseteq Thread
      /\ \A r \in Sema : Range(waiters[r]) \subseteq Thread
      /\ pc[Main] # "boot"
  <2>1. pc[cur] # "boot"
    BY DEF InitThread, InFunction
  <2> QED BY <2>1, BootFacts
<1>3. /\ UNCHANGED <<cur, ready_list, downing, idle_thread>>
      /\ creating[cur] = NULL /\ status[t] = "FREE"
      /\ value' = [value EXCEPT ![t] = 0]
      /\ waiters' = [waiters EXCEPT ![t] = << >>]
      /\ status' = [status EXCEPT ![t] = "BLOCKED"]
      /\ creating' = [creating EXCEPT ![cur] = t]
  BY DEF InitThread
<1>4. t \in Thread /\ t # Idle /\ downing[t] = NULL /\ t # cur
  BY <1>1, <1>2, <1>3, ConstantsAssumption DEF DowningOwn, OneRunning
<1>5. /\ status' \in [Thread -> Statuses]
      /\ status'[t] = "BLOCKED"
      /\ \A u \in Thread \ {t} : status'[u] = status[u]
  BY <1>1, <1>3, <1>4 DEF TypeOK, Statuses
<1>6. /\ creating' \in [Thread -> Worker \cup {NULL}]
      /\ creating'[cur] = t
      /\ \A u \in Thread \ {cur} : creating'[u] = creating[u]
  BY <1>1, <1>2, <1>3 DEF TypeOK
<1>7. value' \in [Sema -> Nat]
  BY Zenon, <1>1, <1>3 DEF TypeOK
<1>8. /\ waiters' \in [Sema -> Seq(Thread)]
      /\ waiters'[t] = << >>
      /\ \A r \in Sema \ {t} : waiters'[r] = waiters[r]
  BY <1>1, <1>2, <1>3, <1>4, EmptySeq DEF TypeOK
<1>9. Range(waiters'[t]) = {} /\ Range(waiters[t]) = {} /\ IsInjective(waiters'[t])
  <2>1. ASSUME NEW u \in Range(waiters[t]) PROVE FALSE
    <3>1. u \in Thread /\ downing[u] = t
      BY <1>1, <1>2, <1>4 DEF ElemOnOneList
    <3> QED BY <1>1, <1>2, <1>4, <3>1 DEF DowningOwn
  <2>2. waiters'[t] = << >> => Range(waiters'[t]) = {} /\ IsInjective(waiters'[t])
    BY DEF Range, IsInjective
  <2> QED BY <1>8, <2>1, <2>2
<1>10. \A r \in Sema : Range(waiters'[r]) = Range(waiters[r]) /\ IsInjective(waiters'[r])
  BY Zenon, <1>1, <1>8, <1>9 DEF ElemOnOneList
<1>11. \A r \in Sema : t \notin Range(waiters[r])
  BY <1>1, <1>2, <1>3 DEF ElemOnOneList
<1>12. ElemOnOneList'
  <2>1. \A u \in Range(ready_list) : status'[u] = "READY"
    BY <1>1, <1>2, <1>3, <1>5 DEF ElemOnOneList
  <2>2. ASSUME NEW r \in Sema, NEW u \in Range(waiters[r])
        PROVE  status'[u] = "BLOCKED" /\ downing[u] = r
    BY <1>1, <1>2, <1>5, <1>11 DEF ElemOnOneList
  <2> QED BY <1>1, <1>3, <1>10, <2>1, <2>2 DEF ElemOnOneList
<1>13. NoThreadLost'
  <2> SUFFICES ASSUME NEW u \in Thread \ {idle_thread}
               PROVE  /\ status'[u] = "READY" => u \in Range(ready_list)
                      /\ status'[u] = "BLOCKED" =>
                           \/ \E r \in Sema : u \in Range(waiters'[r])
                           \/ \E v \in Thread : creating'[v] = u
    BY <1>3 DEF NoThreadLost
  <2>1. CASE u = t
    BY <1>2, <1>5, <1>6, <2>1
  <2>2. CASE u # t
    <3>1. ASSUME NEW v \in Thread, creating[v] = u PROVE creating'[v] = u
      BY <1>2, <1>3, <1>6, <3>1
    <3> QED BY <1>1, <1>5, <1>10, <2>2, <3>1 DEF NoThreadLost
  <2> QED BY <2>1, <2>2
<1>14. UnderConstruction'
  <2> SUFFICES ASSUME NEW u \in Thread, creating'[u] # NULL
               PROVE  /\ status'[creating'[u]] = "BLOCKED"
                      /\ downing[creating'[u]] = NULL
                      /\ \A v \in Thread : creating'[v] = creating'[u] => v = u
    BY <1>3 DEF UnderConstruction
  <2>1. \A v \in Thread : creating[v] # t
    BY <1>1, <1>2, <1>3, <1>4 DEF UnderConstruction
  <2>2. CASE u = cur
    BY <1>4, <1>5, <1>6, <2>1, <2>2
  <2>3. CASE u # cur
    <3>1. creating'[u] = creating[u] /\ creating[u] \in Thread /\ creating[u] # t
      BY <1>1, <1>2, <1>6, <2>1, <2>3 DEF TypeOK
    <3> QED BY <1>1, <1>5, <1>6, <2>3, <3>1 DEF UnderConstruction
  <2> QED BY <2>2, <2>3
<1>15. DowningOwn'
  BY <1>1, <1>3, <1>5 DEF DowningOwn
<1>16. OneRunning' /\ IdleNeverQueued' /\ IdleAbout' /\ downing'[Idle] = NULL
  BY <1>1, <1>2, <1>3, <1>4, <1>5 DEF OneRunning, IdleNeverQueued, IdleAbout, BootOrder
<1> QED
  BY <1>1, <1>3, <1>5, <1>6, <1>7, <1>8, <1>12, <1>13, <1>14, <1>15, <1>16
     DEF ListInv, TypeOK

(* thread_create() queues the thread it has made.                          *)
LEMMA UnblockNewStep ==
  ASSUME IndInv, NEW t \in Worker, UnblockNew(t)
  PROVE  ListInv' /\ IdleAbout' /\ downing'[Idle] = NULL
<1>1. /\ TypeOK /\ OneRunning /\ ElemOnOneList /\ NoThreadLost /\ BootOrder
      /\ IdleNeverQueued /\ UnderConstruction /\ DowningOwn
  BY DEF IndInv
<1>2. /\ cur \in Thread /\ Idle \in Thread /\ NULL \notin Sema /\ Thread \subseteq Sema
      /\ Worker \subseteq Thread /\ NULL \notin Thread
      /\ Range(ready_list) \subseteq Thread
      /\ \A r \in Sema : Range(waiters[r]) \subseteq Thread
      /\ pc[Main] # "boot"
  <2>1. pc[cur] # "boot"
    BY DEF UnblockNew, InFunction
  <2> QED BY <2>1, BootFacts
<1>3. /\ UNCHANGED <<cur, value, waiters, downing, idle_thread>>
      /\ creating[cur] = t
      /\ ready_list' = Append(ready_list, t)
      /\ status' = [status EXCEPT ![t] = "READY"]
      /\ creating' = [creating EXCEPT ![cur] = NULL]
  BY DEF UnblockNew, semaVars
<1>4. /\ t \in Thread /\ t # Idle /\ t # NULL
      /\ status[t] = "BLOCKED" /\ downing[t] = NULL
      /\ \A v \in Thread : creating[v] = t => v = cur
  <2>1. t \in Thread /\ t # Idle /\ t # NULL
    BY <1>2, ConstantsAssumption
  <2> QED BY <1>1, <1>2, <1>3, <2>1 DEF UnderConstruction
<1>5. /\ status' \in [Thread -> Statuses]
      /\ status'[t] = "READY"
      /\ \A u \in Thread \ {t} : status'[u] = status[u]
  BY <1>1, <1>3, <1>4 DEF TypeOK, Statuses
<1>6. /\ creating' \in [Thread -> Worker \cup {NULL}]
      /\ creating'[cur] = NULL
      /\ \A u \in Thread \ {cur} : creating'[u] = creating[u]
  BY <1>1, <1>2, <1>3 DEF TypeOK
<1>7. /\ ready_list' \in Seq(Thread)
      /\ Range(ready_list') = Range(ready_list) \cup {t}
      /\ IsInjective(ready_list')
  <2>1. ready_list \in Seq(Thread) /\ IsInjective(ready_list) /\ t \notin Range(ready_list)
    BY <1>1, <1>4 DEF TypeOK, ElemOnOneList
  <2> QED BY <1>3, <1>4, <2>1, PushBack
<1>8. \A r \in Sema : t \notin Range(waiters[r])
  BY <1>1, <1>2, <1>4 DEF ElemOnOneList
<1>9. ElemOnOneList'
  <2>1. \A u \in Range(ready_list') : status'[u] = "READY"
    BY <1>1, <1>2, <1>5, <1>7 DEF ElemOnOneList
  <2>2. ASSUME NEW r \in Sema, NEW u \in Range(waiters[r])
        PROVE  status'[u] = "BLOCKED" /\ downing[u] = r
    BY <1>1, <1>2, <1>5, <1>8 DEF ElemOnOneList
  <2> QED BY <1>1, <1>3, <1>7, <2>1, <2>2 DEF ElemOnOneList
<1>10. NoThreadLost'
  <2> SUFFICES ASSUME NEW u \in Thread \ {idle_thread}
               PROVE  /\ status'[u] = "READY" => u \in Range(ready_list')
                      /\ status'[u] = "BLOCKED" =>
                           \/ \E r \in Sema : u \in Range(waiters[r])
                           \/ \E v \in Thread : creating'[v] = u
    BY <1>3 DEF NoThreadLost
  <2>1. CASE u = t
    BY <1>5, <1>7, <2>1
  <2>2. CASE u # t
    <3>1. ASSUME NEW v \in Thread, creating[v] = u PROVE creating'[v] = u
      BY <1>3, <1>6, <2>2, <3>1
    <3> QED BY <1>1, <1>5, <1>7, <2>2, <3>1 DEF NoThreadLost
  <2> QED BY <2>1, <2>2
<1>11. UnderConstruction'
  <2> SUFFICES ASSUME NEW u \in Thread, creating'[u] # NULL
               PROVE  /\ status'[creating'[u]] = "BLOCKED"
                      /\ downing[creating'[u]] = NULL
                      /\ \A v \in Thread : creating'[v] = creating'[u] => v = u
    BY <1>3 DEF UnderConstruction
  <2>1. /\ u # cur /\ creating'[u] = creating[u]
        /\ creating[u] \in Thread /\ creating[u] # t
    BY <1>1, <1>2, <1>4, <1>6 DEF TypeOK
  <2> QED BY <1>1, <1>5, <1>6, <2>1 DEF UnderConstruction
<1>12. DowningOwn'
  BY <1>1, <1>3, <1>5 DEF DowningOwn
<1>13. OneRunning' /\ IdleNeverQueued' /\ IdleAbout' /\ downing'[Idle] = NULL
  BY <1>1, <1>2, <1>3, <1>4, <1>5, <1>7
     DEF OneRunning, IdleNeverQueued, IdleAbout, BootOrder
<1> QED
  BY <1>1, <1>3, <1>5, <1>6, <1>7, <1>9, <1>10, <1>11, <1>12, <1>13 DEF ListInv, TypeOK

(* thread_start() makes the idle thread and queues it.                     *)
LEMMA ThreadStartStep ==
  ASSUME IndInv, ThreadStart
  PROVE  ListInv' /\ IdleAbout' /\ downing'[Idle] = NULL /\ cur = Main
<1>1. /\ TypeOK /\ OneRunning /\ ElemOnOneList /\ NoThreadLost /\ BootOrder
      /\ IdleNeverQueued /\ UnderConstruction /\ DowningOwn
  BY DEF IndInv
<1>2. /\ cur \in Thread /\ Idle \in Thread /\ Main \in Thread /\ Main # Idle
      /\ NULL \notin Sema /\ NULL \notin Thread /\ Worker \subseteq Thread
      /\ Range(ready_list) \subseteq Thread
      /\ \A r \in Sema : Range(waiters[r]) \subseteq Thread
  BY BootFacts
<1>3. /\ UNCHANGED <<cur, value, waiters, downing, creating, idle_thread>>
      /\ pc[cur] = "boot"
      /\ ready_list' = Append(ready_list, Idle)
      /\ status' = [status EXCEPT ![Idle] = "READY"]
  BY DEF ThreadStart, semaVars
<1>4. cur = Main /\ status[Idle] = "FREE" /\ idle_thread = NULL
  <2>1. cur = Main
    BY <1>1, <1>2, <1>3 DEF BootOrder, Thread
  <2> QED BY <1>1, <1>3, <2>1 DEF BootOrder
<1>5. /\ status' \in [Thread -> Statuses]
      /\ status'[Idle] = "READY"
      /\ \A u \in Thread \ {Idle} : status'[u] = status[u]
  BY <1>1, <1>2, <1>3 DEF TypeOK, Statuses
<1>6. /\ ready_list' \in Seq(Thread)
      /\ Range(ready_list') = Range(ready_list) \cup {Idle}
      /\ IsInjective(ready_list')
  <2>1. ready_list \in Seq(Thread) /\ IsInjective(ready_list) /\ Idle \notin Range(ready_list)
    BY <1>1, <1>4 DEF TypeOK, ElemOnOneList
  <2> QED BY <1>2, <1>3, <2>1, PushBack
<1>7. ElemOnOneList'
  <2>1. \A u \in Range(ready_list') : status'[u] = "READY"
    BY <1>1, <1>2, <1>5, <1>6 DEF ElemOnOneList
  <2>2. ASSUME NEW r \in Sema, NEW u \in Range(waiters[r])
        PROVE  status'[u] = "BLOCKED" /\ downing[u] = r
    BY <1>1, <1>2, <1>4, <1>5 DEF ElemOnOneList
  <2> QED BY <1>1, <1>3, <1>6, <2>1, <2>2 DEF ElemOnOneList
<1>8. NoThreadLost'
  BY <1>1, <1>3, <1>5, <1>6 DEF NoThreadLost
<1>9. UnderConstruction'
  <2>1. \A u \in Thread : creating[u] # NULL => creating[u] \in Thread \ {Idle}
    BY <1>1, <1>2, ConstantsAssumption DEF TypeOK
  <2> QED BY <1>1, <1>3, <1>5, <2>1 DEF UnderConstruction
<1>10. DowningOwn'
  BY <1>1, <1>3, <1>5 DEF DowningOwn
<1>11. OneRunning' /\ IdleNeverQueued' /\ IdleAbout' /\ downing'[Idle] = NULL
  BY <1>1, <1>2, <1>3, <1>4, <1>5, <1>6
     DEF OneRunning, IdleNeverQueued, IdleAbout, BootOrder
<1> QED
  BY <1>1, <1>3, <1>4, <1>5, <1>6, <1>7, <1>8, <1>9, <1>10, <1>11 DEF ListInv, TypeOK

(* A handler starts, and its policy may sort the run queue.                *)
LEMMA IntrEnterStep ==
  ASSUME IndInv, NEW rl \in Reorderings(ready_list), NEW y \in BOOLEAN, IntrEnter(rl, y)
  PROVE  ListInv' /\ IdleAbout' /\ downing'[Idle] = NULL
<1>1. /\ TypeOK /\ OneRunning /\ ElemOnOneList /\ NoThreadLost /\ BootOrder
      /\ IdleNeverQueued /\ UnderConstruction /\ DowningOwn
  BY DEF IndInv
<1>2. /\ UNCHANGED <<cur, status, value, waiters, downing, creating, idle_thread>>
      /\ ready_list' = rl
      /\ pc[Main] # "boot"
  <2>1. pc[cur] # "boot"
    BY DEF IntrEnter
  <2> QED BY <2>1, BootFacts DEF IntrEnter, semaVars
<1>3. /\ ready_list' \in Seq(Thread)
      /\ Range(ready_list') = Range(ready_list)
      /\ IsInjective(ready_list')
  <2>1. ready_list \in Seq(Thread) /\ IsInjective(ready_list)
    BY <1>1 DEF TypeOK, ElemOnOneList
  <2> QED BY <1>2, <2>1, Reordered
<1> QED
  BY <1>1, <1>2, <1>3 DEF ListInv, TypeOK, OneRunning, ElemOnOneList, NoThreadLost,
     IdleNeverQueued, UnderConstruction, DowningOwn, IdleAbout, BootOrder

(* The rest of the invariant after a step of a booted system.              *)
LEMMA Reassembled ==
  ASSUME ListInv', IdleAbout', downing'[Idle] = NULL,
         pc' \in [Thread -> Points],
         pc'[Main] \in {"start", "run"},
         pc'[Idle] \in {"init", "up", "loop", "hlt"},
         \A t \in Worker : pc'[t] = "run",
         idle_thread' \in {NULL, Idle},
         idle_thread' = NULL <=> pc'[Idle] = "init",
         in_external_intr' \in BOOLEAN, yield_on_return' \in BOOLEAN
  PROVE  IndInv'
<1>1. TypeOK'
  BY DEF ListInv, TypeOK
<1>2. BootOrder'
  BY DEF BootOrder, IdleAbout
<1> QED BY <1>1, <1>2 DEF IndInv, ListInv

=============================================================================
