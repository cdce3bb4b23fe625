---------------------------- MODULE WaitListRace ----------------------------
(***************************************************************************)
(* timer_sleep() again, with wait_list as the links of lib/kernel/list.c.  *)
(* timer_sleep() calls list_insert_ordered() with interrupts on, so a tick *)
(* can fall between any two of its loads and stores, taken here in source  *)
(* order.  The handler works on the same links with interrupts off.        *)
(* Thread functions do nothing but sleep and create threads.               *)
(***************************************************************************)
EXTENDS RunQueue

CONSTANTS
  head, tail,  \* the sentinels of wait_list
  MaxTicks,    \* bound on the clock (64 bits in the code)
  MaxSleep     \* longest sleep asked for

VARIABLES
  ticks,        \* timer ticks since boot; MaxTicks stands for any later time
  wakeup_time,
  next, prev,   \* the links of timer_elem and of the sentinels
  e,            \* the local cursor of list_insert_ordered()
  at            \* where a thread is in timer_sleep()

links == <<next, prev>>
raceVars == <<vars, ticks, wakeup_time, links, e, at>>

Node == Thread \cup {head, tail}

(* list_init(); init_thread() clears the rest.                             *)
RaceInit ==
  /\ Init
  /\ ticks = 0
  /\ wakeup_time = [t \in Thread |-> 0]
  /\ next = [x \in Node |-> IF x = head THEN tail ELSE NULL]
  /\ prev = [x \in Node |-> IF x = tail THEN head ELSE NULL]
  /\ e = [t \in Thread |-> NULL]
  /\ at = [t \in Thread |-> "function"]

-----------------------------------------------------------------------------
(* The running thread moves from one point of timer_sleep() to the next.   *)
Go(from, to) ==
  /\ InFunction
  /\ at[cur] = from
  /\ at' = [at EXCEPT ![cur] = to]

SleepSet(n) ==
  /\ creating[cur] = NULL
  /\ ticks + n <= MaxTicks
  /\ Go("function", "search")
  /\ wakeup_time' = [wakeup_time EXCEPT ![cur] = ticks + n]
  /\ e' = [e EXCEPT ![cur] = head]
  /\ UNCHANGED <<vars, ticks, links>>

(* list_insert_ordered(): one turn of the loop, ...                        *)
Search ==
  LET x == next[e[cur]]
      found == x = tail \/ wakeup_time[cur] < wakeup_time[x]
  IN  /\ Go("search", IF found THEN "prev" ELSE "search")
      /\ e' = [e EXCEPT ![cur] = x]
      /\ UNCHANGED <<vars, ticks, wakeup_time, links>>

(* ... then the four assignments of list_insert (e, elem).                 *)
SetPrev ==
  /\ Go("prev", "next")
  /\ prev' = [prev EXCEPT ![cur] = prev[e[cur]]]
  /\ UNCHANGED <<vars, ticks, wakeup_time, next, e>>

SetNext ==
  /\ Go("next", "forward")
  /\ next' = [next EXCEPT ![cur] = e[cur]]
  /\ UNCHANGED <<vars, ticks, wakeup_time, prev, e>>

LinkForward ==
  /\ Go("forward", "back")
  /\ next' = [next EXCEPT ![prev[e[cur]]] = cur]
  /\ UNCHANGED <<vars, ticks, wakeup_time, prev, e>>

LinkBack ==
  /\ Go("back", "listed")
  /\ prev' = [prev EXCEPT ![e[cur]] = cur]
  /\ UNCHANGED <<vars, ticks, wakeup_time, next, e>>

SleepDown ==
  /\ \/ at[cur] = "listed" /\ (SemaDownPass(cur) \/ SemaDownBlock(cur))
     \/ at[cur] = "down" /\ (SemaRetryPass \/ SemaRetryBlock)
  /\ at' = [at EXCEPT ![cur] = IF value[cur] > 0 THEN "function" ELSE "down"]
  /\ UNCHANGED <<ticks, wakeup_time, links, e>>

-----------------------------------------------------------------------------
(* timer_interrupt().                                                      *)
Tick(y) ==
  /\ y => roundrobin
  /\ IntrEnter(ready_list, y)
  /\ ticks' = IF ticks < MaxTicks THEN ticks + 1 ELSE ticks
  /\ UNCHANGED <<wakeup_time, links, e, at>>

Due == next[head] # tail /\ ticks >= wakeup_time[next[head]]

(* sema_up() of the front, then list_pop_front().                          *)
WakeFront ==
  LET t == next[head]
  IN  /\ Due
      /\ IntrUp(t)
      /\ next' = [next EXCEPT ![prev[t]] = next[t]]
      /\ prev' = [prev EXCEPT ![next[t]] = prev[t]]
      /\ UNCHANGED <<ticks, wakeup_time, e, at>>

TickReturn ==
  /\ ~Due
  /\ IntrReturn \/ IntrReturnYield
  /\ UNCHANGED <<ticks, wakeup_time, links, e, at>>

(* Boot, the idle thread and thread_create().                              *)
RaceOther ==
  /\ at[cur] = "function"
  /\ \/ ThreadStart
     \/ SemaDownPass(idle_started) \/ SemaDownBlock(idle_started)
     \/ SemaUp(idle_started)
     \/ SemaRetryPass \/ SemaRetryBlock
     \/ IdleInit
     \/ IdleBlock
     \/ \E t \in Worker : InitThread(t) \/ UnblockNew(t)
  /\ UNCHANGED <<ticks, wakeup_time, links, e, at>>

ThreadStep ==
  \/ Search \/ SetPrev \/ SetNext \/ LinkForward \/ LinkBack
  \/ SleepDown
  \/ RaceOther

Handler == WakeFront \/ TickReturn

RaceNext ==
  \/ \E n \in 0 .. MaxSleep : SleepSet(n)
  \/ ThreadStep
  \/ \E y \in BOOLEAN : Tick(y)
  \/ Handler

(* Ticks keep coming, a handler runs to its end, and the running thread
   gets on with what it does.                                              *)
RaceSpec ==
  /\ RaceInit /\ [][RaceNext]_raceVars
  /\ SF_raceVars(\E y \in BOOLEAN : Tick(y))
  /\ WF_raceVars(Handler)
  /\ SF_raceVars(ThreadStep)

-----------------------------------------------------------------------------
(* "Sleeps for approximately TICKS timer ticks.  Interrupts must be turned
   on." (timer_sleep): a thread blocked in timer_sleep() is woken.          *)
SleepEnds ==
  \A t \in Thread :
    (at[t] = "down" /\ status[t] = "BLOCKED") ~> status[t] # "BLOCKED"

=============================================================================
