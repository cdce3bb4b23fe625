------------------------------- MODULE Synch --------------------------------
(***************************************************************************)
(* threads/synch.c: locks and condition variables on top of semaphores.    *)
(* One lock and one condition variable used with it as a monitor.  Each    *)
(* semaphore operation runs with interrupts off and is one step; between   *)
(* the steps any thread may run.                                           *)
(***************************************************************************)
EXTENDS Integers, Sequences, FiniteSets, Functions

CONSTANTS
  Thread,
  Lock,      \* the lock's semaphore; a thread names its own waiter semaphore
  NULL

Sema == Thread \cup {Lock}

VARIABLES
  pc,        \* where a thread is
  holder,    \* lock->holder
  value,     \* semaphore values
  waiters,   \* semaphore wait lists
  cond       \* cond->waiters: the threads whose semaphore_elem is listed

vars == <<pc, holder, value, waiters, cond>>

Points == {"out", "down", "own", "in", "broadcast", "clear", "up",
           "wait_clear", "wait_up", "wait_down"}

TypeOK ==
  /\ pc \in [Thread -> Points]
  /\ holder \in Thread \cup {NULL}
  /\ value \in [Sema -> Nat]
  /\ waiters \in [Sema -> Seq(Thread)]
  /\ cond \in Seq(Thread)

(* lock_init() and cond_init().                                            *)
Init ==
  /\ pc = [t \in Thread |-> "out"]
  /\ holder = NULL
  /\ value = [s \in Sema |-> IF s = Lock THEN 1 ELSE 0]
  /\ waiters = [s \in Sema |-> << >>]
  /\ cond = << >>

Go(t, from, to) == pc[t] = from /\ pc' = [pc EXCEPT ![t] = to]

(* One turn of the loop of sema_down(): pass, or join the list and block.  *)
sema_down(t, s, from, to) ==
  /\ t \notin Range(waiters[s])
  /\ \/ /\ value[s] > 0
        /\ value' = [value EXCEPT ![s] = @ - 1]
        /\ Go(t, from, to)
        /\ UNCHANGED waiters
     \/ /\ value[s] = 0
        /\ waiters' = [waiters EXCEPT ![s] = Append(@, t)]
        /\ Go(t, from, from)
        /\ UNCHANGED value

\* Mutant: the value goes up only if nobody waits.
sema_up_handoff(s) ==
  /\ value' = [value EXCEPT ![s] = IF waiters[s] = << >> THEN @ + 1 ELSE @]
  /\ waiters' = [waiters EXCEPT ![s] = IF @ = << >> THEN @ ELSE Tail(@)]

sema_up(s) ==
  /\ value' = [value EXCEPT ![s] = @ + 1]
  /\ waiters' = [waiters EXCEPT ![s] = IF @ = << >> THEN @ ELSE Tail(@)]

-----------------------------------------------------------------------------
(* lock_acquire(): the assertion, then sema_down(), ...                    *)
Acquire(t) ==
  /\ Go(t, "out", "down")
  /\ UNCHANGED <<holder, value, waiters, cond>>

AcquireDown(t) == sema_down(t, Lock, "down", "own") /\ UNCHANGED <<holder, cond>>

(* ... and with interrupts on again, the owner.                            *)
AcquireOwn(t) ==
  /\ Go(t, "own", "in")
  /\ holder' = t
  /\ UNCHANGED <<value, waiters, cond>>

\* Mutant: sema_try_down() takes the value without looking at it.
TryAlways(t) ==
  /\ Go(t, "out", "own")
  /\ value' = [value EXCEPT ![Lock] = 0]
  /\ UNCHANGED <<holder, waiters, cond>>

\* Mutant: the value is decremented without a test.
TryUnchecked(t) ==
  /\ Go(t, "out", "own")
  /\ value' = [value EXCEPT ![Lock] = @ - 1]
  /\ UNCHANGED <<holder, waiters, cond>>

(* lock_try_acquire(): a failure changes nothing.                          *)
TryAcquire(t) ==
  /\ value[Lock] > 0
  /\ Go(t, "out", "own")
  /\ value' = [value EXCEPT ![Lock] = @ - 1]
  /\ UNCHANGED <<holder, waiters, cond>>

(* lock_release(), called or reached from cond_wait(): the owner is cleared *)
Release(t) ==
  /\ Go(t, "in", "clear")
  /\ UNCHANGED <<holder, value, waiters, cond>>

\* Mutant: cond_wait() releases the semaphore alone.
ClearUnlessWaiting(t) ==
  /\ \/ Go(t, "clear", "up") \/ Go(t, "wait_clear", "wait_up")
  /\ holder' = IF pc[t] = "clear" THEN NULL ELSE holder
  /\ UNCHANGED <<value, waiters, cond>>

Clear(t) ==
  /\ \/ Go(t, "clear", "up") \/ Go(t, "wait_clear", "wait_up")
  /\ holder' = NULL
  /\ UNCHANGED <<value, waiters, cond>>

(* before the semaphore goes up.                                           *)
ReleaseUp(t) ==
  /\ \/ Go(t, "up", "out") \/ Go(t, "wait_up", "wait_down")
  /\ sema_up(Lock)
  /\ UNCHANGED <<holder, cond>>

\* Mutant: the waiter is listed only once the lock has been released.
WaitUnlisted(t) ==
  /\ Go(t, "in", "wait_clear")
  /\ value' = [value EXCEPT ![t] = 0]
  /\ UNCHANGED <<holder, waiters, cond>>

(* cond_wait(): list a fresh semaphore, release the lock, ...              *)
Wait(t) ==
  /\ Go(t, "in", "wait_clear")
  /\ value' = [value EXCEPT ![t] = 0]
  /\ waiters' = [waiters EXCEPT ![t] = << >>]
  /\ cond' = Append(cond, t)
  /\ UNCHANGED holder

(* ... wait on the semaphore and acquire the lock again.                   *)
WaitDown(t) == sema_down(t, t, "wait_down", "down") /\ UNCHANGED <<holder, cond>>

(* cond_signal(), and a turn of the loop of cond_broadcast().              *)
SignalFront ==
  /\ cond # << >>
  /\ sema_up(Head(cond))
  /\ cond' = Tail(cond)

Signal(t) == Go(t, "in", "in") /\ SignalFront /\ UNCHANGED holder

Broadcast(t) ==
  \/ /\ Go(t, "in", "broadcast")
     /\ UNCHANGED <<holder, value, waiters, cond>>
  \/ /\ Go(t, "broadcast", "broadcast")
     /\ SignalFront
     /\ UNCHANGED holder
  \/ /\ cond = << >>
     /\ Go(t, "broadcast", "in")
     /\ UNCHANGED <<holder, value, waiters, cond>>

(* What a thread must do once it has started an operation, and what it may
   do.                                                                     *)
Step(t) ==
  \/ AcquireDown(t) \/ AcquireOwn(t) \/ Clear(t) \/ ReleaseUp(t) \/ WaitDown(t)
  \/ pc[t] = "broadcast" /\ Broadcast(t)

Call(t) ==
  \/ Acquire(t) \/ TryAcquire(t) \/ Release(t)
  \/ Wait(t) \/ Signal(t) \/ Broadcast(t)

Next == \E t \in Thread : Step(t) \/ Call(t)

(* A thread inside an operation keeps running.  Callers release what they
   acquire: nobody stays in the monitor for ever.                          *)
Spec ==
  /\ Init /\ [][Next]_vars
  /\ (\A t \in Thread : WF_vars(Step(t))) /\ SF_vars(\E t \in Thread : Release(t))

-----------------------------------------------------------------------------
(* The points at which a thread owns the lock, and of these the ones where
   lock_held_by_current_thread() says so.                                  *)
Holding == {"in", "broadcast", "clear", "wait_clear"}
Owning == Holding \cup {"own", "up", "wait_up"}

(* "A lock can be held by at most a single thread at any given time"
   (lock_init): however try-acquires, releases in cond_wait() and woken
   threads that retry are interleaved, one thread at most owns the lock,
   and while one does the semaphore is 0.                                  *)
MutualExclusion ==
  \A t \in Thread : pc[t] \in Owning =>
    value[Lock] = 0 /\ \A u \in Thread : pc[u] \in Owning => u = t

(* lock_held_by_current_thread() is exact for its caller, though owner and
   semaphore change in different steps: the assertions of lock_acquire(),
   lock_release(), cond_wait() and cond_signal() never fail.               *)
HolderExact == \A t \in Thread : holder = t <=> pc[t] \in Holding

(* A signal is never lost: from cond_wait()'s push until its sema_down()
   passes, the thread is listed with its semaphore at 0 or has been
   signalled exactly once, even between the release of the lock and the
   wait; and nobody sleeps on a semaphore that is up.                      *)
SignalKept ==
  /\ IsInjective(cond)
  /\ \A t \in Thread :
       IF pc[t] \in {"wait_clear", "wait_up", "wait_down"}
       THEN /\ value[t] = (IF t \in Range(cond) THEN 0 ELSE 1)
            /\ t \in Range(waiters[t]) => t \in Range(cond)
       ELSE t \notin Range(cond) /\ value[t] = 0 /\ waiters[t] = << >>

(* A signalled thread leaves its wait.                                     *)
SignalDelivered ==
  \A t \in Thread : (pc[t] = "wait_down" /\ t \notin Range(cond)) ~> pc[t] = "down"

(* While threads want the lock, it keeps being acquired: a wake-up that a
   third thread overtakes is not lost with it.                             *)
LockProgress ==
  (\E t \in Thread : pc[t] = "down") ~> (\E t \in Thread : pc[t] = "own")

=============================================================================
