-------------------------------- MODULE Intq --------------------------------
(***************************************************************************)
(* devices/intq.c: a circular buffer between kernel threads and interrupt  *)
(* handlers.  Every function runs with interrupts off, so a call is one    *)
(* step up to the point where the thread sleeps: in lock_acquire() when    *)
(* the queue's lock is taken, or in wait().  Threads of Reader call        *)
(* intq_getc(), threads of Writer intq_putc().                             *)
(***************************************************************************)
EXTENDS Integers, Sequences, FiniteSets, Functions

CONSTANTS Reader, Writer, Byte, INTQ_BUFSIZE, NULL

Thread == Reader \cup Writer
Pos == 0 .. INTQ_BUFSIZE - 1

VARIABLES
  buf, head, tail,
  not_full, not_empty,   \* the waiting thread of either side
  free,                  \* the value of the lock's semaphore is 1
  lockq,                 \* the threads asleep in lock_acquire()
  pc,
  panicked               \* the assertion of wait() has failed

ring == <<buf, head, tail>>
vars == <<ring, not_full, not_empty, free, lockq, pc, panicked>>

TypeOK ==
  /\ buf \in [Pos -> Byte] /\ head \in Pos /\ tail \in Pos
  /\ not_full \in Writer \cup {NULL} /\ not_empty \in Reader \cup {NULL}
  /\ free \in BOOLEAN /\ panicked \in BOOLEAN
  /\ lockq \in Seq(Thread)
  /\ pc \in [Thread -> {"call", "queued", "granted", "waiting", "woken"}]

intq_init ==
  /\ buf \in {[p \in Pos |-> b] : b \in Byte} /\ head = 0 /\ tail = 0
  /\ not_full = NULL /\ not_empty = NULL
  /\ free = TRUE /\ lockq = << >>
  /\ pc = [t \in Thread |-> "call"]
  /\ panicked = FALSE

-----------------------------------------------------------------------------
next(p) == (p + 1) % INTQ_BUFSIZE

intq_empty == head = tail

\* Mutant: every position is used, so that full looks like empty.
never_full == FALSE

intq_full == next(head) = tail

\* The thread that signal() wakes, if there is one.
Wake(f, w) == [t \in Thread |-> IF t = w THEN "woken" ELSE f[t]]

(* The ends of intq_getc() and intq_putc(): move a byte and signal.  f is
   pc as the caller leaves it.                                             *)
getc(f) ==
  /\ ~intq_empty
  /\ tail' = next(tail)
  /\ not_full' = NULL
  /\ pc' = Wake(f, not_full)
  /\ UNCHANGED <<buf, head, not_empty, panicked>>


putc(f, b) ==
  /\ ~intq_full
  /\ buf' = [buf EXCEPT ![head] = b]
  /\ head' = next(head)
  /\ not_empty' = NULL
  /\ pc' = Wake(f, not_empty)
  /\ UNCHANGED <<tail, not_full, panicked>>

Finish(t, f) == \/ t \in Reader /\ getc(f)
                \/ t \in Writer /\ \E b \in Byte : putc(f, b)

Ready(t) == IF t \in Reader THEN ~intq_empty ELSE ~intq_full

(* wait() after its assertion.                                             *)
wait(t, f) ==
  /\ IF t \in Reader THEN not_empty' = t /\ UNCHANGED not_full
                     ELSE not_full' = t /\ UNCHANGED not_empty
  /\ pc' = [f EXCEPT ![t] = "waiting"]

(* The loop of intq_getc() or intq_putc(), with the lock free or not (fr)
   and q asleep on it: finish, wait holding the lock, or sleep on the lock. *)
Try(t, f, fr, q) ==
  \/ Finish(t, [f EXCEPT ![t] = "call"]) /\ free' = fr /\ lockq' = q
  \/ /\ ~Ready(t) /\ fr
     /\ wait(t, f)
     /\ free' = FALSE /\ lockq' = q
     /\ UNCHANGED <<ring, panicked>>
  \/ /\ ~Ready(t) /\ ~fr
     /\ pc' = [f EXCEPT ![t] = "queued"]
     /\ free' = FALSE /\ lockq' = Append(q, t)
     /\ UNCHANGED <<ring, not_full, not_empty, panicked>>

CallOp(t) == pc[t] = "call" /\ Try(t, pc, free, lockq)

(* lock_acquire() returns after a sleep, or sleeps again.  wait() asserts
   that the condition its caller tested before the sleep still holds.      *)
Acquired(t) ==
  /\ pc[t] = "granted"
  /\ \/ /\ free /\ ~Ready(t)
        /\ wait(t, pc)
        /\ free' = FALSE
        /\ UNCHANGED <<ring, lockq, panicked>>
     \/ /\ free /\ Ready(t)
        /\ panicked' = TRUE
        /\ UNCHANGED <<ring, not_full, not_empty, free, lockq, pc>>
     \/ /\ ~free
        /\ pc' = [pc EXCEPT ![t] = "queued"]
        /\ lockq' = Append(lockq, t)
        /\ UNCHANGED <<ring, not_full, not_empty, free, panicked>>

\* Mutant: lock_release() leaves the next thread asleep.
WokenAlone(t) == pc[t] = "woken" /\ Try(t, pc, TRUE, lockq)

(* wait() returns: lock_release(), and the loop again.                     *)
Woken(t) ==
  /\ pc[t] = "woken"
  /\ IF lockq = << >> THEN Try(t, pc, TRUE, lockq)
     ELSE Try(t, [pc EXCEPT ![Head(lockq)] = "granted"], TRUE, Tail(lockq))

(* A handler calls intq_getc() or intq_putc() after testing the queue.     *)
Handler ==
  /\ getc(pc) \/ \E b \in Byte : putc(pc, b)
  /\ UNCHANGED <<free, lockq>>

Step(t) == ~panicked /\ (Acquired(t) \/ Woken(t))

Next == \/ ~panicked /\ (Handler \/ \E t \in Thread : CallOp(t))
        \/ \E t \in Thread : Step(t)

Spec == intq_init /\ [][Next]_vars /\ \A t \in Thread : WF_vars(Step(t))

-----------------------------------------------------------------------------
Contents == [i \in 1 .. (head - tail) % INTQ_BUFSIZE |->
               buf[(tail + i - 1) % INTQ_BUFSIZE]]

Q == INSTANCE ByteQueue WITH queue <- Contents, Capacity <- INTQ_BUFSIZE - 1

(* The ring is a first-in first-out queue of INTQ_BUFSIZE - 1 bytes: across
   every wrap-around and whoever moves the bytes, none is lost, doubled,
   reordered or overwritten.                                               *)
IsByteQueue == Q!QSpec

(* "Only one thread may wait at once" (intq.h), and signal() can find it: a
   thread that sleeps in wait() is the one recorded for its side, it holds
   the lock, and the condition it waits for is false.                      *)
WaiterRecorded ==
  \A t \in Thread :
    pc[t] = "waiting" => /\ IF t \in Reader THEN not_empty = t ELSE not_full = t
                         /\ ~Ready(t) /\ ~free
                         /\ \A u \in Thread : pc[u] = "waiting" => u = t

(* A byte ends a wait: a reader asleep while the queue is not empty, on the
   lock or in wait(), gets to run.                                         *)
ReaderServed ==
  \A t \in Reader : pc[t] = "queued" /\ ~intq_empty
                      ~> (pc[t] # "queued" \/ intq_empty \/ panicked)
=============================================================================
