--------------------------------- MODULE Ide --------------------------------
(***************************************************************************)
(* devices/ide.c: threads that read and write sectors of the two disks of  *)
(* a channel by programmed I/O, with the completion interrupt.  The lock   *)
(* and the semaphore are those of module Synch.                            *)
(***************************************************************************)
EXTENDS Integers, FiniteSets

CONSTANTS
  Thread, Sector, NULL,
  Faults,        \* whether a disk may fail or stay busy
  Spurious,      \* whether the line may give interrupts nobody asked for
  MaxUps         \* bound: completion_wait

Dev == {0, 1}
Value == {0, 1}

VARIABLES
  disk,           \* <<device, sector>> -> content
  state,          \* of the selected device: idle, busy, drq or error
  reg,            \* what the registers name: [dev, sec, cmd]
  irq,            \* the channel's interrupt line
  expecting_interrupt, completion_wait, lock,
  req,            \* thread -> NULL or [cmd, dev, sec, val]
  pc,             \* thread -> where it is
  panicked

vars == <<disk, state, reg, irq, expecting_interrupt, completion_wait, lock, req, pc, panicked>>

Init ==
  /\ disk = [x \in Dev \X Sector |-> 0] /\ state = "idle"
  /\ reg = [dev |-> 0, sec |-> NULL, cmd |-> NULL] /\ irq = FALSE
  /\ expecting_interrupt = FALSE /\ completion_wait = 0 /\ lock = NULL
  /\ req = [t \in Thread |-> NULL] /\ pc = [t \in Thread |-> "idle"] /\ panicked = FALSE

Goto(t, l) == pc' = [pc EXCEPT ![t] = l]
At(t, l) == ~panicked /\ pc[t] = l

-----------------------------------------------------------------------------
(* The device, as the ATA commands the driver uses require it to behave.   *)
Busy == state \in {"busy", "writing"}

DeviceReady ==
  /\ ~panicked /\ state = "busy"
  /\ \/ state' = "drq" /\ irq' = (irq \/ reg.cmd = "read")
     \/ Faults /\ state' = "error" /\ irq' = TRUE
  /\ UNCHANGED <<disk, reg, expecting_interrupt, completion_wait, lock, req, pc, panicked>>

DeviceWritten ==
  /\ ~panicked /\ state = "writing"
  /\ disk' = [disk EXCEPT ![<<reg.dev, reg.sec>>] = reg.val]
  /\ state' = "idle" /\ irq' = TRUE
  /\ UNCHANGED <<reg, expecting_interrupt, completion_wait, lock, req, pc, panicked>>

SpuriousInterrupt ==
  /\ Spurious /\ ~panicked /\ irq' = TRUE
  /\ UNCHANGED <<disk, state, reg, expecting_interrupt, completion_wait, lock, req, pc, panicked>>

-----------------------------------------------------------------------------
Completed == completion_wait + 1

interrupt_handler ==
  /\ ~panicked /\ irq /\ completion_wait < MaxUps
  /\ irq' = FALSE
  /\ completion_wait' = IF expecting_interrupt THEN Completed ELSE completion_wait
  /\ UNCHANGED <<disk, state, reg, expecting_interrupt, lock, req, pc, panicked>>

(* ide_read() and ide_write() take the channel's lock.                     *)
Call(t, c, d, s, v) ==
  /\ At(t, "idle") /\ req' = [req EXCEPT ![t] = [cmd |-> c, dev |-> d, sec |-> s, val |-> v]]
  /\ Goto(t, "lock")
  /\ UNCHANGED <<disk, state, reg, irq, expecting_interrupt, completion_wait, lock, panicked>>

\* Mutant: the channel is used without its lock.
Free_always == TRUE
Free == lock = NULL

lock_acquire(t) ==
  /\ At(t, "lock") /\ Free
  /\ lock' = t /\ Goto(t, "select")
  /\ UNCHANGED <<disk, state, reg, irq, expecting_interrupt, completion_wait, req, panicked>>

(* select_sector(): wait_until_idle() reads the status register, which
   clears a pending interrupt; after its timeout it goes on all the same.  *)
select_sector(t) ==
  /\ At(t, "select")
  /\ irq' = FALSE /\ reg' = [reg EXCEPT !.dev = req[t].dev, !.sec = req[t].sec]
  /\ Goto(t, "issue")
  /\ UNCHANGED <<disk, state, expecting_interrupt, completion_wait, lock, req, panicked>>

issue_pio_command(t) ==
  /\ At(t, "issue")
  /\ expecting_interrupt' = TRUE
  /\ reg' = [reg EXCEPT !.cmd = req[t].cmd] /\ state' = "busy"
  /\ Goto(t, IF req[t].cmd = "read" THEN "sema" ELSE "poll")
  /\ UNCHANGED <<disk, irq, completion_wait, lock, req, panicked>>

sema_down(t) ==
  /\ At(t, "sema") /\ completion_wait > 0
  /\ completion_wait' = completion_wait - 1
  /\ Goto(t, IF req[t].cmd = "read" THEN "poll" ELSE "release")
  /\ UNCHANGED <<disk, state, reg, irq, expecting_interrupt, lock, req, panicked>>

\* Mutant: the answer of wait_while_busy() is not looked at.
Failed_never == FALSE
Failed == state # "drq"

(* wait_while_busy(), which panics for a disk without data or after 30 s.  *)
wait_while_busy(t) ==
  /\ At(t, "poll")
  /\ \/ ~Busy /\ IF Failed THEN panicked' = TRUE /\ UNCHANGED pc
                 ELSE Goto(t, "data") /\ UNCHANGED panicked
     \/ Faults /\ Busy /\ panicked' = TRUE /\ UNCHANGED pc
  /\ UNCHANGED <<disk, state, reg, irq, expecting_interrupt, completion_wait, lock, req>>

(* What the data register gives.                                           *)
Data == IF state = "drq" THEN disk[<<reg.dev, reg.sec>>] ELSE NULL

(* input_sector() and output_sector(). After a write the disk is busy.     *)
Transfer(t) ==
  /\ At(t, "data")
  /\ IF req[t].cmd = "read"
     THEN /\ req' = [req EXCEPT ![t].val = Data] /\ state' = "idle"
          /\ Goto(t, "release") /\ UNCHANGED reg
     ELSE /\ reg' = [dev |-> reg.dev, sec |-> reg.sec, cmd |-> reg.cmd, val |-> req[t].val]
          /\ state' = "writing" /\ Goto(t, "sema") /\ UNCHANGED req
  /\ UNCHANGED <<disk, irq, expecting_interrupt, completion_wait, lock, panicked>>

lock_release(t) ==
  /\ At(t, "release")
  /\ lock' = NULL /\ Goto(t, "idle") /\ req' = [req EXCEPT ![t] = NULL]
  /\ UNCHANGED <<disk, state, reg, irq, expecting_interrupt, completion_wait, panicked>>

Panic == panicked /\ UNCHANGED vars

Steps(t) == \/ select_sector(t) \/ issue_pio_command(t) \/ sema_down(t)
            \/ wait_while_busy(t) \/ Transfer(t) \/ lock_release(t)
Device == DeviceReady \/ DeviceWritten

Next ==
  \/ Device \/ SpuriousInterrupt \/ interrupt_handler \/ Panic
  \/ \E t \in Thread : \/ lock_acquire(t) \/ Steps(t)
                       \/ \E d \in Dev, s \in Sector : Call(t, "read", d, s, NULL)
                       \/ \E d \in Dev, s \in Sector, v \in Value : Call(t, "write", d, s, v)

Spec == /\ Init /\ [][Next]_vars
        /\ WF_vars(Device) /\ WF_vars(interrupt_handler)
        /\ \A t \in Thread : WF_vars(Steps(t)) /\ SF_vars(lock_acquire(t))

-----------------------------------------------------------------------------
(* A read returns what its sector holds, from its own disk.                *)
ReadsRight ==
  \A t \in Thread : At(t, "release") /\ req[t].cmd = "read" => req[t].val = disk[<<req[t].dev, req[t].sec>>]

(* "Returns after the disk has acknowledged receiving the data": when
   ide_write() lets go of the channel its data is on the disk.             *)
WriteAcknowledged ==
  \A t \in Thread : At(t, "release") /\ req[t].cmd = "write" => disk[<<req[t].dev, req[t].sec>>] = req[t].val

(* Each command is completed once: no completion is left for the next one. *)
NoLeftover == completion_wait <= 1 /\ (lock = NULL => completion_wait = 0 /\ ~irq)

=============================================================================
