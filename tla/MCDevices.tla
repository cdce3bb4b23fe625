----------------------------- MODULE MCDevices ------------------------------
(***************************************************************************)
(* The synchronization primitives and the device drivers on small          *)
(* instances.  The components meet only through the interfaces their       *)
(* modules state, so a behaviour is one of the component that part names:  *)
(* the others stay in an initial state of theirs.                          *)
(***************************************************************************)
EXTENDS Integers, Sequences, FiniteSets

CONSTANTS NULL, Lock, Space, main, t1, t2, t3, a, b

VARIABLES
  part,
  pc, holder, value, waiters, cond,                              \* Synch
  ring, head, tail, not_full, not_empty, free, lockq, ipc, failed,   \* Intq
  mode, txq, buffer, ier, busy, received, arrived, wire, accepted, writer,
  reader, fault,                                                 \* Serial
  held, down, caps_lock, keys, rebooted,                         \* Kbd
  owner, use_console_lock, console_lock_depth, frames, unsent, level,
  stage, stopper, how,                                           \* Console
  cx, cy, fb, cursor, inited, beeping, gate,                     \* Vga
  clock, shown, ticks, regs, time,                               \* Rtc
  channel, speaker,                                              \* Pit
  disk, state, reg, irq, expecting_interrupt, completion_wait, lock, req,
  dpc, panicked                                                  \* Ide

synch == <<pc, holder, value, waiters, cond>>
intq == <<ring, head, tail, not_full, not_empty, free, lockq, ipc, failed>>
serial == <<mode, txq, buffer, ier, busy, received, arrived, wire, accepted,
            writer, reader, fault>>
kbd == <<held, down, caps_lock, keys, rebooted>>
console == <<owner, use_console_lock, console_lock_depth, frames, unsent,
             level, stage, stopper, how>>
vga == <<cx, cy, fb, cursor, inited, beeping, gate>>
rtc == <<clock, shown, ticks, regs, time>>
pit == <<channel, speaker>>
ide == <<disk, state, reg, irq, expecting_interrupt, completion_wait, lock,
         req, dpc, panicked>>
vars == <<part, synch, intq, serial, kbd, console, vga, rtc, pit, ide>>

-----------------------------------------------------------------------------
Sy == INSTANCE Synch WITH Thread <- {t1, t2, t3}

(* A queue that threads read and one that threads write.                   *)
In == INSTANCE Intq WITH Reader <- {t1, t2}, Writer <- {}, Byte <- {a, b},
        INTQ_BUFSIZE <- 3, buf <- ring, pc <- ipc, panicked <- failed
Out == INSTANCE Intq WITH Reader <- {}, Writer <- {t1, t2}, Byte <- {a, b},
        INTQ_BUFSIZE <- 3, buf <- ring, pc <- ipc, panicked <- failed

Se == INSTANCE Serial WITH Byte <- {a, b}, Capacity <- 1, MaxOut <- 3, MaxIn <- 3

(* A letter, a digit, Delete, both Shift keys, left Alt, right Ctrl with its
   two-byte code, and Caps Lock.                                           *)
Kb == INSTANCE Kbd WITH Capacity <- 1, buffer <- keys,
        Key <- {30, 13, 83, 42, 54, 56, 57373, 58}

Co == INSTANCE Console WITH Thread <- {main, t1}, MsgLen <- 2, MaxNest <- 1,
        MaxPanic <- 3, holder <- owner

Vg == INSTANCE Vga WITH Thread <- {t1, t2}, Char <- {a}, COL_CNT <- 3,
        ROW_CNT <- 3, TAB <- 2

(* Times just before the carries: a minute, an hour, a day, the end of
   February in a leap year and not, the end of a year and of a century.    *)
Times == { <<1970, 1, 1, 0, 0, 57>>, <<2011, 5, 9, 13, 59, 58>>,
           <<2023, 2, 28, 23, 59, 58>>, <<2024, 2, 28, 23, 59, 59>>,
           <<1999, 12, 31, 23, 59, 58>>, <<2012, 6, 30, 23, 59, 57>> }
Rt == INSTANCE Rtc WITH Starts <- Times, MaxTicks <- 5

(* Frequencies around every case pit_configure_channel() tells apart.      *)
Frequencies ==
  {0, 1, 17, 18, 19, 20, 21, 22, 36, 37, 40, 100, 439, 440, 441, 999, 1000,
   1001, 8191, 8192, 19999, 20000, 20001, 65535, 65536, 100000, 298295,
   298296, 397726, 397727, 477272, 477273, 500000, 596590, 596591, 600000,
   700000, 795453, 795454, 1000000, 1193179, 1193180, 1193181, 2000000}
Pi == INSTANCE Pit WITH PIT_HZ <- 1193180, TIMER_FREQ <- 100,
        Freqs <- Frequencies, gate <- speaker

(* Disks that fail or stay busy.                                           *)
Id == INSTANCE Ide WITH Thread <- {t1, t2}, Sector <- {1}, Faults <- TRUE,
        Spurious <- FALSE, MaxUps <- 2, pc <- dpc

-----------------------------------------------------------------------------
Parts == {"synch", "input", "output", "serial", "kbd", "console", "vga",
          "rtc", "pit", "ide"}

Init ==
  /\ part \in Parts
  /\ Sy!Init /\ Se!Init /\ Kb!Init /\ Co!Init /\ Pi!Init /\ Id!Init
  /\ IF part = "output" THEN Out!intq_init ELSE In!intq_init
  /\ part \in {"input", "output"} \/ ring[0] = a
  /\ Vg!Init /\ (part = "vga" \/ cursor = 0)
  /\ Rt!Init /\ (part = "rtc" \/ clock[1] = 1970)

Next ==
  /\ UNCHANGED part
  /\ \/ part = "synch" /\ Sy!Next
     \/ part # "synch" /\ UNCHANGED synch
  /\ \/ part = "input" /\ In!Next
     \/ part = "output" /\ Out!Next
     \/ part \notin {"input", "output"} /\ UNCHANGED intq
  /\ \/ part = "serial" /\ Se!Next
     \/ part # "serial" /\ UNCHANGED serial
  /\ \/ part = "kbd" /\ Kb!Next
     \/ part # "kbd" /\ UNCHANGED kbd
  /\ \/ part = "console" /\ Co!Next
     \/ part # "console" /\ UNCHANGED console
  /\ \/ part = "vga" /\ Vg!Next
     \/ part # "vga" /\ UNCHANGED vga
  /\ \/ part = "rtc" /\ Rt!Next
     \/ part # "rtc" /\ UNCHANGED rtc
  /\ \/ part = "pit" /\ Pi!Next
     \/ part # "pit" /\ UNCHANGED pit
  /\ \/ part = "ide" /\ Id!Next
     \/ part # "ide" /\ UNCHANGED ide

(* The fairness each module states, for the component that runs.           *)
Fairness ==
  /\ \A t \in {t1, t2, t3} : WF_synch(part = "synch" /\ Sy!Step(t))
  /\ SF_synch(part = "synch" /\ \E t \in {t1, t2, t3} : Sy!Release(t))
  /\ \A t \in {t1, t2} : /\ WF_intq(part = "input" /\ In!Step(t))
                         /\ WF_intq(part = "output" /\ Out!Step(t))
  /\ WF_serial(part = "serial" /\ Se!serial_interrupt)
  /\ WF_serial(part = "serial" /\ Se!UartSends)
  /\ WF_serial(part = "serial" /\ Se!serial_init_queue)
  /\ WF_serial(part = "serial" /\ Se!input_getc)
  /\ WF_serial(part = "serial" /\ Se!WriterResumes)
  /\ \A t \in {main, t1} : WF_console(part = "console" /\ Co!Step(t))
  /\ \A t \in {t1, t2} : WF_vga(part = "vga" /\ Vg!BellEnds(t))
  /\ WF_rtc(part = "rtc" /\ Rt!rtc_get_time)
  /\ WF_ide(part = "ide" /\ Id!Device)
  /\ WF_ide(part = "ide" /\ Id!interrupt_handler)
  /\ \A t \in {t1, t2} : /\ WF_ide(part = "ide" /\ Id!Steps(t))
                         /\ SF_ide(part = "ide" /\ Id!lock_acquire(t))

Spec == Init /\ [][Next]_vars /\ Fairness

-----------------------------------------------------------------------------
(* synch.c: a lock has at most one owner, lock_held_by_current_thread() is
   exact for its caller, and no signal is lost between the release of the
   lock in cond_wait() and the wait.                                       *)
MonitorSafe ==
  part = "synch" => Sy!TypeOK /\ Sy!MutualExclusion /\ Sy!HolderExact /\ Sy!SignalKept

(* synch.c: a signalled thread leaves its wait, and while threads want the
   lock it keeps being acquired.                                           *)
MonitorLive == Sy!SignalDelivered /\ Sy!LockProgress

(* intq.c: the ring is a bounded first-in first-out queue.                 *)
IsByteQueue ==
  In!Q!QInit /\ [][(part \in {"input", "output"}) => [In!Q!QNext]_(In!Contents)]_vars


(* serial.c, input.c: bytes leave in the order serial_putc() took them, no
   work waits with its interrupt off, and no byte is written over another. *)
SerialSafe ==
  part = "serial" =>
    Se!TypeOK /\ Se!InterruptsEnabled /\ Se!OutputInOrder /\ Se!NothingOverwritten

(* kbd.c: the state of a shift key is whether the key is down, a letter
   follows the keys that are down, and Caps Lock does not change a digit.  *)
KeysExact ==
  /\ [](part = "kbd" => Kb!TypeOK /\ Kb!ShiftStateExact)
  /\ Kb!LetterFollowsKeys /\ Kb!DigitIgnoresCaps

(* console.c: the output of two threads is not mixed, and the depth counter
   makes the lock recursive.                                               *)
ConsoleSafe == part = "console" => Co!TypeOK /\ Co!OutputUnmixed /\ Co!DepthExact

(* debug.c, shutdown.c: a panic ends, whoever holds the console lock, and
   what it prints has then left the serial queue.                          *)
PanicReported == [](part = "console" => Co!ReportSent) /\ Co!PanicStops

(* vga.c, speaker.c: the hardware cursor is where the next character goes,
   text is lost only by a form feed or off the top, and a beep ends.       *)
DisplayKept ==
  [](part = "vga" => Vg!TypeOK /\ Vg!CursorFollows) /\ Vg!TextKept /\ Vg!BeepStops


(* ide.c: a read returns what its sector holds, a write returns after the
   disk has the data, and no completion is left for the next command.      *)
DiskSafe == part = "ide" => Id!ReadsRight /\ Id!WriteAcknowledged /\ Id!NoLeftover

=============================================================================
