------------------------------ MODULE Console -------------------------------
(***************************************************************************)
(* lib/kernel/console.c, the panic path of lib/kernel/debug.c and          *)
(* devices/shutdown.c: threads and interrupt handlers print, a print may   *)
(* be entered again by the thread that is printing (the backtrace in       *)
(* console.c), any step may fail an assertion, and the machine is stopped. *)
(* A call of printf(), puts(), putbuf() or putchar() is a frame, the       *)
(* number of characters it has still to write.                             *)
(***************************************************************************)
EXTENDS Integers, Sequences

CONSTANTS
  Thread, main,    \* main is the thread that boots
  NULL,
  MsgLen, MaxNest, \* bounds: characters of a message, calls inside calls
  MaxPanic         \* bound: assertions that fail

VARIABLES
  holder, use_console_lock, console_lock_depth,
  frames,          \* for each thread, the calls it is in, innermost first
  unsent,          \* bytes wait in the serial port's queue
  level,           \* the calls of debug_panic()
  stage,           \* how far the one that panics or shuts down has come
  stopper,        \* the thread that does it
  how              \* how the machine is to stop

vars == <<holder, use_console_lock, console_lock_depth, frames, unsent, level, stage, stopper, how>>

\* The stages in which the thread that stops the machine prints.
Printing == {"print", "stats", "bye", "goodbye"}

TypeOK ==
  /\ holder \in Thread \cup {NULL} /\ stopper \in Thread \cup {NULL}
  /\ use_console_lock \in BOOLEAN /\ unsent \in BOOLEAN
  /\ console_lock_depth \in 0 .. MaxNest
  /\ frames \in [Thread -> Seq(0 .. MsgLen)]
  /\ level \in 0 .. MaxPanic
  /\ stage \in Printing \cup {"run", "flush", "shutdown", "last", "power", "halted", "off", "rebooting"}
  /\ how \in {"none", "power_off", "reboot"}

Init ==
  /\ holder = NULL /\ use_console_lock = FALSE /\ console_lock_depth = 0
  /\ frames = [t \in Thread |-> << >>]
  /\ unsent = FALSE /\ level = 0 /\ stage = "run" /\ stopper = NULL
  /\ how = "none"

machine == <<level, stage, stopper, how>>

(* The thread may print.  A panic turned interrupts off, so that only the
   thread that panics runs.  Before console_init() there is only main.     *)
Runs(t) == IF t = stopper THEN stage \in Printing
           ELSE level = 0 /\ stage # "off" /\ (use_console_lock \/ t = main)

\* console_init(), called once by main before there are other threads.
console_init ==
  /\ ~use_console_lock /\ level = 0 /\ frames[main] = << >>
  /\ use_console_lock' = TRUE /\ holder' = NULL
  /\ UNCHANGED <<console_lock_depth, frames, unsent, machine>>

\* Mutant: a nested call does not count.
acquire_uncounted(t) ==
  /\ IF use_console_lock /\ holder # t THEN holder = NULL /\ holder' = t
                                       ELSE UNCHANGED holder
  /\ UNCHANGED <<console_lock_depth, use_console_lock>>

acquire_console(t) ==
  /\ \/ ~use_console_lock /\ UNCHANGED <<holder, console_lock_depth>>
     \/ /\ use_console_lock /\ holder = t
        /\ console_lock_depth' = console_lock_depth + 1 /\ UNCHANGED holder
     \/ /\ use_console_lock /\ holder = NULL
        /\ holder' = t /\ UNCHANGED console_lock_depth
  /\ UNCHANGED use_console_lock

\* Mutant: the depth is left alone.
release_undercounted(t) ==
  /\ IF use_console_lock /\ console_lock_depth = 0 THEN holder' = NULL ELSE UNCHANGED holder
  /\ UNCHANGED <<console_lock_depth, use_console_lock>>

release_console(t) ==
  /\ \/ ~use_console_lock /\ UNCHANGED <<holder, console_lock_depth>>
     \/ /\ use_console_lock /\ console_lock_depth > 0
        /\ console_lock_depth' = console_lock_depth - 1 /\ UNCHANGED holder
     \/ /\ use_console_lock /\ console_lock_depth = 0
        /\ holder' = NULL /\ UNCHANGED console_lock_depth
  /\ UNCHANGED use_console_lock

(* vprintf(), puts(), putbuf() and putchar(): acquire the console, write n
   characters, release it.                                                 *)
Call(t, n) ==
  /\ Runs(t) /\ Len(frames[t]) <= MaxNest
  /\ t = stopper => frames[t] = << >>
  /\ acquire_console(t)
  /\ frames' = [frames EXCEPT ![t] = <<n>> \o @]
  /\ UNCHANGED <<unsent, machine>>

putchar_have_lock(t) ==
  /\ Runs(t) /\ frames[t] # << >> /\ Head(frames[t]) > 0
  /\ frames' = [frames EXCEPT ![t] = <<Head(@) - 1>> \o Tail(@)]
  /\ unsent' = TRUE
  /\ UNCHANGED <<holder, use_console_lock, console_lock_depth, machine>>

(* The end of a call: release.  The thread that stops the machine goes on
   to its next stage.                                                      *)
Return(t) ==
  /\ Runs(t) /\ frames[t] # << >> /\ Head(frames[t]) = 0
  /\ release_console(t)
  /\ frames' = [frames EXCEPT ![t] = Tail(@)]
  /\ stage' = IF t # stopper THEN stage
              ELSE CASE stage = "print" -> "flush" [] stage = "stats" -> "bye"
                     [] stage = "bye" -> "last" [] stage = "goodbye" -> "rebooting"
  /\ UNCHANGED <<unsent, level, stopper, how>>

(* An interrupt handler prints: in interrupt context no lock is taken.     *)
InterruptPrints ==
  /\ level = 0 /\ use_console_lock /\ stage # "off"
  /\ unsent' = TRUE
  /\ UNCHANGED <<holder, use_console_lock, console_lock_depth, frames, machine>>

\* External: the serial interrupt sends the queue while interrupts are on.
Drained == /\ level = 0 /\ unsent /\ unsent' = FALSE
           /\ UNCHANGED <<holder, use_console_lock, console_lock_depth, frames, machine>>

\* Mutant: the console is not told of the panic.
console_panic_silent == UNCHANGED use_console_lock

console_panic == use_console_lock' = FALSE

(* debug_panic(): the first call prints a report, the second a line, later
   ones nothing.  It does not return: the calls it interrupts are left as
   they are, and it has frames of its own.                                 *)
debug_panic(t) ==
  /\ Runs(t) \/ (stage \in {"flush", "shutdown"} /\ stopper = t)
  /\ level < MaxPanic
  /\ console_panic
  /\ level' = level + 1 /\ stopper' = t
  /\ stage' = IF level < 2 THEN "print" ELSE "flush"
  /\ frames' = [frames EXCEPT ![t] = << >>]
  /\ UNCHANGED <<holder, console_lock_depth, unsent, how>>

\* Mutant: the report is left in the queue.
serial_flush_skipped == UNCHANGED unsent

serial_flush == unsent' = FALSE

(* The ends of debug_panic() and of shutdown_power_off(): the queue is
   flushed, and the power goes off.                                        *)
Flush(t) ==
  /\ stopper = t
  /\ \/ stage = "flush" /\ stage' = "shutdown" /\ serial_flush
     \/ stage = "last" /\ stage' = "power" /\ serial_flush
     \/ stage = "power" /\ stage' = "off" /\ UNCHANGED unsent
  /\ UNCHANGED <<holder, use_console_lock, console_lock_depth, frames, level, stopper, how>>

(* shutdown(), from debug_panic() (interrupts off) or from main().         *)
shutdown(t) ==
  /\ \/ stage = "shutdown" /\ stopper = t
     \/ stage = "run" /\ t = main /\ level = 0 /\ use_console_lock /\ frames[t] = << >> /\ how # "none"
  /\ stage' = CASE how = "none" -> "halted" [] how = "power_off" -> "stats"
                [] OTHER -> "goodbye"
  /\ stopper' = t
  /\ UNCHANGED <<holder, use_console_lock, console_lock_depth, frames, unsent, level, how>>

shutdown_configure(h) ==
  /\ stage = "run" /\ how = "none" /\ how' = h
  /\ UNCHANGED <<holder, use_console_lock, console_lock_depth, frames, unsent, level, stage, stopper>>

Step(t) ==
  Call(t, MsgLen) \/ putchar_have_lock(t) \/ Return(t) \/ Flush(t) \/ shutdown(t)

Next ==
  \/ console_init \/ InterruptPrints \/ Drained
  \/ \E h \in {"power_off", "reboot"} : shutdown_configure(h)
  \/ \E t \in Thread : Step(t) \/ debug_panic(t)

Spec == Init /\ [][Next]_vars /\ \A t \in Thread : WF_vars(Step(t))

-----------------------------------------------------------------------------
(* "this lock is useful to prevent simultaneous printf() calls from mixing
   their output" (console.c): once the console is initialised and until a
   panic, the calls in progress belong to one thread, which holds the lock,
   however the calls nest.                                                 *)
OutputUnmixed ==
  use_console_lock => \A t \in Thread : frames[t] # << >> => holder = t

(* The depth counter simulates a recursive lock: it is the number of calls
   nested in the holder's first, and zero when the lock is free.           *)
DepthExact ==
  use_console_lock =>
    console_lock_depth = IF holder = NULL THEN 0 ELSE Len(frames[holder]) - 1

(* A panic always ends: its report does not wait for the console lock,
   whoever holds it, and panics inside the panic do not print for ever.    *)
PanicStops == level > 0 ~> stage \in {"halted", "off", "rebooting"}

(* When a panic halts the machine or turns it off, everything printed has
   left the serial port's queue.                                           *)
ReportSent == level > 0 /\ stage \in {"halted", "off"} => ~unsent
=============================================================================
