------------------------------- MODULE Serial -------------------------------
(***************************************************************************)
(* devices/serial.c and devices/input.c, composed: the serial port in      *)
(* polled and in interrupt-driven mode, and the input buffer it shares     *)
(* with the keyboard.  The two interrupt queues are bounded FIFO queues,   *)
(* which is what module Intq shows them to be.  All the code runs with     *)
(* interrupts off, so a call is one step up to the point where it sleeps.  *)
(* One thread writes (the console lock admits one) and one reads.          *)
(***************************************************************************)
EXTENDS Integers, Sequences, SequencesExt

CONSTANTS
  Byte,
  Capacity,    \* INTQ_BUFSIZE - 1
  MaxOut,      \* bound: the bytes given to serial_putc()
  MaxIn        \* bound: the bytes that arrive, from the line or the keyboard

VARIABLES
  mode, txq, buffer, ier,
  busy,        \* external: the transmit holding register is not empty
  received,    \* external: the bytes in the receive register, at most one
  arrived,     \* the number of bytes that came in
  wire,        \* the bytes written to the transmit register
  accepted,    \* the bytes serial_putc() has taken, in order
  writer,      \* a sequence with the byte of a thread asleep in intq_putc()
  reader,      \* the thread that calls input_getc()
  fault        \* a byte overwritten in the transmit register or in the buffer

uart == <<busy, received, arrived>>
vars == <<mode, txq, buffer, ier, uart, wire, accepted, writer, reader, fault>>

TypeOK ==
  /\ mode \in {"uninit", "poll", "queue"}
  /\ txq \in BoundedSeq(Byte, Capacity) /\ buffer \in BoundedSeq(Byte, Capacity)
  /\ ier \subseteq {"xmit", "recv"}
  /\ busy \in BOOLEAN /\ received \in BoundedSeq(Byte, 1) /\ arrived \in 0 .. MaxIn
  /\ wire \in Seq(Byte) /\ accepted \in Seq(Byte)
  /\ writer \in BoundedSeq(Byte, 1) /\ reader \in {"idle", "asleep"}
  /\ fault \in BOOLEAN

input_init == buffer = << >> /\ reader = "idle"

Init ==
  /\ input_init
  /\ mode = "uninit" /\ txq = << >> /\ ier = {}
  /\ busy = FALSE /\ received = << >> /\ arrived = 0
  /\ wire = << >> /\ accepted = << >> /\ writer = << >> /\ fault = FALSE

-----------------------------------------------------------------------------
input_full(b) == Len(b) = Capacity

\* Mutant: only the transmit side is reassessed.
ier_xmit_only(q, b) == IF q # << >> THEN {"xmit"} ELSE {}

\* Mutant: only the receive side is reassessed.
ier_recv_only(q, b) == IF ~input_full(b) THEN {"recv"} ELSE {}

(* write_ier() with the queues q and b.                                    *)
write_ier(q, b) == {i \in {"xmit", "recv"} : IF i = "xmit" THEN q # << >> ELSE ~input_full(b)}

(* putc_poll() of each byte of bs: it waits until the register is empty.   *)
putc_poll(bs) ==
  /\ wire' = wire \o bs
  /\ busy' = (busy \/ bs # << >>) /\ UNCHANGED fault

init_poll == IF mode = "uninit" THEN "poll" ELSE mode

(* serial_init_queue().                                                    *)
serial_init_queue ==
  /\ mode # "queue"
  /\ mode' = "queue"
  /\ ier' = write_ier(txq, buffer)
  /\ UNCHANGED <<txq, buffer, uart, wire, accepted, writer, reader, fault>>

(* serial_putc() before interrupts work.                                   *)
PutPolled(b) ==
  /\ mode # "queue"
  /\ mode' = init_poll
  /\ putc_poll(<<b>>)
  /\ accepted' = Append(accepted, b)
  /\ UNCHANGED <<txq, buffer, ier, received, arrived, writer, reader>>

(* intq_putc() and write_ier(), at the end of serial_putc().               *)
Enqueue(q, b) ==
  /\ txq' = Append(q, b)
  /\ accepted' = Append(accepted, b)
  /\ ier' = write_ier(txq', buffer)

\* Mutant: the new byte is sent at once, ahead of the queue.
PutAhead(b) ==
  /\ mode = "queue"
  /\ IF Len(txq) = Capacity
     THEN putc_poll(<<b>>) /\ accepted' = Append(accepted, b) /\ UNCHANGED <<txq, ier>>
     ELSE Enqueue(txq, b) /\ UNCHANGED <<busy, wire, fault>>
  /\ UNCHANGED <<mode, buffer, received, arrived, writer, reader>>

(* serial_putc() called with interrupts off: a full queue is relieved by
   polling its first byte out.                                             *)
PutOff(b) ==
  /\ mode = "queue"
  /\ IF Len(txq) = Capacity
     THEN putc_poll(<<Head(txq)>>) /\ Enqueue(Tail(txq), b)
     ELSE Enqueue(txq, b) /\ UNCHANGED <<busy, wire, fault>>
  /\ UNCHANGED <<mode, buffer, received, arrived, writer, reader>>

(* serial_putc() called with interrupts on: it sleeps while the queue is
   full.                                                                   *)
PutOn(b) ==
  /\ mode = "queue" /\ writer = << >>
  /\ IF Len(txq) = Capacity
     THEN writer' = <<b>> /\ UNCHANGED <<txq, ier, accepted>>
     ELSE Enqueue(txq, b) /\ UNCHANGED writer
  /\ UNCHANGED <<mode, buffer, uart, wire, reader, fault>>

(* The sleeping writer runs and finds room.                                *)
WriterResumes ==
  /\ writer # << >> /\ Len(txq) < Capacity
  /\ Enqueue(txq, Head(writer))
  /\ writer' = << >>
  /\ UNCHANGED <<mode, buffer, uart, wire, reader, fault>>

(* serial_flush() leaves the interrupt enable register alone.              *)
serial_flush ==
  /\ txq # << >>
  /\ putc_poll(txq)
  /\ txq' = << >>
  /\ UNCHANGED <<mode, buffer, ier, received, arrived, accepted, writer, reader>>

serial_notify(b) == ier' = IF mode = "queue" THEN write_ier(txq, b) ELSE ier

input_putc(b) == buffer' = Append(buffer, b) /\ serial_notify(buffer')

\* Mutant: the buffer takes the byte even when it is full.
keyboard_unchecked(b) ==
  /\ arrived < MaxIn /\ arrived' = arrived + 1
  /\ IF input_full(buffer) THEN fault' = TRUE /\ UNCHANGED <<buffer, ier>>
     ELSE input_putc(b) /\ UNCHANGED fault
  /\ UNCHANGED <<mode, txq, busy, received, wire, accepted, writer, reader>>

(* The end of keyboard_interrupt(): a key that finds no room is dropped.   *)
keyboard(b) ==
  /\ arrived < MaxIn /\ arrived' = arrived + 1
  /\ IF input_full(buffer) THEN UNCHANGED <<buffer, ier>>
     ELSE input_putc(b)
  /\ UNCHANGED <<mode, txq, busy, received, wire, accepted, writer, reader, fault>>

\* Mutant: serial_notify() is forgotten.
input_getc_silent ==
  /\ IF buffer = << >> THEN reader' = "asleep" /\ UNCHANGED buffer
     ELSE reader' = "idle" /\ buffer' = Tail(buffer)
  /\ UNCHANGED <<mode, ier, txq, uart, wire, accepted, writer, fault>>

(* input_getc(): sleeps on an empty buffer; a sleeping reader runs again
   when a byte has come.                                                   *)
input_getc ==
  /\ \/ /\ buffer = << >> /\ reader = "idle"
        /\ reader' = "asleep" /\ UNCHANGED <<buffer, ier>>
     \/ /\ buffer # << >>
        /\ reader' = "idle" /\ buffer' = Tail(buffer) /\ serial_notify(buffer')
  /\ UNCHANGED <<mode, txq, uart, wire, accepted, writer, fault>>

(* serial_interrupt(), raised while an enabled condition holds.            *)
serial_interrupt ==
  /\ mode = "queue"
  /\ \/ "xmit" \in ier /\ ~busy
     \/ "recv" \in ier /\ received # << >>
  /\ IF input_full(buffer) THEN UNCHANGED <<buffer, received>>
     ELSE buffer' = buffer \o received /\ received' = << >>
  /\ IF busy \/ txq = << >> THEN UNCHANGED <<txq, wire, busy>>
     ELSE txq' = Tail(txq) /\ wire' = Append(wire, Head(txq)) /\ busy' = TRUE
  /\ ier' = write_ier(txq', buffer')
  /\ UNCHANGED <<mode, arrived, accepted, writer, reader, fault>>

(* External: the port shifts a byte out, or a byte comes in on the line.   *)
UartSends ==
  /\ busy /\ busy' = FALSE
  /\ UNCHANGED <<mode, txq, buffer, ier, received, arrived, wire, accepted, writer, reader, fault>>

UartReceives(b) ==
  /\ received = << >> /\ arrived < MaxIn
  /\ received' = <<b>> /\ arrived' = arrived + 1
  /\ UNCHANGED <<mode, txq, buffer, ier, busy, wire, accepted, writer, reader, fault>>

serial_putc(b) ==
  /\ Len(accepted) + Len(writer) < MaxOut
  /\ PutPolled(b) \/ PutOff(b) \/ PutOn(b)

Next ==
  \/ \E b \in Byte : serial_putc(b) \/ keyboard(b) \/ UartReceives(b)
  \/ WriterResumes \/ serial_flush \/ input_getc
  \/ serial_init_queue \/ serial_interrupt \/ UartSends

Fairness == /\ WF_vars(serial_interrupt) /\ WF_vars(UartSends)
            /\ WF_vars(serial_init_queue)
            /\ WF_vars(input_getc) /\ WF_vars(WriterResumes)

Spec == Init /\ [][Next]_vars /\ Fairness

-----------------------------------------------------------------------------
(* write_ier(): once interrupts drive the port, no work waits with its
   interrupt off.  A byte to send has IER_XMIT on, and room in the buffer,
   whoever made it, has IER_RECV on.                                       *)
InterruptsEnabled ==
  mode = "queue" => /\ txq # << >> => "xmit" \in ier
                    /\ Len(buffer) < Capacity => "recv" \in ier

(* serial_putc(), serial_flush() and serial_interrupt() keep the order: what
   is on the line and what is queued are together the bytes taken, in the
   order serial_putc() took them, in polled and in queued mode.            *)
OutputInOrder == wire \o txq = accepted

(* No byte is written over another: putc_poll() and the handler write only
   to an empty register, and input_putc() only to a buffer with room.      *)
NothingOverwritten == ~fault

(* A thread that sleeps in serial_putc() on a full queue gets its byte in. *)
WriterServed == writer # << >> ~> writer = << >>

(* A byte that arrives on the line is taken from the port, even when the
   buffer was full at first: reading makes room and serial_notify() turns
   the interrupt on again.                                                 *)
ByteTaken == received # << >> ~> received = << >>
=============================================================================
