----------------------------- MODULE ByteQueue ------------------------------
(* A bounded queue of bytes: what devices/intq.c promises its users.        *)
EXTENDS Integers, Sequences

CONSTANTS Byte, Capacity

VARIABLE queue

QInit == queue = << >>

QPut(b) == Len(queue) < Capacity /\ queue' = Append(queue, b)
QGet == queue # << >> /\ queue' = Tail(queue)

QNext == QGet \/ \E b \in Byte : QPut(b)
QSpec == QInit /\ [][QNext]_queue
=============================================================================
