------------------------------- MODULE Bitmap -------------------------------
(***************************************************************************)
(* lib/kernel/bitmap.c: an array of bits kept in elements of ELEM_BITS     *)
(* bits, an element being the set of its bits that are 1.  The bits of the *)
(* last element beyond bit_cnt are whatever the memory held.               *)
(***************************************************************************)
EXTENDS Integers, Sequences, FiniteSets

CONSTANTS ELEM_BITS, bit_cnt, BITMAP_ERROR

VARIABLES
  bits, file,      \* the elements, in memory and in the file
  last             \* the result of the last query

vars == <<bits, file, last>>

elem_idx(i) == i \div ELEM_BITS
bit_mask(i) == {i % ELEM_BITS}

elem_cnt(n) == (n + ELEM_BITS - 1) \div ELEM_BITS
Elem == 0 .. elem_cnt(bit_cnt) - 1


last_mask == IF bit_cnt % ELEM_BITS = 0 THEN 0 .. ELEM_BITS - 1 ELSE 0 .. (bit_cnt % ELEM_BITS) - 1

TypeOK == /\ bits \in [Elem -> SUBSET (0 .. ELEM_BITS - 1)]
          /\ file \in [Elem -> SUBSET (0 .. ELEM_BITS - 1)]
          /\ last \in Nat \cup {BITMAP_ERROR}

bitmap_mark(b, i) == [b EXCEPT ![elem_idx(i)] = @ \cup bit_mask(i)]
bitmap_reset(b, i) == [b EXCEPT ![elem_idx(i)] = @ \ bit_mask(i)]
bitmap_test(b, i) == b[elem_idx(i)] \cap bit_mask(i) # {}

bitmap_set(b, i, value) == IF value THEN bitmap_mark(b, i) ELSE bitmap_reset(b, i)

\* Mutant: the last bit is left out.
set_multiple_short(b, start, cnt, value) ==
  LET F[i \in 0 .. cnt] == IF i = 0 THEN b
                           ELSE IF i = cnt THEN F[i - 1] ELSE bitmap_set(F[i - 1], start + i - 1, value)
  IN F[cnt]

bitmap_set_multiple(b, start, cnt, value) ==
  LET F[i \in 0 .. cnt] == IF i = 0 THEN b ELSE bitmap_set(F[i - 1], start + i - 1, value)
  IN F[cnt]

bitmap_contains(b, start, cnt, value) ==
  \E i \in 0 .. cnt - 1 : bitmap_test(b, start + i) = value

bitmap_count(b, start, cnt, value) ==
  LET F[i \in 0 .. cnt] == IF i = 0 THEN 0
                           ELSE F[i - 1] + (IF bitmap_test(b, start + i - 1) = value THEN 1 ELSE 0)
  IN F[cnt]

(* bitmap_scan(): the loop from start, from the position i on.             *)
bitmap_scan(b, start, cnt, value) ==
  LET F[i \in start .. bit_cnt + 1] ==
        IF i > bit_cnt - cnt THEN BITMAP_ERROR
        ELSE IF ~bitmap_contains(b, i, cnt, ~value) THEN i ELSE F[i + 1]
  IN F[start]

(* bitmap_create(): set_all() clears the bits in use, no others.           *)
bitmap_create ==
  /\ \E garbage \in [Elem -> SUBSET (0 .. ELEM_BITS - 1)] :
       bits = bitmap_set_multiple(garbage, 0, bit_cnt, FALSE)
  /\ file = [e \in Elem |-> {}] /\ last = BITMAP_ERROR

SetMultiple(start, cnt, value) ==
  /\ bits' = bitmap_set_multiple(bits, start, cnt, value) /\ UNCHANGED <<file, last>>

bitmap_flip(i) ==
  /\ bits' = [bits EXCEPT ![elem_idx(i)] = (@ \cup bit_mask(i)) \ (@ \cap bit_mask(i))]
  /\ UNCHANGED <<file, last>>

Count(start, cnt, value) ==
  /\ last' = bitmap_count(bits, start, cnt, value) /\ UNCHANGED <<bits, file>>

bitmap_scan_and_flip(start, cnt, value) ==
  /\ last' = bitmap_scan(bits, start, cnt, value)
  /\ bits' = IF last' = BITMAP_ERROR THEN bits
             ELSE bitmap_set_multiple(bits, last', cnt, ~value)
  /\ UNCHANGED file

bitmap_write == file' = bits /\ UNCHANGED <<bits, last>>

bitmap_read ==
  /\ bits' = [e \in Elem |-> IF e = elem_cnt(bit_cnt) - 1 THEN file[e] \cap last_mask ELSE file[e]]
  /\ UNCHANGED <<file, last>>

Next ==
  \/ \E start \in 0 .. bit_cnt, cnt \in 0 .. bit_cnt, value \in BOOLEAN :
       \/ start + cnt <= bit_cnt /\ (SetMultiple(start, cnt, value) \/ Count(start, cnt, value))
       \/ bitmap_scan_and_flip(start, cnt, value)
  \/ \E i \in 0 .. bit_cnt - 1 : bitmap_flip(i)
  \/ bitmap_write \/ bitmap_read

Spec == bitmap_create /\ [][Next]_vars

-----------------------------------------------------------------------------
InUse(b) == {i \in 0 .. bit_cnt - 1 : bitmap_test(b, i)}

(* The elements represent a set of indices: every operation changes and
   reports exactly the bits it names, across the borders of elements and
   whatever the spare bits hold, the scan finds the first group there is,
   and the file gives back what was written.                               *)
Abstract == INSTANCE BitSet WITH set <- InUse(bits), saved <- InUse(file),
                                 N <- bit_cnt, Error <- BITMAP_ERROR

(* Equal bitmaps are equal in memory once they have been read from a file:
   bitmap_read() leaves no spare bit set.                                  *)
ReadLeavesNoSpare ==
  [][bitmap_read => \A e \in Elem : \A k \in bits'[e] : e * ELEM_BITS + k < bit_cnt]_vars
=============================================================================
