------------------------------- MODULE Lists --------------------------------
(***************************************************************************)
(* What lib/kernel/list.c promises for the two ordered operations the      *)
(* kernel uses, on lists seen as sequences of distinct elements.  less is  *)
(* the set of pairs that a list_less_func orders.  The other operations    *)
(* are Append, Head and Tail.                                              *)
(***************************************************************************)
EXTENDS Integers, Sequences, FiniteSets
LOCAL INSTANCE SequencesExt

(* list_sort(): a stable natural merge sort.  An element comes after those
   that are less than it and after earlier ones that are not greater.      *)
list_sort(s, less) ==
  LET Before(i) == {j \in DOMAIN s : \/ <<s[j], s[i]>> \in less
                                     \/ <<s[i], s[j]>> \notin less /\ j < i}
  IN  [k \in DOMAIN s |-> s[CHOOSE i \in DOMAIN s : Cardinality(Before(i)) = k - 1]]

(* list_insert_ordered(): in front of the first element greater than e, so
   after its equals.                                                       *)
list_insert_ordered(s, e, less) ==
  LET Greater == {i \in DOMAIN s : <<e, s[i]>> \in less}
      pos == IF Greater = {} THEN Len(s) + 1
             ELSE CHOOSE i \in Greater : \A j \in Greater : i <= j
  IN  InsertAt(s, pos, e)

=============================================================================
