----------------------------- MODULE MergeSort ------------------------------
(***************************************************************************)
(* list_sort() of lib/kernel/list.c, one step per iteration of its loops,  *)
(* shown to compute what module Lists promises.  An element is a key and   *)
(* the place it started from; a pointer is a position in the list.         *)
(***************************************************************************)
EXTENDS Integers, Sequences, FiniteSets, SequencesExt

CONSTANTS Key, MaxLen      \* bound: the lists that are sorted

Elem == Key \X (1 .. MaxLen)
less == {p \in Elem \X Elem : p[1][1] < p[2][1]}
L == INSTANCE Lists

VARIABLES
  orig,                 \* the list at the call
  s,                    \* the list now
  a0, a1b0, b1, output_run_cnt,
  pc                    \* "pass", "merge", "done"

vars == <<orig, s, a0, a1b0, b1, output_run_cnt, pc>>
list_end == Len(s) + 1
Less(i, j) == <<s[i], s[j]>> \in less

Init ==
  /\ orig \in {[i \in DOMAIN k |-> <<k[i], i>>] : k \in UNION {[1 .. n -> Key] : n \in 0 .. MaxLen}}
  /\ s = orig /\ a0 = 1 /\ a1b0 = 1 /\ b1 = 1 /\ output_run_cnt = 0 /\ pc = "pass"

is_sorted(a, b) == \A i \in a + 1 .. b - 1 : ~Less(i, i - 1)

\* Mutant: a run may end with an element that is out of order.
find_end_of_run_long(a) ==
  LET E == {i \in a + 2 .. Len(s) : Less(i, i - 1)} \cup {list_end} IN CHOOSE i \in E : \A j \in E : i <= j

find_end_of_run(a) ==
  LET E == {i \in a + 1 .. Len(s) : Less(i, i - 1)} \cup {list_end} IN CHOOSE i \in E : \A j \in E : i <= j

\* Mutant: a list that is one run goes round again.
PassesOver_never == output_run_cnt < 1
PassesOver == output_run_cnt <= 1

\* Mutant: of two equal elements the later one goes first.
First_unstable == Less(a0, a1b0)
First == ~Less(a1b0, a0)

(* One turn of the for loop, up to the call of inplace_merge().            *)
FindRuns ==
  /\ pc = "pass" /\ a0 # list_end
  /\ output_run_cnt' = output_run_cnt + 1
  /\ a1b0' = find_end_of_run(a0)
  /\ IF a1b0' = list_end
     THEN a0' = list_end /\ UNCHANGED <<b1, pc>>          \* break
     ELSE b1' = find_end_of_run(a1b0') /\ pc' = "merge" /\ UNCHANGED a0
  /\ UNCHANGED <<orig, s>>

inplace_merge ==
  /\ pc = "merge"
  /\ IF a0 # a1b0 /\ a1b0 # b1
     THEN IF First
          THEN a0' = a0 + 1 /\ UNCHANGED <<s, a1b0, pc>>
          ELSE /\ s' = InsertAt(RemoveAt(s, a1b0), a0, s[a1b0])   \* list_splice()
               /\ a0' = a0 + 1 /\ a1b0' = a1b0 + 1 /\ UNCHANGED pc
     ELSE a0' = b1 /\ pc' = "pass" /\ UNCHANGED <<s, a1b0>>
  /\ UNCHANGED <<orig, b1, output_run_cnt>>

EndPass ==
  /\ pc = "pass" /\ a0 = list_end
  /\ IF PassesOver THEN pc' = "done" /\ UNCHANGED <<a0, output_run_cnt>>
     ELSE a0' = 1 /\ output_run_cnt' = 0 /\ UNCHANGED pc
  /\ UNCHANGED <<orig, s, a1b0, b1>>

Done == pc = "done" /\ UNCHANGED vars
Next == FindRuns \/ inplace_merge \/ EndPass \/ Done
Spec == Init /\ [][Next]_vars /\ WF_vars(FindRuns \/ inplace_merge \/ EndPass)

-----------------------------------------------------------------------------
(* The assertions of inplace_merge(): between its steps both ranges that
   are left to merge are in order, and so is what is already merged.       *)
RangesSorted == pc = "merge" => is_sorted(a0, a1b0) /\ is_sorted(a1b0, b1)

(* list_sort() returns the stable sort of the list it was given.           *)
SortsAsPromised == pc = "done" => s = L!list_sort(orig, less)

(* The passes end: each one that leaves two runs or more has merged some.  *)
SortEnds == <>(pc = "done")
=============================================================================
