--------------------------- MODULE PageAllocator ----------------------------
(***************************************************************************)
(* What the page allocator promises: a thread is given, in one step, a     *)
(* group of contiguous pages that nobody has, and gives pages back.        *)
(***************************************************************************)
EXTENDS Integers

CONSTANTS Thread, Page
VARIABLE owned

AInit == owned = [t \in Thread |-> {}]

AGet(t) == \E first, last \in Page :
  /\ first .. last # {} /\ first .. last \subseteq Page
  /\ \A u \in Thread : owned[u] \cap (first .. last) = {}
  /\ owned' = [owned EXCEPT ![t] = @ \cup (first .. last)]

AFree(t) == \E P \in SUBSET owned[t] : owned' = [owned EXCEPT ![t] = @ \ P]

ANext == \E t \in Thread : AGet(t) \/ AFree(t)
ASpec == AInit /\ [][ANext]_owned
=============================================================================
