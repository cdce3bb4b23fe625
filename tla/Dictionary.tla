----------------------------- MODULE Dictionary -----------------------------
(* What a hash table promises: a set of elements with distinct keys.        *)
EXTENDS FiniteSets
CONSTANTS Elem, KeyOf(_), NULL
VARIABLES elems, ret
vars == <<elems, ret>>

Init == elems = {} /\ ret = NULL

Same(e) == {x \in elems : KeyOf(x) = KeyOf(e)}
Found(e) == IF Same(e) = {} THEN NULL ELSE CHOOSE x \in Same(e) : TRUE

Insert(e) == elems' = (IF Same(e) = {} THEN elems \cup {e} ELSE elems) /\ ret' = Found(e)
Replace(e) == elems' = (elems \ Same(e)) \cup {e} /\ ret' = Found(e)
Find(e) == ret' = Found(e) /\ UNCHANGED elems
Delete(e) == elems' = elems \ Same(e) /\ ret' = Found(e)
Clear == elems' = {} /\ ret' = NULL

Next == Clear \/ \E e \in Elem : Insert(e) \/ Replace(e) \/ Find(e) \/ Delete(e)
Spec == Init /\ [][Next]_vars
=============================================================================
