----------------------------- MODULE LinkedList -----------------------------
(***************************************************************************)
(* lib/kernel/list.c at the level of its links: every operation but the    *)
(* sort (module MergeSort) as assignments to prev and next, on two lists   *)
(* that share their elements.  A removed element keeps its old links.      *)
(***************************************************************************)
EXTENDS Integers, Sequences, SequencesExt

CONSTANTS Elem, NULL, A, B, C     \* A, B and C are elements

key == [e \in Elem |-> IF e \in {A, B} THEN 1 ELSE 2]
less(x, y) == key[x] < key[y]

List == {1, 2}
list_head(l) == <<"head", l>>
list_tail(l) == <<"tail", l>>
Node == Elem \cup (({"head", "tail"}) \X List)

VARIABLES
  links,      \* prev and next of every node
  seq         \* what each list should hold, kept by operations on sequences

vars == <<links, seq>>

list_init ==
  /\ links = [next |-> [n \in Node |-> IF n \in Elem \/ n[1] = "tail" THEN NULL ELSE list_tail(n[2])],
              prev |-> [n \in Node |-> IF n \in Elem \/ n[1] = "head" THEN NULL ELSE list_head(n[2])]]
  /\ seq = [l \in List |-> << >>]

-----------------------------------------------------------------------------
(* Walking a list with list_begin(), list_next() and list_end().           *)
Nodes(K, l) ==
  LET V[i \in 0 .. Cardinality(Node)] ==
        IF i = 0 THEN K.next[list_head(l)]
        ELSE IF V[i - 1] \in {list_tail(l), NULL} THEN V[i - 1] ELSE K.next[V[i - 1]]
  IN V

Walk(K, l) == SelectSeq([i \in 1 .. Cardinality(Node) |-> Nodes(K, l)[i - 1]], LAMBDA n : n \in Elem)

list_begin(K, l) == K.next[list_head(l)]
list_rbegin(K, l) == K.prev[list_tail(l)]
list_empty(K, l) == list_begin(K, l) = list_tail(l)

\* Mutant: the link back to the new element is forgotten.
list_insert_forward(K, before, e) ==
  LET p == K.prev[before] IN
  [next |-> [K.next EXCEPT ![e] = before, ![p] = e], prev |-> [K.prev EXCEPT ![e] = p]]

list_insert(K, before, e) ==
  LET p == K.prev[before] IN
  [next |-> [K.next EXCEPT ![e] = before, ![p] = e],
   prev |-> [K.prev EXCEPT ![e] = p, ![before] = e]]

list_remove(K, e) ==
  [next |-> [K.next EXCEPT ![K.prev[e]] = K.next[e]],
   prev |-> [K.prev EXCEPT ![K.next[e]] = K.prev[e]]]

(* list_splice(): last is exclusive; before's links are read after the
   range has been cut out.                                                 *)
list_splice(K, before, first, last) ==
  IF first = last THEN K ELSE
  LET end == K.prev[last]
      cut == [next |-> [K.next EXCEPT ![K.prev[first]] = K.next[end]],
              prev |-> [K.prev EXCEPT ![K.next[end]] = K.prev[first]]]
      p == cut.prev[before]
  IN [next |-> [cut.next EXCEPT ![end] = before, ![p] = first],
      prev |-> [cut.prev EXCEPT ![first] = p, ![before] = end]]

list_push_front(K, l, e) == list_insert(K, list_begin(K, l), e)
list_push_back(K, l, e) == list_insert(K, list_tail(l), e)

(* list_reverse(): swap the links of each element, then those of the
   headers, then those of the elements next to the headers.                *)
list_reverse(K, l) ==
  LET h == list_head(l)  t == list_tail(l)  in == ToSet(Walk(K, l))
      first == K.next[h]  last == K.prev[t]
      next == [n \in Node |-> IF n \in in THEN K.prev[n] ELSE K.next[n]]
      prev == [n \in Node |-> IF n \in in THEN K.next[n] ELSE K.prev[n]]
  IN IF list_empty(K, l) THEN K
     ELSE [next |-> [next EXCEPT ![h] = last, ![first] = t],
           prev |-> [prev EXCEPT ![t] = first, ![last] = h]]

(* The loop of list_insert_ordered(): stops at the first greater element.  *)
Place(K, l, e) ==
  LET G == {i \in DOMAIN Walk(K, l) : less(e, Walk(K, l)[i])} IN
  IF G = {} THEN list_tail(l) ELSE Walk(K, l)[CHOOSE i \in G : \A j \in G : i <= j]

list_insert_ordered(K, l, e) == list_insert(K, Place(K, l, e), e)

(* list_unique(): st is the links and the element that is compared next.   *)
list_unique(K, l, d) ==
  LET Same(x, y) == ~less(x, y) /\ ~less(y, x)
      Step(st, n) == IF Same(st.elem, n)
                     THEN [st EXCEPT !.K = list_push_back(list_remove(@, n), d, n)]
                     ELSE [st EXCEPT !.elem = n]
  IN IF list_empty(K, l) THEN K
     ELSE FoldLeft(Step, [K |-> K, elem |-> list_begin(K, l)], Tail(Walk(K, l))).K

\* Mutant: the last of several is taken.
list_max_last(K, l) ==
  FoldLeft(LAMBDA m, e : IF ~less(e, m) THEN e ELSE m, list_begin(K, l), Walk(K, l))

list_max(K, l) == FoldLeft(LAMBDA m, e : IF less(m, e) THEN e ELSE m, list_begin(K, l), Walk(K, l))
list_min(K, l) == FoldLeft(LAMBDA m, e : IF less(e, m) THEN e ELSE m, list_begin(K, l), Walk(K, l))

-----------------------------------------------------------------------------
Outside == {e \in Elem : \A l \in List : e \notin ToSet(seq[l])}
Sorted(s) == \A i, j \in DOMAIN s : i < j => ~less(s[j], s[i])
Change(K, l, s) == links' = K /\ seq' = [seq EXCEPT ![l] = s]

Insert(l, e, i) ==
  Change(list_insert(links, IF i > Len(seq[l]) THEN list_tail(l) ELSE seq[l][i], e),
         l, InsertAt(seq[l], i, e))

Push(l, e) == \/ Change(list_push_front(links, l, e), l, <<e>> \o seq[l])
              \/ Change(list_push_back(links, l, e), l, Append(seq[l], e))

InsertOrdered(l, e) ==
  /\ Sorted(seq[l])
  /\ Change(list_insert_ordered(links, l, e), l,
            LET le == SelectSeq(seq[l], LAMBDA x : ~less(e, x))
                gt == SelectSeq(seq[l], LAMBDA x : less(e, x)) IN le \o <<e>> \o gt)

RemoveElem(l, i) == Change(list_remove(links, seq[l][i]), l, RemoveAt(seq[l], i))

list_pop_front(l) == seq[l] # << >> /\ Change(list_remove(links, list_begin(links, l)), l, Tail(seq[l]))
list_pop_back(l) == seq[l] # << >> /\ Change(list_remove(links, list_rbegin(links, l)), l, Front(seq[l]))

Reverse_(l) == Change(list_reverse(links, l), l, Reverse(seq[l]))

(* The elements i to j - 1 of list l go in front of element k of list m,
   which is not one of them: every caller of list_splice() keeps to this.  *)
Splice(l, i, j, m, k) ==
  LET At(x, n) == IF n > Len(seq[x]) THEN list_tail(x) ELSE seq[x][n]
      moved == SubSeq(seq[l], i, j - 1)
      rest == SubSeq(seq[l], 1, i - 1) \o SubSeq(seq[l], j, Len(seq[l]))
      to == IF l # m THEN seq[m] ELSE rest
      at == IF l = m /\ k >= j THEN k - (j - i) ELSE k
  IN /\ i <= j /\ (l = m => k < i \/ k >= j)
     /\ links' = list_splice(links, At(m, k), At(l, i), At(l, j))
     /\ seq' = [seq EXCEPT ![l] = rest, ![m] = SubSeq(to, 1, at - 1) \o moved \o SubSeq(to, at, Len(to))]

Unique(l, d) ==
  LET s == seq[l]
      First(i) == i = 1 \/ key[s[i]] # key[s[i - 1]]
      Part(v) == [i \in 1 .. Len(SelectSeq([n \in DOMAIN s |-> <<n, First(n)>>], LAMBDA p : p[2] = v))
                    |-> s[SelectSeq([n \in DOMAIN s |-> <<n, First(n)>>], LAMBDA p : p[2] = v)[i][1]]]
  IN /\ l # d /\ links' = list_unique(links, l, d)
     /\ seq' = [seq EXCEPT ![l] = Part(TRUE), ![d] = @ \o Part(FALSE)]

Next == \E l, m \in List :
  \/ \E e \in Outside : Push(l, e) \/ InsertOrdered(l, e) \/ \E i \in 1 .. Len(seq[l]) + 1 : Insert(l, e, i)
  \/ \E i \in DOMAIN seq[l] : RemoveElem(l, i)
  \/ list_pop_front(l) \/ list_pop_back(l) \/ Reverse_(l) \/ Unique(l, m)
  \/ \E i, j \in 1 .. Len(seq[l]) + 1, k \in 1 .. Len(seq[m]) + 1 : Splice(l, i, j, m, k)

Spec == list_init /\ [][Next]_vars

-----------------------------------------------------------------------------
(* After any sequence of operations on the links, each list read forwards
   and backwards is the sequence the same operations make, so no element is
   lost, doubled or shared between lists.                                  *)
LinksMatch ==
  \A l \in List :
    /\ Walk(links, l) = seq[l] /\ Nodes(links, l)[Len(seq[l])] = list_tail(l)
    /\ \A i \in DOMAIN seq[l] : links.prev[seq[l][i]] = IF i = 1 THEN list_head(l) ELSE seq[l][i - 1]
    /\ list_rbegin(links, l) = IF seq[l] = << >> THEN list_head(l) ELSE Last(seq[l])

(* "If there is more than one maximum, returns the one that appears earlier
   in the list", and the tail for an empty list; list_min() likewise.      *)
ExtremesFirst ==
  \A l \in List : LET s == seq[l] IN
    IF s = << >> THEN list_max(links, l) = list_tail(l) /\ list_min(links, l) = list_tail(l)
    ELSE /\ \E i \in DOMAIN s : /\ list_max(links, l) = s[i]
                                /\ \A j \in DOMAIN s : ~less(s[i], s[j]) /\ (j < i => less(s[j], s[i]))
         /\ \E i \in DOMAIN s : /\ list_min(links, l) = s[i]
                                /\ \A j \in DOMAIN s : ~less(s[j], s[i]) /\ (j < i => less(s[i], s[j]))
=============================================================================
