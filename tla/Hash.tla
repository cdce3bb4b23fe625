-------------------------------- MODULE Hash --------------------------------
(***************************************************************************)
(* lib/kernel/hash.c: chained buckets whose number follows the number of   *)
(* elements, when malloc() lets it.  An element is a key and an object     *)
(* with that key; its hash is the key.                                     *)
(***************************************************************************)
EXTENDS Integers, Sequences, SequencesExt, FiniteSetsExt

CONSTANTS
  Key, Twin,                \* Twin is the key that two objects have
  MinBuckets,               \* 4 in the code, scaled to the small tables here
  BEST_ELEMS_PER_BUCKET,    \* 2 in the code
  NULL

Elem == (Key \X {1}) \cup ({Twin} \X {2})
KeyOf(e) == e[1]

VARIABLES
  buckets,    \* sequence of lists; bucket_cnt is its length
  elem_cnt,
  ret,        \* what the last operation returned
  it          \* a hash_iterator: NULL or [bucket, pos, seen], seen is a ghost

vars == <<buckets, elem_cnt, ret, it>>
bucket_cnt == Len(buckets)

hash_init == buckets = [i \in 1 .. MinBuckets |-> << >>] /\ elem_cnt = 0 /\ ret = NULL /\ it = NULL

(* hash & (bucket_cnt - 1), for a power of two.                            *)
find_bucket(cnt, e) == (KeyOf(e) % cnt) + 1
find_elem(bucket, e) ==
  LET found == SelectSeq(bucket, LAMBDA x : KeyOf(x) = KeyOf(e)) IN
  IF found = << >> THEN NULL ELSE found[1]

insert_elem(bs, b, e) == [bs EXCEPT ![b] = <<e>> \o @]
remove_elem(bs, b, e) == [bs EXCEPT ![b] = SelectSeq(@, LAMBDA x : x # e)]

turn_off_least_1bit(x) == x - Max({p \in {1, 2, 4, 8, 16} : x % p = 0})
is_power_of_2(x) == x # 0 /\ turn_off_least_1bit(x) = 0

\* Mutant: the count is not rounded to a power of two.
Ideal_any(cnt) == Max({cnt \div BEST_ELEMS_PER_BUCKET, MinBuckets})

Ideal(cnt) ==
  LET F[n \in Nat] == IF is_power_of_2(n) THEN n ELSE F[turn_off_least_1bit(n)]
  IN F[Max({cnt \div BEST_ELEMS_PER_BUCKET, MinBuckets})]

\* Mutant: each element keeps the number of its old bucket.
NewBucket_old(cnt, i, e) == ((i - 1) % cnt) + 1
NewBucket(cnt, i, e) == find_bucket(cnt, e)

(* rehash(): from bs, with cnt elements, to one of the outcomes malloc()
   allows.  The old elements are pushed one by one to the new fronts.      *)
rehash(bs, cnt) ==
  LET new == Ideal(cnt)
      Move(i, to, e) == insert_elem(to, NewBucket(new, i, e), e)
      MoveBucket(to, i) == FoldLeft(LAMBDA t, e : Move(i, t, e), to, bs[i])
      moved == FoldLeft(MoveBucket, [i \in 1 .. new |-> << >>], [i \in DOMAIN bs |-> i])
  IN IF new = Len(bs) THEN {bs} ELSE {bs, moved}

Finish(bs, cnt, r) ==
  /\ buckets' \in rehash(bs, cnt) /\ elem_cnt' = cnt /\ ret' = r /\ it' = NULL

hash_insert(e) ==
  LET b == find_bucket(bucket_cnt, e)  old == find_elem(buckets[b], e) IN
  IF old = NULL THEN Finish(insert_elem(buckets, b, e), elem_cnt + 1, old)
  ELSE Finish(buckets, elem_cnt, old)

hash_replace(e) ==
  LET b == find_bucket(bucket_cnt, e)  old == find_elem(buckets[b], e) IN
  Finish(insert_elem(remove_elem(buckets, b, old), b, e),
         IF old = NULL THEN elem_cnt + 1 ELSE elem_cnt, old)

hash_find(e) ==
  ret' = find_elem(buckets[find_bucket(bucket_cnt, e)], e) /\ UNCHANGED <<buckets, elem_cnt, it>>

hash_delete(e) ==
  LET b == find_bucket(bucket_cnt, e)  found == find_elem(buckets[b], e) IN
  IF found = NULL THEN ret' = NULL /\ it' = NULL /\ UNCHANGED <<buckets, elem_cnt>>
  ELSE Finish(remove_elem(buckets, b, found), elem_cnt - 1, found)

(* hash_clear(): the number of buckets stays.                              *)
hash_clear ==
  /\ buckets' = [i \in DOMAIN buckets |-> << >>] /\ elem_cnt' = 0
  /\ ret' = NULL /\ it' = NULL

hash_first == it' = [bucket |-> 1, pos |-> 0, seen |-> << >>] /\ UNCHANGED <<buckets, elem_cnt, ret>>

\* Mutant: one empty bucket ends the iteration.
NextFull_one(b) == IF b < bucket_cnt /\ buckets[b + 1] # << >> THEN b + 1 ELSE 0

(* The while loop of hash_next(): the next bucket with an element, or 0.   *)
NextFull(b) ==
  LET full == {i \in b + 1 .. bucket_cnt : buckets[i] # << >>} IN IF full = {} THEN 0 ELSE Min(full)

(* hash_next(); after the last element the iterator holds no bucket.       *)
hash_next ==
  /\ it # NULL /\ it.bucket # 0
  /\ it' = IF it.pos < Len(buckets[it.bucket])
           THEN [it EXCEPT !.pos = @ + 1, !.seen = Append(@, buckets[it.bucket][it.pos + 1])]
           ELSE LET b == NextFull(it.bucket) IN
                IF b = 0 THEN [it EXCEPT !.bucket = 0, !.pos = 0]
                ELSE [it EXCEPT !.bucket = b, !.pos = 1, !.seen = Append(@, buckets[b][1])]
  /\ UNCHANGED <<buckets, elem_cnt, ret>>

Next ==
  \/ hash_clear \/ hash_first \/ hash_next
  \/ \E e \in Elem : hash_insert(e) \/ hash_replace(e) \/ hash_find(e) \/ hash_delete(e)

Spec == hash_init /\ [][Next]_vars

-----------------------------------------------------------------------------
Elements == UNION {ToSet(buckets[i]) : i \in DOMAIN buckets}

D == INSTANCE Dictionary WITH elems <- Elements

(* The table behaves as a set of elements with distinct keys, whichever
   reallocations of the buckets succeed.                                   *)
IsDictionary == D!Spec

(* elem_cnt is the number of elements in all buckets together, and the
   mask of find_bucket() always meets a power of two.                      *)
CountExact ==
  /\ elem_cnt = MapThenSumSet(LAMBDA i : Len(buckets[i]), DOMAIN buckets)
  /\ bucket_cnt \in {1, 2, 4, 8, 16}

(* An iteration that ends has returned every element exactly once, in the
   order of hash_apply() and hash_clear().                                 *)
IterationComplete ==
  it # NULL /\ it.bucket = 0 =>
    it.seen = FlattenSeq([i \in DOMAIN buckets |-> buckets[i]])
=============================================================================
