------------------------------- MODULE Palloc -------------------------------
(***************************************************************************)
(* threads/palloc.c over lib/kernel/bitmap.c: two pools of pages, each     *)
(* with a bitmap of used pages and a lock.  palloc_get_multiple() scans    *)
(* and marks the bitmap bit by bit under the lock; palloc_free_multiple()  *)
(* clears bits one by one WITHOUT the lock.  Single bits change atomically *)
(* (bitmap_mark() and bitmap_reset() are one instruction).                 *)
(***************************************************************************)
EXTENDS Integers, FiniteSets

CONSTANTS
  Thread, NULL,
  FreePages,       \* pages from 1 MB to the end of memory
  UserLimit,       \* the argument of palloc_init()
  PGSIZE,
  MaxCnt           \* bound: pages asked for at once

(* palloc_init() and init_pool(): half of memory, but at most UserLimit
   pages, is the user pool, and each pool's first pages hold its bitmap.   *)
UserPages == IF FreePages \div 2 > UserLimit THEN UserLimit ELSE FreePages \div 2
DivRoundUp(a, b) == (a + b - 1) \div b
bitmap_buf_size(n) == 8 + 4 * DivRoundUp(n, 32)
BitmapPages(n) == DivRoundUp(bitmap_buf_size(n), PGSIZE)

init_pool(base, n) == [base |-> base + BitmapPages(n), size |-> n - BitmapPages(n)]

Pool == {"kernel", "user"}
pool == [p \in Pool |-> IF p = "kernel" THEN init_pool(0, FreePages - UserPages)
                        ELSE init_pool(FreePages - UserPages, UserPages)]

page_from_pool(p, page) == page >= pool[p].base /\ page < pool[p].base + pool[p].size
Page == {page \in 0 .. FreePages - 1 : \E p \in Pool : page_from_pool(p, page)}

VARIABLES
  used,       \* the pages whose bit is set
  lock,       \* the holder of each pool's lock
  owned,      \* the pages a thread has been given and has not given back
  op,         \* the call a thread is in
  panicked

vars == <<used, lock, owned, op, panicked>>

Idle == [pc |-> "idle", pool |-> NULL, first |-> 0, k |-> 0, cnt |-> 0, must |-> FALSE, hope |-> FALSE]

TypeOK ==
  /\ used \subseteq Page /\ lock \in [Pool -> Thread \cup {NULL}]
  /\ owned \in [Thread -> SUBSET Page] /\ panicked \in BOOLEAN
  /\ \A t \in Thread : /\ op[t].pc \in {"idle", "scan", "mark", "clear"}
                       /\ op[t].pool \in Pool \cup {NULL}
                       /\ op[t].k \in 0 .. MaxCnt /\ op[t].cnt \in 0 .. MaxCnt

Init == /\ used = {} /\ lock = [p \in Pool |-> NULL]
        /\ owned = [t \in Thread |-> {}]
        /\ op = [t \in Thread |-> Idle] /\ panicked = FALSE

Group(first, cnt) == first .. first + cnt - 1
\* A group of cnt free pages exists in pool p.
Room(p, cnt) == \E i \in Page : \A j \in Group(i, cnt) : page_from_pool(p, j) /\ j \notin used

\* Mutant: the lock is not waited for.
lock_acquire_free(p, t) == lock' = [lock EXCEPT ![p] = t]

lock_acquire(p, t) == lock[p] = NULL /\ lock' = [lock EXCEPT ![p] = t]

(* palloc_get_multiple(), to the start of the scan.                        *)
palloc_get_multiple(t, p, cnt, must) ==
  /\ op[t] = Idle /\ lock_acquire(p, t)
  /\ op' = [op EXCEPT ![t] = [pc |-> "scan", pool |-> p, first |-> pool[p].base, k |-> 0,
                              cnt |-> cnt, must |-> must, hope |-> Room(p, cnt)]]
  /\ UNCHANGED <<used, owned, panicked>>

\* Mutants: the last position is not tried, and a position beyond it is.
Last_short(p, cnt) == pool[p].base + pool[p].size - cnt - 1
Last_far(p, cnt) == pool[p].base + pool[p].size - cnt + 1

(* bitmap_scan()'s last position.                                          *)
Last(p, cnt) == pool[p].base + pool[p].size - cnt

\* Mutant: the scan does not move past a used page.
Tested_stuck(o) ==
  IF o.first + o.k \in used THEN [o EXCEPT !.k = 0]
  ELSE IF o.k + 1 < o.cnt THEN [o EXCEPT !.k = @ + 1]
  ELSE [o EXCEPT !.pc = "mark", !.k = 0]

(* One bit test of bitmap_contains().                                      *)
Tested(o) ==
  IF o.first + o.k \in used THEN [o EXCEPT !.first = @ + 1, !.k = 0]
  ELSE IF o.k + 1 < o.cnt THEN [o EXCEPT !.k = @ + 1]
  ELSE [o EXCEPT !.pc = "mark", !.k = 0]

(* A step of bitmap_scan(), or its end: BITMAP_ERROR, and a null pointer or
   the panic of PAL_ASSERT.                                                *)
bitmap_scan(t) ==
  LET o == op[t] IN
  /\ o.pc = "scan"
  /\ IF o.first > Last(o.pool, o.cnt)
     THEN /\ op' = [op EXCEPT ![t] = Idle]
          /\ lock' = [lock EXCEPT ![o.pool] = NULL]
          /\ panicked' = o.must
     ELSE op' = [op EXCEPT ![t] = Tested(o)] /\ UNCHANGED <<lock, panicked>>
  /\ UNCHANGED <<used, owned>>

(* One bit of bitmap_set_multiple(); after the last, the lock is released
   and the pages are returned.                                             *)
bitmap_mark(t) ==
  LET o == op[t] IN
  /\ o.pc = "mark"
  /\ used' = used \cup {o.first + o.k}
  /\ IF o.k + 1 < o.cnt
     THEN op' = [op EXCEPT ![t].k = @ + 1] /\ UNCHANGED <<lock, owned>>
     ELSE /\ op' = [op EXCEPT ![t] = Idle]
          /\ lock' = [lock EXCEPT ![o.pool] = NULL]
          /\ owned' = [owned EXCEPT ![t] = @ \cup Group(o.first, o.cnt)]
  /\ UNCHANGED panicked

(* palloc_free_multiple(): the pages are the caller's no more.  Their bits
   are asserted to be set.                                                 *)
palloc_free_multiple(t, first, cnt) ==
  /\ op[t] = Idle /\ Group(first, cnt) \subseteq owned[t]
  /\ owned' = [owned EXCEPT ![t] = @ \ Group(first, cnt)]
  /\ op' = [op EXCEPT ![t] = [Idle EXCEPT !.pc = "clear", !.first = first, !.cnt = cnt]]
  /\ panicked' = ~(Group(first, cnt) \subseteq used)
  /\ UNCHANGED <<used, lock>>

\* Mutants: one bit too many and one too few.
Cleared_over(o) == IF o.k < o.cnt THEN [o EXCEPT !.k = @ + 1] ELSE Idle
Cleared_under(o) == IF o.k + 2 < o.cnt THEN [o EXCEPT !.k = @ + 1] ELSE Idle

Cleared(o) == IF o.k + 1 < o.cnt THEN [o EXCEPT !.k = @ + 1] ELSE Idle

(* One bit of its bitmap_set_multiple().                                   *)
bitmap_reset(t) ==
  /\ op[t].pc = "clear"
  /\ used' = used \ {op[t].first + op[t].k}
  /\ op' = [op EXCEPT ![t] = Cleared(@)]
  /\ UNCHANGED <<lock, owned, panicked>>

Start(t) ==
  \E cnt \in 1 .. MaxCnt :
    \/ \E p \in Pool, must \in BOOLEAN : palloc_get_multiple(t, p, cnt, must)
    \/ \E first \in Page : palloc_free_multiple(t, first, cnt)

Step(t) == bitmap_scan(t) \/ bitmap_mark(t) \/ bitmap_reset(t)

Next == ~panicked /\ \E t \in Thread : Start(t) \/ Step(t)

Spec == Init /\ [][Next]_vars /\ \A t \in Thread : WF_vars(~panicked /\ Step(t))

-----------------------------------------------------------------------------
(* No page is given to two threads, although frees clear bits in the middle
   of other threads' scans, and a page in use keeps its bit.               *)
NoDoubleAllocation ==
  /\ \A t, u \in Thread : t # u => owned[t] \cap owned[u] = {}
  /\ \A t \in Thread : owned[t] \subseteq used

(* No page is lost: when no call is in progress, the bits that are set are
   those of the pages somebody has.                                        *)
NoLeak == (\A t \in Thread : op[t] = Idle) => used = UNION {owned[t] : t \in Thread}

(* palloc_get_multiple() returns a null pointer only when there was no group
   of free pages that large at the time it began to scan.                  *)
FailsOnlyWhenShort ==
  [][\A t \in Thread : (op[t].pc = "scan" /\ op'[t] = Idle) => ~op[t].hope]_vars

(* palloc_free_multiple() never trips over its assertion: a panic is the
   one of PAL_ASSERT.                                                      *)
OnlyAskedPanics == [][panicked' => \E t \in Thread : op[t].must]_vars

(* The allocator, scanning and marking bit by bit, is one that gives out and
   takes back groups of pages in single steps.                             *)
Abstract == INSTANCE PageAllocator
IsPageAllocator == Abstract!ASpec

(* A call that has begun returns.                                          *)
CallsReturn == \A t \in Thread : op[t] # Idle ~> op[t] = Idle \/ panicked
=============================================================================
