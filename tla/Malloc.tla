------------------------------- MODULE Malloc -------------------------------
(***************************************************************************)
(* threads/malloc.c: blocks of the sizes of the descriptors, cut from      *)
(* arenas of one page, and big blocks of whole pages.  malloc() and free() *)
(* do their work under the descriptor's lock and are steps; realloc() is   *)
(* an allocation and, later, a free.  The page allocator underneath is     *)
(* the one of module PageAllocator.                                        *)
(***************************************************************************)
EXTENDS Integers, Sequences, SequencesExt, FiniteSetsExt

CONSTANTS
  PGSIZE, Header,   \* the size of a page and of struct arena
  MinBlock,         \* the smallest block, 16 in the code
  NPages,           \* pages of the kernel pool
  Sizes,            \* bound: the sizes asked for
  SizeMod,          \* 2 to the number of bits of size_t
  MaxBlocks         \* bound: blocks in use

Page == 1 .. NPages
Big == -1           \* the index of a big block in its arena

VARIABLES
  free_pages,
  desc, free_cnt,   \* the arena headers: 0 for a big block's, as for no arena
  free_list,        \* a sequence of blocks <<page, index>> for each descriptor
  want,             \* for each block in use, the size its owner asked for
  moving            \* old blocks of realloc() calls under way

vars == <<free_pages, desc, free_cnt, free_list, want, moving>>

(* malloc_init(): the descriptors' block sizes, doubling below half a page. *)
descs == {s \in {MinBlock * 2 ^ k : k \in 0 .. 8} : 2 * s < PGSIZE}
blocks_per_arena(s) == (PGSIZE - Header) \div s

malloc_init ==
  /\ free_pages = Page
  /\ desc = [p \in Page |-> 0] /\ free_cnt = [p \in Page |-> 0]
  /\ free_list = [s \in descs |-> << >>]
  /\ want = << >> /\ moving = {}

TypeOK ==
  /\ free_pages \subseteq Page
  /\ desc \in [Page -> descs \cup {0}] /\ free_cnt \in [Page -> 0 .. PGSIZE]
  /\ DOMAIN free_list = descs
  /\ \A b \in DOMAIN want : b[1] \in Page /\ want[b] \in Nat
  /\ moving \subseteq DOMAIN want

-----------------------------------------------------------------------------
DivRoundUp(a, b) == (a + b - 1) \div b

\* palloc_get_multiple(): the first group of n free pages, if there is one.
Groups(n) == {p \in Page : p .. p + n - 1 \subseteq free_pages}

arena_to_block(a, idx) == <<a, idx>>
block_to_arena(b) == b[1]


PagesFor(size) == DivRoundUp(size + Header, PGSIZE)

(* A request too big for any descriptor.                                   *)
MallocBig(size, sz) ==
  /\ \A s \in descs : s < size
  /\ LET n == PagesFor(size)  a == Min(Groups(n)) IN
     IF Groups(n) = {} THEN FALSE
     ELSE /\ free_pages' = free_pages \ (a .. a + n - 1)
          /\ desc' = [desc EXCEPT ![a] = 0] /\ free_cnt' = [free_cnt EXCEPT ![a] = n]
          /\ want' = want @@ (arena_to_block(a, Big) :> sz)
          /\ UNCHANGED free_list

(* The smallest descriptor that satisfies the request, a new arena when its
   list is empty, and the first block of the list.                         *)
MallocBlock(size, sz) ==
  \E d \in descs :
    /\ d >= size /\ \A s \in descs : s >= size => d <= s
    /\ LET fresh == free_list[d] = << >>
           a == IF fresh THEN Min(Groups(1)) ELSE block_to_arena(Head(free_list[d]))
           list == IF fresh THEN [i \in 1 .. blocks_per_arena(d) |-> arena_to_block(a, i - 1)]
                   ELSE free_list[d]
       IN IF fresh /\ Groups(1) = {} THEN FALSE
          ELSE /\ free_pages' = free_pages \ {a}
               /\ desc' = [desc EXCEPT ![a] = d]
               /\ free_cnt' = [free_cnt EXCEPT ![a] = (IF fresh THEN blocks_per_arena(d) ELSE @) - 1]
               /\ free_list' = [free_list EXCEPT ![d] = Tail(list)]
               /\ want' = want @@ (Head(list) :> sz)

(* malloc(): a null pointer for no bytes or when memory runs out.  sz is
   the size its caller has in mind.                                        *)
malloc(size, sz) == size > 0 /\ (MallocBlock(size, sz) \/ MallocBig(size, sz))

Bounded == Cardinality(DOMAIN want) < MaxBlocks

Alloc(size) == Bounded /\ malloc(size, size) /\ UNCHANGED moving

(* calloc(): the product in size_t, with its overflow test.                *)
calloc(a, b) ==
  LET size == (a * b) % SizeMod IN
  /\ Bounded /\ ~(size < a \/ size < b)
  /\ malloc(size, a * b) /\ UNCHANGED moving

\* Mutant: only the first page of a big block is freed.
BigPages_first(a) == {a}

BigPages(a) == a .. a + free_cnt[a] - 1

\* Mutant: the blocks of a freed arena stay on the list.
Purged_kept(list, a) == list

Purged(list, a) == SelectSeq(list, LAMBDA b : block_to_arena(b) # a)

(* free() of a block in use.                                               *)
free(b) ==
  LET a == block_to_arena(b)  d == desc[a] IN
  /\ want' = [x \in DOMAIN want \ {b} |-> want[x]]
  /\ IF d = 0
     THEN /\ free_pages' = free_pages \cup BigPages(a)
          /\ UNCHANGED <<desc, free_cnt, free_list>>
     ELSE IF free_cnt[a] + 1 >= blocks_per_arena(d)
     THEN /\ free_list' = [free_list EXCEPT ![d] = Purged(<<b>> \o @, a)]
          /\ free_pages' = free_pages \cup {a}
          /\ desc' = [desc EXCEPT ![a] = 0] /\ free_cnt' = [free_cnt EXCEPT ![a] = 0]
     ELSE /\ free_list' = [free_list EXCEPT ![d] = <<b>> \o @]
          /\ free_cnt' = [free_cnt EXCEPT ![a] = @ + 1]
          /\ UNCHANGED <<free_pages, desc>>

\* Mutant: a big block's header is counted as its own.
block_size_whole(b) == IF b[2] = Big THEN PGSIZE * free_cnt[b[1]] ELSE desc[b[1]]

block_size(b) == IF b[2] = Big THEN PGSIZE * free_cnt[b[1]] - Header ELSE desc[b[1]]

(* realloc(): a new block first; the old one is copied and freed if that
   succeeds.                                                               *)
realloc(old, new_size) ==
  \/ new_size = 0 /\ free(old) /\ UNCHANGED moving
  \/ Bounded /\ malloc(new_size, new_size) /\ moving' = moving \cup {old}

Moved(old) == old \in moving /\ free(old) /\ moving' = moving \ {old}

Next ==
  \/ \E size \in Sizes : Alloc(size)
  \/ \E a, b \in Sizes : calloc(a, b)
  \/ \E b \in DOMAIN want \ moving : \/ free(b) /\ UNCHANGED moving
                                     \/ \E size \in Sizes : realloc(b, size)
  \/ \E b \in moving : Moved(b)

Spec == malloc_init /\ [][Next]_vars

-----------------------------------------------------------------------------
\* The first and the last byte of a block, as offsets from the first page.
Start(b) == PGSIZE * b[1] + Header + (IF b[2] = Big THEN 0 ELSE b[2] * desc[b[1]])
Final(b) == Start(b) + block_size(b) - 1
Pages(b) == Start(b) \div PGSIZE .. Final(b) \div PGSIZE

(* malloc() hands out memory that is nobody else's: blocks in use lie in
   allocated pages, behind the arena's header, and do not overlap.         *)
BlocksDisjoint ==
  \A b \in DOMAIN want :
    /\ Pages(b) \cap free_pages = {}
    /\ \A c \in DOMAIN want \ {b} : Final(b) < Start(c) \/ Final(c) < Start(b)
    /\ b[2] # Big => Pages(b) = {b[1]}

(* The count in an arena's header, the descriptor's list and the blocks in
   use agree: every block of an arena is on the list once or in use, and an
   arena is kept only while one of its blocks is in use.                   *)
ListsExact ==
  /\ \A d \in descs :
       /\ IsInjective(free_list[d])
       /\ Range(free_list[d]) = {b \in {a \in Page : desc[a] = d} \X (0 .. blocks_per_arena(d) - 1) :
                                    b \notin DOMAIN want}
  /\ \A a \in Page : desc[a] # 0 =>
       /\ free_cnt[a] = Len(SelectSeq(free_list[desc[a]], LAMBDA b : b[1] = a))
       /\ free_cnt[a] < blocks_per_arena(desc[a])

(* No page is lost: the pages that are not free are those of arenas and of
   big blocks in use.                                                      *)
PagesAccounted ==
  free_pages = Page \ UNION ({Pages(b) : b \in DOMAIN want} \cup {{a} : a \in {a \in Page : desc[a] # 0}})

(* "Obtains and returns a new block of at least SIZE bytes", and calloc()
   "A times B bytes".                                                      *)
BigEnough == \A b \in DOMAIN want : block_size(b) >= want[b]
=============================================================================
