------------------------------ MODULE PageDir -------------------------------
(***************************************************************************)
(* userprog/pagedir.c and paging_init() of threads/init.c: page tables of  *)
(* two directories, and the translation buffer of the CPU, which keeps     *)
(* entries of the active one until it is reloaded.  A page number has a    *)
(* table index and an index in the table.                                  *)
(***************************************************************************)
EXTENDS Integers, FiniteSets, Functions, TLC

CONSTANTS
  Pd,             \* page directories of processes
  Frame,          \* frames of the user pool
  Upage,          \* user pages, as <<table index, index in the table>>
  PerTable,       \* entries of a page table
  Text,           \* pages of RAM that hold kernel code
  RamPages,       \* init_ram_pages
  NULL

pd_no(v) == v[1]
InitPd == "init"

VARIABLES
  page,       \* local variable of paging_init()
  kpt,        \* its local variable pt: the table it fills
  kernel,     \* init_page_dir: table index -> entries, part of every directory
  pt,         \* directory -> table index -> its entries, for the tables it has
  active,     \* CR3
  tlb         \* cached user entries: upage -> entry

vars == <<page, kpt, kernel, pt, active, tlb>>
boot == <<page, kpt, kernel>>

Init == /\ page = 0 /\ kpt = NULL /\ kernel = << >>
        /\ pt = [d \in Pd |-> << >>]      \* pagedir_create()
        /\ active = InitPd /\ tlb = << >>

(* paging_init(), one turn of its loop: a table is allocated for the first
   page that needs it, and filled through pt from then on.                 *)
\* Mutant: the last page of RAM is left out.
MorePages_short == page < RamPages - 1
MorePages == page < RamPages

paging_init ==
  /\ MorePages
  /\ LET t == page \div PerTable
         new == t \notin DOMAIN kernel
         k == IF new THEN t ELSE kpt
         tables == IF new THEN (t :> << >>) @@ kernel ELSE kernel IN
     /\ kpt' = k
     /\ kernel' = [tables EXCEPT ![k] = ((page % PerTable) :> [ram |-> page, w |-> page \notin Text]) @@ @]
  /\ page' = page + 1 /\ UNCHANGED <<pt, active, tlb>>

(* lookup_page() without create: NULL, or the entry (not present at first). *)
Zero == [frame |-> NULL, p |-> FALSE, w |-> FALSE, a |-> FALSE, d |-> FALSE]
lookup_page(d, v) == IF pd_no(v) \in DOMAIN pt[d] THEN pt[d][pd_no(v)][v[2]] ELSE NULL

(* What the processor finds: through the buffer, or in the tables.         *)
Cached(v) == IF v \in DOMAIN tlb THEN tlb[v] ELSE NULL
Present(e) == e # NULL /\ e.p

\* Mutant: the buffer is reloaded only for another directory.
invalidate_pagedir_other(d) == IF active # d THEN << >> ELSE tlb
invalidate_pagedir(d) == IF active = d THEN << >> ELSE tlb

pagedir_activate(d) == active' = d /\ tlb' = << >> /\ UNCHANGED <<boot, pt>>

SetPte(d, v, e) == pt' = [pt EXCEPT ![d][pd_no(v)][v[2]] = e]

(* pagedir_set_page(): creates the table if there is memory for it.        *)
pagedir_set_page(d, v, k, w) ==
  LET e == [frame |-> k, p |-> TRUE, w |-> w, a |-> FALSE, d |-> FALSE] IN
  /\ ~Present(lookup_page(d, v))
  /\ \A c \in Pd, u \in Upage : Present(lookup_page(c, u)) => lookup_page(c, u).frame # k
  /\ IF pd_no(v) \in DOMAIN pt[d] THEN SetPte(d, v, e)
     ELSE pt' = [pt EXCEPT ![d] = (pd_no(v) :> [[i \in 0 .. PerTable - 1 |-> Zero] EXCEPT ![v[2]] = e]) @@ @]
  /\ UNCHANGED <<boot, active, tlb>>

(* The other bits stay.                                                    *)
pagedir_clear_page(d, v) ==
  /\ Present(lookup_page(d, v))
  /\ SetPte(d, v, [lookup_page(d, v) EXCEPT !.p = FALSE])
  /\ tlb' = invalidate_pagedir(d) /\ UNCHANGED <<boot, active>>

\* Mutant: a bit is cleared behind the processor's back.
AfterClear_stale(d) == tlb
AfterClear(d) == invalidate_pagedir(d)

pagedir_set_dirty(d, v, b) ==
  /\ lookup_page(d, v) # NULL
  /\ SetPte(d, v, [lookup_page(d, v) EXCEPT !.d = b])
  /\ tlb' = (IF b THEN tlb ELSE AfterClear(d)) /\ UNCHANGED <<boot, active>>

pagedir_set_accessed(d, v, b) ==
  /\ lookup_page(d, v) # NULL
  /\ SetPte(d, v, [lookup_page(d, v) EXCEPT !.a = b])
  /\ tlb' = (IF b THEN tlb ELSE AfterClear(d)) /\ UNCHANGED <<boot, active>>

(* pagedir_destroy(), for a directory that is not active, and a new one.   *)
pagedir_destroy(d) == active # d /\ pt' = [pt EXCEPT ![d] = << >>] /\ UNCHANGED <<boot, active, tlb>>

(* The processor: an access loads the entry into the buffer and sets the
   accessed bit; a write sets the dirty bit, unless the buffer's copy says
   that it is set already.                                                 *)
CpuAccess(v, write) ==
  /\ active \in Pd
  /\ LET c == Cached(v)
         e == IF c # NULL THEN c ELSE lookup_page(active, v) IN
     /\ Present(e) /\ (write => e.w)
     /\ LET new == [e EXCEPT !.a = TRUE, !.d = @ \/ write] IN
        /\ tlb' = (v :> new) @@ tlb
        /\ IF new = c THEN UNCHANGED pt ELSE SetPte(active, v, new)
  /\ UNCHANGED <<boot, active>>

Running ==
  \/ \E d \in Pd \cup {InitPd} : pagedir_activate(d)
  \/ \E d \in Pd : pagedir_destroy(d)
  \/ \E v \in Upage, w \in BOOLEAN : CpuAccess(v, w)
  \/ \E d \in Pd, v \in Upage :
       \/ pagedir_clear_page(d, v)
       \/ \E b \in BOOLEAN : pagedir_set_dirty(d, v, b) \/ pagedir_set_accessed(d, v, b)
       \/ \E k \in Frame, w \in BOOLEAN : pagedir_set_page(d, v, k, w)

Next == paging_init \/ (~MorePages /\ Running)

Spec == Init /\ [][Next]_vars

-----------------------------------------------------------------------------
(* The buffer never maps a page that the active directory does not map in
   the same way: a cleared page faults at once.                            *)
TlbFresh ==
  \A v \in DOMAIN tlb : LET e == lookup_page(active, v) IN
    active \in Pd /\ Present(e) /\ e.frame = tlb[v].frame /\ e.w = tlb[v].w

(* "true if the page has been modified since the PTE was installed": a write
   after the dirty or the accessed bit was cleared sets it again, because
   the buffer never believes a bit set that the tables have clear.         *)
BitsNotLost ==
  \A v \in DOMAIN tlb : LET e == lookup_page(active, v) IN
    e # NULL /\ (tlb[v].d => e.d) /\ (tlb[v].a => e.a)

(* Once memory management runs, every page of RAM is mapped at its own
   place, and the pages of the kernel's code cannot be written.            *)
KernelMapped ==
  active \in Pd \/ tlb # << >> \/ (\E d \in Pd : pt[d] # << >>) =>
    \A n \in 0 .. RamPages - 1 :
      /\ n \div PerTable \in DOMAIN kernel
      /\ n % PerTable \in DOMAIN kernel[n \div PerTable]
      /\ kernel[n \div PerTable][n % PerTable] = [ram |-> n, w |-> n \notin Text]
=============================================================================
