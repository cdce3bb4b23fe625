------------------------------ MODULE ElfLoad -------------------------------
(***************************************************************************)
(* load() of userprog/process.c: the program headers of an executable, the *)
(* validation of each, the pages of its segments and the stack.  Addresses *)
(* are scaled down and wrap at Wrap, as 32-bit ones do at 2^32.            *)
(***************************************************************************)
EXTENDS Integers, Sequences, FiniteSets, TLC

CONSTANTS
  Wrap, PGSIZE, PHYS_BASE,
  FileLength,     \* bytes of the executable; byte i has the value i + 1
  Offsets, Addresses, Sizes,     \* values of the fields of a program header
  MaxPhdr,        \* program headers of an executable
  FreePages       \* pages of the user pool

Phdr == [p_offset : Offsets, p_vaddr : Addresses, p_filesz : Sizes, p_memsz : Sizes,
         w : BOOLEAN]

VARIABLES
  pc,
  phdrs,      \* the PT_LOAD headers that were accepted so far
  todo,       \* arguments and local variables of load_segment()
  space,      \* the address space: page number -> its bytes and writable
  free        \* pages left in the user pool

vars == <<pc, phdrs, todo, space, free>>

Init == /\ pc = "header" /\ phdrs = << >> /\ todo = << >>
        /\ space = << >> /\ free = FreePages

Goto(l) == pc' = l
Sum(a, b) == (a + b) % Wrap
PageOffset(a) == a % PGSIZE
ROUND_UP(x) == (((x + PGSIZE - 1) % Wrap) \div PGSIZE) * PGSIZE
is_user_vaddr(a) == a < PHYS_BASE

(* The file is opened and its header read and verified; or not.            *)
ReadHeader == /\ pc = "header"
              /\ Goto("phdr") \/ Goto("failed")
              /\ UNCHANGED <<phdrs, todo, space, free>>

\* Mutants: a region that wraps around is accepted; so is page 0.
Wraps_never(p) == FALSE
Wraps(p) == Sum(p.p_vaddr, p.p_memsz) < p.p_vaddr
InPageZero_never(p) == FALSE
InPageZero(p) == p.p_vaddr < PGSIZE

validate_segment(p) ==
  /\ PageOffset(p.p_offset) = PageOffset(p.p_vaddr)
  /\ p.p_offset <= FileLength
  /\ p.p_memsz >= p.p_filesz
  /\ p.p_memsz # 0
  /\ is_user_vaddr(p.p_vaddr)
  /\ is_user_vaddr(Sum(p.p_vaddr, p.p_memsz))
  /\ ~Wraps(p)
  /\ ~InPageZero(p)

(* What load() passes to load_segment().                                   *)
Segment(p) ==
  LET offset == PageOffset(p.p_vaddr)
      read == IF p.p_filesz > 0 THEN Sum(offset, p.p_filesz) ELSE 0 IN
  [pos |-> p.p_offset - PageOffset(p.p_offset),
   upage |-> p.p_vaddr \div PGSIZE,
   read |-> read,
   zero |-> (ROUND_UP(Sum(offset, p.p_memsz)) - read) % Wrap,
   w |-> p.w]

(* One turn of the loop over the program headers, or its end.  A header of
   another type is passed over or makes load() fail; so does one that
   cannot be read.                                                         *)
ReadPhdr ==
  /\ pc = "phdr"
  /\ \/ /\ Len(phdrs) < MaxPhdr
        /\ \E p \in {q \in Phdr : validate_segment(q)} :
             phdrs' = Append(phdrs, p) /\ todo' = Segment(p)
        /\ Goto("segment")
     \/ Goto("stack") /\ UNCHANGED <<phdrs, todo>>
     \/ Goto("failed") /\ UNCHANGED <<phdrs, todo>>
  /\ UNCHANGED <<space, free>>

FileByte(i) == i + 1
Contents(pos, n) == [i \in 0 .. PGSIZE - 1 |-> IF i < n THEN FileByte(pos + i) ELSE 0]

(* install_page(): it fails if the page is mapped already, or when there
   is no memory for a page table.                                          *)
Mapped(u) == u \in DOMAIN space
install_page(u, bytes, w) == space' = (u :> [bytes |-> bytes, w |-> w]) @@ space

\* Mutant: the page is not given back when it cannot be installed.
Returned_not == free' = free - 1
Returned == UNCHANGED free

(* load_segment(), one turn: a page is taken, filled and installed.        *)
LoadPage ==
  LET n == IF todo.read < PGSIZE THEN todo.read ELSE PGSIZE IN
  /\ pc = "segment" /\ (todo.read > 0 \/ todo.zero > 0)
  /\ \/ free = 0 /\ Goto("failed") /\ UNCHANGED <<space, free, todo>>
     \/ free > 0 /\ todo.pos + n > FileLength        \* short read
        /\ n > 0 /\ Goto("failed") /\ UNCHANGED <<space, free, todo>>
     \/ free > 0 /\ Goto("failed") /\ Returned /\ UNCHANGED <<space, todo>>
     \/ /\ free > 0 /\ (n = 0 \/ todo.pos + n <= FileLength)
        /\ ~Mapped(todo.upage)
        /\ install_page(todo.upage, Contents(todo.pos, n), todo.w)
        /\ free' = free - 1
        /\ todo' = [todo EXCEPT !.read = @ - n, !.zero = @ - (PGSIZE - n),
                                !.upage = @ + 1, !.pos = @ + n]
        /\ UNCHANGED pc
  /\ UNCHANGED phdrs

SegmentLoaded ==
  /\ pc = "segment" /\ todo.read = 0 /\ todo.zero = 0
  /\ Goto("phdr") /\ todo' = << >> /\ UNCHANGED <<phdrs, space, free>>

StackPage == (PHYS_BASE \div PGSIZE) - 1

setup_stack ==
  /\ pc = "stack"
  /\ \/ /\ free > 0 /\ ~Mapped(StackPage)
        /\ install_page(StackPage, Contents(0, 0), TRUE)
        /\ free' = free - 1 /\ Goto("loaded")
     \/ Goto("failed") /\ Returned /\ UNCHANGED space
  /\ UNCHANGED <<phdrs, todo>>

Done == pc \in {"loaded", "failed"} /\ UNCHANGED vars

Next == ReadHeader \/ ReadPhdr \/ LoadPage \/ SegmentLoaded \/ setup_stack \/ Done

Spec == Init /\ [][Next]_vars

-----------------------------------------------------------------------------
(* In a program that was loaded each byte of each segment has the value
   the file gives it, or zero behind the part that is in the file: no
   segment has overwritten another, and all of it is there.                *)
LoadedAsWritten ==
  pc = "loaded" => \A k \in 1 .. Len(phdrs) :
    LET p == phdrs[k] IN \A i \in 0 .. p.p_memsz - 1 :
      LET a == p.p_vaddr + i IN
      /\ Mapped(a \div PGSIZE) /\ space[a \div PGSIZE].w = p.w
      /\ space[a \div PGSIZE].bytes[a % PGSIZE]
           = IF i < p.p_filesz THEN FileByte(p.p_offset + i) ELSE 0

(* Only user pages are mapped and never page 0, whatever the file says.    *)
UserPagesOnly == DOMAIN space \subseteq 1 .. StackPage

(* Each page that was taken is in the address space, where process_exit()
   finds it: a load that fails loses none.                                 *)
NoPageLost == free = FreePages - Cardinality(DOMAIN space)
=============================================================================
