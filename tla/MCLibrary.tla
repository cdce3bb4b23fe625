----------------------------- MODULE MCLibrary ------------------------------
(***************************************************************************)
(* The memory allocators, the data structures of lib/kernel, the 64-bit    *)
(* arithmetic and main() on small instances.  A behaviour is one of the    *)
(* component that part names: the others stay in an initial state.         *)
(***************************************************************************)
EXTENDS Integers, Sequences

CONSTANTS NULL, t1, t2, e1, e2, e3, BITMAP_ERROR, Trap

VARIABLES
  part,
  used, lock, owned, call, panicked,                             \* Palloc
  free_pages, desc, free_cnt, free_list, want, moving,           \* Malloc
  bits, file, last,                                              \* Bitmap
  fullbits, fullfile, fulllast,
  links, seq,                                                    \* LinkedList
  orig, s, a0, a1b0, b1, output_run_cnt, pc,                     \* MergeSort
  buckets, elem_cnt, ret, it,                                    \* Hash
  args, argv, bpc, alg, seed, up, act, ran,                      \* Boot
  n, d, op, result                                               \* Arith64

palloc == <<used, lock, owned, call, panicked>>
malloc == <<free_pages, desc, free_cnt, free_list, want, moving>>
bitmap == <<bits, file, last>>
full == <<fullbits, fullfile, fulllast>>
list == <<links, seq>>
sort == <<orig, s, a0, a1b0, b1, output_run_cnt, pc>>
hash == <<buckets, elem_cnt, ret, it>>
boot == <<args, argv, bpc, alg, seed, up, act, ran>>
arith == <<n, d, op, result>>
vars == <<part, palloc, malloc, bitmap, full, list, sort, hash, boot, arith>>

-----------------------------------------------------------------------------
Pa == INSTANCE Palloc WITH Thread <- {t1, t2}, FreePages <- 5, UserLimit <- 2,
        PGSIZE <- 4096, MaxCnt <- 2, op <- call

(* Arenas of two or four blocks; the sizes reach every descriptor and a big
   block of two pages.                                                     *)
Ma == INSTANCE Malloc WITH PGSIZE <- 80, Header <- 12, MinBlock <- 16,
        NPages <- 3, Sizes <- {0, 2, 17, 69}, SizeMod <- 65536, MaxBlocks <- 3

(* A last element with a spare bit, and one without.                       *)
Bm == INSTANCE Bitmap WITH ELEM_BITS <- 2, bit_cnt <- 3
Full == INSTANCE Bitmap WITH ELEM_BITS <- 1, bit_cnt <- 2,
        bits <- fullbits, file <- fullfile, last <- fulllast

Li == INSTANCE LinkedList WITH Elem <- {e1, e2, e3}, A <- e1, B <- e2, C <- e3

So == INSTANCE MergeSort WITH Key <- {1, 2, 3}, MaxLen <- 5

Ha == INSTANCE Hash WITH Key <- {0, 1, 2, 4}, Twin <- 4, MinBuckets <- 1,
        BEST_ELEMS_PER_BUCKET <- 1

(* Every line of up to three of the words, and test runs with options and
   parameters.                                                             *)
Word(w) == <<w, NULL>>
Options == {Word("-h"), Word("-v"), <<"-rs", "3">>, <<"-alg", "2">>, <<"-alg", "5">>, Word("-alg")}
Words == Options \cup {Word("run"), Word("prueba"), Word("-t"), Word("-b"), Word("5")}
Pairs == {<<Word(k), Word(v)>> : k \in {"-t", "-p", "-b", "run"}, v \in {"3", "5", "prueba"}}
Run == <<Word("run"), Word("prueba")>>
CommandLines ==
  UNION {[1 .. k -> Words] : k \in 0 .. 3}
    \cup {<<o>> \o Run \o p : o \in Options, p \in Pairs}
    \cup {Run \o p \o q : p, q \in Pairs}
    \cup {Run \o p \o <<w>> : p \in Pairs, w \in Words}
Bo == INSTANCE Boot WITH Lines <- CommandLines, Tests <- {"prueba"}, ClockSeed <- 9, pc <- bpc

(* Words of three bits: every dividend and divisor of six bits.            *)
Ar == INSTANCE Arith64 WITH W <- 3

-----------------------------------------------------------------------------
Parts == {"palloc", "malloc", "bitmap", "full", "list", "sort", "hash", "boot", "arith"}

Empty == [e \in {0, 1} |-> {}]

Init ==
  /\ part \in Parts
  /\ Pa!Init /\ Ma!malloc_init /\ Li!list_init /\ Ha!hash_init
  /\ IF part = "bitmap" THEN Bm!bitmap_create ELSE bits = Empty /\ file = Empty /\ last = BITMAP_ERROR
  /\ IF part = "full" THEN Full!bitmap_create
                      ELSE fullbits = Empty /\ fullfile = Empty /\ fulllast = BITMAP_ERROR
  /\ So!Init /\ (part = "sort" \/ orig = << >>)
  /\ Bo!Init /\ (part = "boot" \/ args = << >>)
  /\ Ar!Init /\ (part = "arith" \/ <<n, d>> = <<0, 0>>)

Next ==
  /\ UNCHANGED part
  /\ \/ part = "palloc" /\ Pa!Next
     \/ part # "palloc" /\ UNCHANGED palloc
  /\ \/ part = "malloc" /\ Ma!Next
     \/ part # "malloc" /\ UNCHANGED malloc
  /\ \/ part = "bitmap" /\ Bm!Next
     \/ part # "bitmap" /\ UNCHANGED bitmap
  /\ \/ part = "full" /\ Full!Next
     \/ part # "full" /\ UNCHANGED full
  /\ \/ part = "list" /\ Li!Next
     \/ part # "list" /\ UNCHANGED list
  /\ \/ part = "sort" /\ So!Next
     \/ part # "sort" /\ UNCHANGED sort
  /\ \/ part = "hash" /\ Ha!Next
     \/ part # "hash" /\ UNCHANGED hash
  /\ \/ part = "boot" /\ Bo!Next
     \/ part # "boot" /\ UNCHANGED boot
  /\ \/ part = "arith" /\ Ar!Next
     \/ part # "arith" /\ UNCHANGED arith

(* The fairness each module states, for the component that runs.           *)
Fairness ==
  /\ \A t \in {t1, t2} : WF_palloc(part = "palloc" /\ ~panicked /\ Pa!Step(t))
  /\ WF_sort(part = "sort" /\ (So!FindRuns \/ So!inplace_merge \/ So!EndPass))
  /\ WF_boot(part = "boot" /\ Bo!Next)

Spec == Init /\ [][Next]_vars /\ Fairness

-----------------------------------------------------------------------------
(* palloc.c: the bit-by-bit allocator implements an atomic one, so that no
   page is given to two threads; no page is lost, a call fails only if no
   group of pages was free as it began, the only panic is the one
   PAL_ASSERT asks for, and a call that has begun returns.                 *)
IsPageAllocator ==
  /\ Pa!Abstract!AInit /\ [][part = "palloc" => [Pa!Abstract!ANext]_owned]_vars
  /\ [](part = "palloc" => Pa!TypeOK /\ Pa!NoDoubleAllocation /\ Pa!NoLeak)
  /\ Pa!FailsOnlyWhenShort /\ Pa!OnlyAskedPanics /\ Pa!CallsReturn



(* list.c: the links are those of the sequences the operations make,
   list_max() and list_min() return the first extreme; the ranges
   inplace_merge() asserts to be sorted are, and list_sort() ends with the
   stable sort.                                                            *)
ListsAsPromised ==
  /\ [](/\ part = "list" => Li!LinksMatch /\ Li!ExtremesFirst
        /\ part = "sort" => So!RangesSorted /\ So!SortsAsPromised)
  /\ part = "sort" => So!SortEnds

(* hash.c: the table is a set of elements with distinct keys; elem_cnt is
   exact, and an iteration returns every element exactly once.             *)
IsDictionary ==
  /\ Ha!D!Init /\ [][part = "hash" => [Ha!D!Next]_(Ha!D!vars)]_vars
  /\ [](part = "hash" => Ha!CountExact /\ Ha!IterationComplete)

(* init.c: no word behind the sentinel is looked at, what a handler uses is
   there when interrupts go on, a test is run once, with the parameters
   given last, and the command line comes to an end.                       *)
BootAsAsked ==
  /\ [](part = "boot" => Bo!StopsAtSentinel /\ Bo!HandlersReady /\ Bo!RunsAsAsked)
  /\ part = "boot" => Bo!BootEnds

(* arithmetic.c: the unsigned quotient is exact and does not trap, the
   signed one is rounded towards zero, and the remainder by a divisor of
   one word is exact.                                                      *)
DivisionExact == part = "arith" => Ar!QuotientExact /\ Ar!SignedQuotient /\ Ar!RemainderOfWords
=============================================================================
