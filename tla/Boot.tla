-------------------------------- MODULE Boot --------------------------------
(***************************************************************************)
(* main() of threads/init.c in the threads build: the kernel's command     *)
(* line, its options, the order of initialization, and the actions.  A     *)
(* word is a name and the value behind its "=", or NULL.                   *)
(***************************************************************************)
EXTENDS Integers, Sequences, SequencesExt, FiniteSets

CONSTANTS
  Lines,          \* the command lines the loader may pass
  Tests,          \* names in the table of tests
  ClockSeed,      \* rtc_get_time()
  NULL

Options == {"-h", "-v", "-q", "-r", "-rs", "-alg"}
Algorithms == {"1", "2", "3", "4"}
Number == [w \in {"1", "2", "3", "4", "5"} |-> CASE w = "1" -> 1 [] w = "2" -> 2 [] w = "3" -> 3
                                              [] w = "4" -> 4 [] OTHER -> 5]
atoi(w) == IF w \in DOMAIN Number THEN Number[w] ELSE 0

VARIABLES
  args,       \* argv[], the null pointer sentinel left out
  argv,       \* index of the word argv points at
  pc,
  alg,        \* the schedulers whose flag is set
  seed,       \* the seed random_init() was last called with
  up,         \* what is initialized
  act,        \* a test was run
  ran         \* tests run, with their parameters

vars == <<args, argv, pc, alg, seed, up, act, ran>>

(* read_command_line()                                                     *)
Init ==
  /\ args \in Lines /\ argv = 1
  /\ pc = "options" /\ alg = {} /\ seed = NULL /\ up = {} /\ act = FALSE /\ ran = << >>

Null(i) == i = Len(args) + 1
Name(i) == args[i][1]
Value(i) == args[i][2]
Dashed == {"-h", "-v", "-q", "-r", "-rs", "-alg", "-mlfqs", "-t", "-p", "-b"}
Dash(i) == ~Null(i) /\ Name(i) \in Dashed
Goto(l) == pc' = l

-----------------------------------------------------------------------------
(* usage() prints the help message and powers off.                         *)
usage == "off"

(* parse_options(), one word.  A missing value fails the assertions of
   atoi() and strcmp().                                                    *)
Option ==
  /\ pc = "options" /\ Dash(argv)
  /\ LET n == Name(argv) v == Value(argv) IN
     /\ Goto(CASE n = "-h" -> usage
               [] n \in {"-rs", "-alg"} /\ v = NULL -> "panic"
               [] n = "-alg" /\ v \notin Algorithms -> "panic"
               [] n \notin Options -> "panic"
               [] OTHER -> "options")
     /\ alg' = IF n = "-alg" /\ v \in Algorithms THEN alg \cup {v} ELSE alg
     /\ seed' = IF n = "-rs" /\ v # NULL THEN atoi(v) ELSE seed
  /\ argv' = argv + 1 /\ UNCHANGED <<args, up, act, ran>>

OptionsEnd ==
  /\ pc = "options" /\ ~Dash(argv)
  /\ seed' = ClockSeed /\ Goto("boot")
  /\ UNCHANGED <<args, argv, alg, up, act, ran>>

(* The rest of main() up to run_actions().                                 *)
\* Mutant: the input buffer is set up once interrupts are on.
Order_late == <<"thread", "console", "palloc", "malloc", "paging", "intr", "timer", "kbd",
                "start", "serial", "calibrate", "input">>
Order == <<"thread", "console", "palloc", "malloc", "paging", "intr", "timer", "kbd",
           "input", "start", "serial", "calibrate">>

Initialize ==
  /\ pc = "boot"
  /\ IF Cardinality(up) = Len(Order) THEN Goto("actions") /\ UNCHANGED up
     ELSE up' = up \cup {Order[Cardinality(up) + 1]} /\ UNCHANGED pc
  /\ UNCHANGED <<args, argv, alg, seed, act, ran>>

-----------------------------------------------------------------------------
Parameters == [t |-> 0, p |-> -1, b |-> FALSE, active |-> FALSE]

\* Mutant: -b leaves the test unbounded.
Take_unbounded(r, n, v) ==
  CASE n = "-t" -> [r EXCEPT !.t = v, !.active = TRUE]
    [] OTHER -> [r EXCEPT !.p = v, !.active = TRUE]
Take(r, n, v) ==
  CASE n = "-t" -> [r EXCEPT !.t = v, !.active = TRUE]
    [] n = "-p" -> [r EXCEPT !.p = v, !.active = TRUE]
    [] OTHER -> [r EXCEPT !.p = v, !.b = TRUE, !.active = TRUE]

(* run_task(): from the word "run" to the sentinel; NULL if a parameter has
   no value, which fails the assertion of atoi().                          *)
RECURSIVE Scan(_, _)
Scan(i, r) ==
  IF i > Len(args) THEN r
  ELSE IF Name(i) \notin {"-t", "-p", "-b"} THEN Scan(i + 1, r)
  ELSE IF Null(i + 1) THEN NULL
  ELSE Scan(i + 2, Take(r, Name(i), atoi(Name(i + 1))))

(* The actions table has one entry in this build: "run", with two words.   *)
\* Mutants: the number of words is not checked; the action is not passed.
Missing_unchecked(i) == FALSE
Missing(i) == Null(i + 1)
Advance_none(i) == IF act THEN i ELSE i + 2
Advance(i) == i + 2

Action ==
  /\ pc = "actions" /\ ~Null(argv)
  /\ argv' = Advance(argv)
  /\ LET task == IF Null(argv + 1) THEN NULL ELSE Name(argv + 1)
         r == Scan(argv, Parameters) IN
     CASE ~act /\ Name(argv) # "run" -> Goto("panic") /\ UNCHANGED <<act, ran>>
       [] Missing(argv) -> Goto("panic") /\ UNCHANGED <<act, ran>>
       [] act -> UNCHANGED <<pc, act, ran>>
       [] r = NULL \/ task \notin Tests -> Goto("panic") /\ UNCHANGED <<act, ran>>
       [] OTHER -> /\ ran' = Append(ran, [task |-> task, r |-> r])
                   /\ act' = TRUE /\ UNCHANGED pc
  /\ UNCHANGED <<args, alg, seed, up>>

ActionsEnd == /\ pc = "actions" /\ Null(argv) /\ Goto("done")
              /\ UNCHANGED <<args, argv, alg, seed, up, act, ran>>

Over == pc \in {"done", "panic", "off"} /\ UNCHANGED vars

Next == Option \/ OptionsEnd \/ Initialize \/ Action \/ ActionsEnd \/ Over

Spec == Init /\ [][Next]_vars /\ WF_vars(Next)

-----------------------------------------------------------------------------
(* No word behind the null pointer sentinel is looked at.                  *)
StopsAtSentinel == pc # "panic" => argv <= Len(args) + 1

(* When thread_start() turns interrupts on, everything that the handlers
   registered by then use is there.                                        *)
HandlersReady == "start" \in up => {"thread", "palloc", "intr", "timer", "kbd", "input"} \subseteq up

(* The kernel comes to the end of its command line, stops or powers off.   *)
BootEnds == <>(pc \in {"done", "panic", "off"})

(* A command line with options and then "run TEST" and any number of -t, -p
   and -b, each with its number, runs the test once, and the last -t, and
   the last -p or -b, decide; the other words are passed over without harm. *)
RunsAsAsked ==
  LET first == CHOOSE i \in 1 .. Len(args) + 1 :
                 ~Dash(i) /\ \A j \in 1 .. i - 1 : Dash(j)
      rest == SubSeq(args, first, Len(args))
      keys == {i \in 3 .. Len(rest) : i % 2 = 1}
      last(K) == CHOOSE i \in K : \A j \in K : j <= i
      of(names) == {i \in keys : rest[i][1] \in names}
      wellFormed == /\ Len(rest) >= 2 /\ Len(rest) % 2 = 0
                    /\ rest[1][1] = "run" /\ rest[2][1] \in Tests
                    /\ \A i \in keys : rest[i][1] \in {"-t", "-p", "-b"} /\ rest[i + 1][1] \in DOMAIN Number
  IN pc \in {"done", "panic"} /\ up # {} /\ wellFormed =>
       /\ pc = "done" /\ Len(ran) = 1 /\ ran[1].task = rest[2][1]
       /\ ran[1].r.active = (keys # {})
       /\ ran[1].r.b = (of({"-b"}) # {})
       /\ of({"-t"}) # {} => ran[1].r.t = Number[rest[last(of({"-t"})) + 1][1]]
       /\ of({"-p", "-b"}) # {} => ran[1].r.p = Number[rest[last(of({"-p", "-b"})) + 1][1]]
=============================================================================
