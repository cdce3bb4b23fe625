------------------------------ MODULE Process -------------------------------
(***************************************************************************)
(* userprog/process.c and exception.c: processes that are started, loaded  *)
(* page by page, killed or exit, with their pages and page directories,    *)
(* preempted at every step.  The CPU's page directory register follows the *)
(* running thread.  The arithmetic of the segments is in ElfLoad.          *)
(***************************************************************************)
EXTENDS Integers, FiniteSets, FiniteSetsExt

CONSTANTS
  Proc, NULL,
  Page,           \* the pages of the pools, numbers
  ImagePages      \* pages of a loaded program, its stack and page table included

InitPd == 0         \* init_page_dir, not a page of the pools

VARIABLES
  free,       \* pages of the pools
  pc,         \* process -> where its thread is
  copy,       \* process -> the page with the copy of its command line, or NULL
  pagedir,    \* process -> t->pagedir, or NULL
  pd,         \* process -> the local variable pd of process_exit()
  mapped,     \* process -> pages its directory maps, and its page tables
  current,    \* the running process, or NULL for kernel threads only
  cr3,        \* the active page directory
  panicked

vars == <<free, pc, copy, pagedir, pd, mapped, current, cr3, panicked>>
mem == <<free, copy, pagedir, pd, mapped>>

Init ==
  /\ free = Page /\ pc = [p \in Proc |-> "none"]
  /\ copy = [p \in Proc |-> NULL] /\ pagedir = copy /\ pd = copy
  /\ mapped = [p \in Proc |-> {}] /\ current = NULL /\ cr3 = InitPd /\ panicked = FALSE

\* palloc_get_page() takes the first page whose bit is clear.
FirstFree == Min(free)
Directory(d) == IF d = NULL THEN InitPd ELSE d
Goto(p, l) == pc' = [pc EXCEPT ![p] = l]
Running(p, l) == current = p /\ pc[p] = l /\ ~panicked

-----------------------------------------------------------------------------
(* process_execute(), called by a kernel thread.                           *)
process_execute(p) ==
  /\ current = NULL /\ pc[p] = "none" /\ ~panicked
  /\ free # {} /\ free' = free \ {FirstFree} /\ copy' = [copy EXCEPT ![p] = FirstFree]
  /\ Goto(p, "create")
  /\ UNCHANGED <<pagedir, pd, mapped, current, cr3, panicked>>

\* Mutant: the copy is kept when there is no thread for it.
ThreadCreated_keep(p, ok) ==
  IF ok THEN Goto(p, "start") /\ UNCHANGED <<free, copy>>
  ELSE copy' = [copy EXCEPT ![p] = NULL] /\ Goto(p, "none") /\ UNCHANGED free

ThreadCreated(p, ok) ==
  IF ok THEN Goto(p, "start") /\ UNCHANGED <<free, copy>>
  ELSE free' = free \cup {copy[p]} /\ copy' = [copy EXCEPT ![p] = NULL] /\ Goto(p, "none")

CreateThread(p) ==
  /\ current = NULL /\ pc[p] = "create" /\ ~panicked
  /\ \E ok \in BOOLEAN : ThreadCreated(p, ok)
  /\ UNCHANGED <<pagedir, pd, mapped, current, cr3, panicked>>

(* thread_schedule_tail() calls process_activate() at every switch.        *)
SwitchTo(p) ==
  /\ ~panicked /\ p # current
  /\ p # NULL => pc[p] \notin {"none", "create", "dead"}
  /\ current' = p /\ cr3' = IF p = NULL THEN InitPd ELSE Directory(pagedir[p])
  /\ UNCHANGED <<mem, pc, panicked>>

-----------------------------------------------------------------------------
(* load(): the page directory, made active, then the pages one by one; it
   may stop for lack of memory, or because of the file, at any page.       *)
CreatePagedir(p) ==
  /\ Running(p, "start")
  /\ \/ free # {} /\ Goto(p, "activate")
        /\ free' = free \ {FirstFree} /\ pagedir' = [pagedir EXCEPT ![p] = FirstFree]
     \/ free = {} /\ Goto(p, "failed") /\ UNCHANGED <<free, pagedir>>
  /\ UNCHANGED <<copy, pd, mapped, current, cr3, panicked>>

\* Mutant: the new directory is not made active.
Activated_not(p) == cr3
Activated(p) == Directory(pagedir[p])

process_activate(p) ==
  /\ Running(p, "activate")
  /\ cr3' = Activated(p) /\ Goto(p, "load")
  /\ UNCHANGED <<mem, current, panicked>>

LoadPage(p) ==
  /\ Running(p, "load")
  /\ \/ Cardinality(mapped[p]) < ImagePages /\ free # {} /\ UNCHANGED pc
        /\ free' = free \ {FirstFree} /\ mapped' = [mapped EXCEPT ![p] = @ \cup {FirstFree}]
     \/ Cardinality(mapped[p]) = ImagePages /\ Goto(p, "loaded") /\ UNCHANGED <<free, mapped>>
     \/ Goto(p, "failed") /\ UNCHANGED <<free, mapped>>
  /\ UNCHANGED <<copy, pagedir, pd, current, cr3, panicked>>

(* The rest of start_process(): the copy is freed in both cases.           *)
LoadEnds(p) ==
  /\ Running(p, "loaded") \/ Running(p, "failed")
  /\ free' = free \cup {copy[p]} /\ copy' = [copy EXCEPT ![p] = NULL]
  /\ Goto(p, IF pc[p] = "loaded" THEN "user" ELSE "exit")
  /\ UNCHANGED <<pagedir, pd, mapped, current, cr3, panicked>>

(* kill(): a fault in the user's code segment ends the process; in the
   kernel's it is a panic.                                                 *)
kill(p) ==
  /\ ~panicked /\ current = p /\ pc[p] # "dead"
  /\ IF pc[p] = "user" THEN Goto(p, "exit") /\ UNCHANGED panicked
     ELSE panicked' = TRUE /\ UNCHANGED pc
  /\ UNCHANGED <<mem, current, cr3>>

(* Each system call ends the process.                                      *)
syscall_handler(p) == Running(p, "user") /\ Goto(p, "exit") /\ UNCHANGED <<mem, current, cr3, panicked>>

(* process_exit(): "Correct ordering here is crucial."                     *)
ForgetPagedir(p) ==
  /\ Running(p, "exit")
  /\ pd' = [pd EXCEPT ![p] = pagedir[p]] /\ pagedir' = [pagedir EXCEPT ![p] = NULL]
  /\ Goto(p, IF pagedir[p] = NULL THEN "dying" ELSE "leave")
  /\ UNCHANGED <<free, copy, mapped, current, cr3, panicked>>

\* Mutant: the old directory stays active while it is destroyed.
Base_late(p) == cr3
Base(p) == InitPd

ActivateBase(p) ==
  /\ Running(p, "leave") /\ cr3' = Base(p) /\ Goto(p, "destroy")
  /\ UNCHANGED <<mem, current, panicked>>

(* pagedir_destroy(): each mapped page and table, then the directory.      *)
pagedir_destroy(p) ==
  /\ Running(p, "destroy")
  /\ IF mapped[p] # {}
     THEN LET k == Min(mapped[p]) IN
          /\ free' = free \cup {k} /\ mapped' = [mapped EXCEPT ![p] = @ \ {k}]
          /\ UNCHANGED <<pd, pc>>
     ELSE /\ free' = free \cup {pd[p]} /\ pd' = [pd EXCEPT ![p] = NULL]
          /\ Goto(p, "dying") /\ UNCHANGED mapped
  /\ UNCHANGED <<copy, pagedir, current, cr3, panicked>>

(* The thread is gone and its number may be used again.                    *)
ThreadDies(p) ==
  /\ Running(p, "dying") /\ Goto(p, "none")
  /\ current' = NULL /\ cr3' = InitPd
  /\ UNCHANGED <<mem, panicked>>

Panic == panicked /\ UNCHANGED vars

Steps(p) ==
  \/ CreateThread(p) \/ CreatePagedir(p) \/ process_activate(p) \/ LoadPage(p) \/ LoadEnds(p)
  \/ ForgetPagedir(p) \/ ActivateBase(p) \/ pagedir_destroy(p) \/ ThreadDies(p)

Next == \/ Panic \/ SwitchTo(NULL)
        \/ \E p \in Proc : process_execute(p) \/ SwitchTo(p) \/ kill(p) \/ syscall_handler(p) \/ Steps(p)

Spec == Init /\ [][Next]_vars

-----------------------------------------------------------------------------
(* The active page directory is never one that has been freed, whenever a
   timer interrupt switches threads during process_exit().                 *)
ActiveNotFreed == cr3 = InitPd \/ cr3 \notin free

(* User code runs on its own page directory, with all its pages there.     *)
UserHasItsPages ==
  \A p \in Proc : Running(p, "user") =>
    cr3 = pagedir[p] /\ Cardinality(mapped[p]) = ImagePages /\ mapped[p] \cap free = {}

(* Every page is free or held by one process for one purpose, and a process
   that is gone holds none.                                                *)
PagesAccounted ==
  LET held(p) == ({copy[p], pagedir[p], pd[p]} \ {NULL}) \cup mapped[p] IN
  /\ free = Page \ UNION {held(p) : p \in Proc}
  /\ \A p, q \in Proc : p # q => held(p) \cap held(q) = {}
  /\ \A p \in Proc : pc[p] = "none" => held(p) = {}
=============================================================================
