----------------------------- MODULE Directory ------------------------------
(***************************************************************************)
(* filesys/directory.c on one directory: names added, removed and listed   *)
(* by an open directory whose scan goes on between the changes.  The       *)
(* entries are read one by one with inode_read_at(), which is taken to     *)
(* find memory for its bounce buffer.                                      *)
(***************************************************************************)
EXTENDS Integers, Sequences, FiniteSets

CONSTANTS
  Name, NULL,
  EntryCnt       \* entries of the directory

VARIABLES
  entry,      \* offset -> NULL (free) or a name
  pos,        \* dir->pos, in entries
  listed,     \* ghost: names dir_readdir() has returned since the start
  stayed      \* ghost: names there since the start of the scan

vars == <<entry, pos, listed, stayed>>
In(d) == {d[i] : i \in DOMAIN d} \ {NULL}

dir_create == entry = [i \in 0 .. EntryCnt - 1 |-> NULL]
Init == dir_create /\ pos = 0 /\ listed = << >> /\ stayed = {}

lookup(n) == {i \in DOMAIN entry : entry[i] = n}


(* The second loop of dir_add(): the first free entry, or the end of the
   file.                                                                   *)
FreeSlot ==
  LET F == {i \in DOMAIN entry : entry[i] = NULL} \cup {EntryCnt} IN
  CHOOSE i \in F : \A j \in F : i <= j

Set(i, v) ==
  /\ entry' = [entry EXCEPT ![i] = v]
  /\ stayed' = stayed \cap In(entry')
  /\ UNCHANGED <<pos, listed>>

\* Mutant: the name is not looked up first.
NotInUse_blind(n) == TRUE
NotInUse(n) == lookup(n) = {}

(* dir_add(): past the end of the file inode_write_at() writes nothing.    *)
dir_add(n) == NotInUse(n) /\ FreeSlot < EntryCnt /\ Set(FreeSlot, n)

dir_remove(n) == \E i \in lookup(n) : Set(i, NULL)

\* Mutant: the entry after the one returned is passed over.
After_skip(i) == i + 2
After(i) == i + 1

(* dir_readdir(): the next entry in use, or FALSE at the end.              *)
dir_readdir ==
  LET U == {i \in DOMAIN entry : i >= pos /\ entry[i] # NULL} IN
  /\ IF U = {} THEN pos' = EntryCnt /\ UNCHANGED listed
     ELSE LET i == CHOOSE i \in U : \A j \in U : i <= j IN pos' = After(i) /\ listed' = Append(listed, entry[i])
  /\ UNCHANGED <<entry, stayed>>

(* dir_open(), dir_reopen() after dir_close(): a new scan.                 *)
dir_open == pos' = 0 /\ listed' = << >> /\ stayed' = In(entry) /\ UNCHANGED entry

Next == dir_open \/ dir_readdir \/ \E n \in Name : dir_add(n) \/ dir_remove(n)
Spec == Init /\ [][Next]_vars

-----------------------------------------------------------------------------
(* No two entries in use have the same name, whatever was added, removed
   and added again.                                                        *)
NamesUnique == \A i, j \in DOMAIN entry : entry[i] # NULL /\ entry[i] = entry[j] => i = j

(* dir_add() fails only if the name is there or every entry is in use.     *)
RoomIsUsed == \A n \in Name : n \notin In(entry) /\ Cardinality(In(entry)) < EntryCnt => ENABLED dir_add(n)

(* A name that is there from the start of a scan to its end is listed, and
   once, even if other names come and go in between.                       *)
ListedOnce ==
  pos >= EntryCnt => \A n \in stayed : Cardinality({i \in DOMAIN listed : listed[i] = n}) = 1
=============================================================================
