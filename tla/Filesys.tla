------------------------------ MODULE Filesys -------------------------------
(***************************************************************************)
(* The base file system: filesys.c, free-map.c, inode.c (all but its byte  *)
(* loops, see InodeIo) and file.c, with one step per write to the disk, so *)
(* that the machine may stop between any two writes and start again.  One  *)
(* call runs at a time: the file system has no locks of its own.           *)
(***************************************************************************)
EXTENDS Integers, Sequences, FiniteSets, Functions, TLC

CONSTANTS
  Name, Handle, NULL,
  SectorCnt,      \* size of fs_device
  EntryCnt,       \* entries of the root directory, 16 in the code
  MaxLen          \* bound: sectors of a file

FREE_MAP_SECTOR == 0
ROOT_DIR_SECTOR == 1
Sector == 0 .. SectorCnt - 1
System == 0 .. 3       \* both inodes, and what do_format() allocates for them

VARIABLES
  free_map,       \* in memory: the sectors marked in use
  map_disk,       \* the free map file
  dir,            \* the root directory's entries, on disk: NULL or [name, sector]
  disk,           \* the inodes on disk: sector -> [start, len]
  data,           \* sector -> its content, 0 or 1
  open_inodes,    \* sector -> [open_cnt, removed, deny_write_cnt, start, len]
  file,           \* handle -> NULL or [sector, deny_write]
  op,             \* the call that is running
  want,           \* ghost: inode sector -> what the file should contain
  leaked          \* ghost: marked sectors that nothing will ever release

vars == <<free_map, map_disk, dir, disk, data, open_inodes, file, op, want, leaked>>
disks == <<map_disk, dir, disk, data, want>>

bytes_to_sectors(len) == len           \* a length is in sectors here
Run(start, len) == start .. start + len - 1
Blocks(s, ino) == {s} \cup Run(ino.start, bytes_to_sectors(ino.len))

(* After filesys_init() with format.                                       *)
filesys_init ==
  /\ free_map = System /\ map_disk = System
  /\ dir = [i \in 1 .. EntryCnt |-> NULL]
  /\ disk = [s \in {FREE_MAP_SECTOR, ROOT_DIR_SECTOR} |-> [start |-> s + 2, len |-> 1]]
  /\ data = [s \in Sector \ System |-> 0]
  /\ open_inodes = << >> /\ file = [h \in Handle |-> NULL] /\ op = NULL
  /\ want = << >> /\ leaked = {}

-----------------------------------------------------------------------------
(* bitmap_scan() for cnt clear bits.                                       *)
Scan(cnt) == {s \in Sector : s + cnt <= SectorCnt /\ Run(s, cnt) \cap free_map = {}}

\* Mutant: the map is not written.
Saved_never(m) == UNCHANGED map_disk
Saved(m) == map_disk' = m

(* free_map_allocate(): the first cnt sectors in a row, from s on, or not ok.
   When the map cannot be written for lack of memory its bits are cleared
   again.                                                                  *)
free_map_allocate(cnt, ok, s) ==
  \/ /\ ok /\ s \in Scan(cnt) /\ \A t \in Scan(cnt) : s <= t
     /\ free_map' = free_map \cup Run(s, cnt) /\ Saved(free_map')
  \/ ~ok /\ s = 0 /\ UNCHANGED <<free_map, map_disk>>

(* free_map_release(): a map that cannot be written is ignored.            *)
free_map_release(S) ==
  /\ free_map' = free_map \ S
  /\ Saved(free_map') \/ UNCHANGED map_disk

-----------------------------------------------------------------------------
Linked == {dir[i].sector : i \in {j \in DOMAIN dir : dir[j] # NULL}}
OnDisk == UNION {Blocks(s, disk[s]) : s \in Linked}
Live == Linked \cup DOMAIN open_inodes

lookup(n) == {i \in DOMAIN dir : dir[i] # NULL /\ dir[i].name = n}
FreeSlots == {i \in DOMAIN dir : dir[i] = NULL}

Step(pc) == op' = [op EXCEPT !.pc = pc]

(* filesys_create(): the inode's sector, the inode with its data, the name. *)
filesys_create(n, len) ==
  /\ op = NULL
  /\ \E ok \in BOOLEAN, s \in Sector :
       /\ free_map_allocate(1, ok, s)
       /\ op' = IF ok THEN [pc |-> "inode", name |-> n, sector |-> s, start |-> 0, len |-> len, i |-> 0]
                ELSE NULL
  /\ UNCHANGED <<dir, disk, data, open_inodes, file, want, leaked>>

inode_create ==
  /\ op # NULL /\ op.pc = "inode"
  /\ \/ Step("fail") /\ UNCHANGED <<free_map, map_disk>>         \* calloc()
     \/ \E ok \in BOOLEAN, s \in Sector :
          /\ free_map_allocate(bytes_to_sectors(op.len), ok, s)
          /\ op' = [op EXCEPT !.pc = IF ok THEN "write" ELSE "fail", !.start = s]
  /\ UNCHANGED <<dir, disk, data, open_inodes, file, want, leaked>>

WriteInode ==
  /\ op # NULL /\ op.pc = "write"
  /\ disk' = (op.sector :> [start |-> op.start, len |-> op.len]) @@ disk
  /\ Step("zeros")
  /\ UNCHANGED <<free_map, map_disk, dir, data, open_inodes, file, want, leaked>>

\* Mutant: the last sector keeps what it held.
ZerosDone_early == op.i + 1 >= bytes_to_sectors(op.len)
ZerosDone == op.i = bytes_to_sectors(op.len)

WriteZeros ==
  /\ op # NULL /\ op.pc = "zeros" /\ ~ZerosDone
  /\ data' = [data EXCEPT ![op.start + op.i] = 0]
  /\ op' = [op EXCEPT !.i = @ + 1]
  /\ UNCHANGED <<free_map, map_disk, dir, disk, open_inodes, file, want, leaked>>

(* dir_add(): refused for a name in use or a full directory.               *)
dir_add ==
  /\ op # NULL /\ op.pc = "zeros" /\ ZerosDone
  /\ IF lookup(op.name) # {} \/ FreeSlots = {}
     THEN Step("fail") /\ leaked' = leaked \cup Run(op.start, op.len) /\ UNCHANGED <<dir, want>>
     ELSE LET slot == CHOOSE i \in FreeSlots : \A j \in FreeSlots : i <= j IN
          /\ dir' = [dir EXCEPT ![slot] = [name |-> op.name, sector |-> op.sector]]
          /\ want' = (op.sector :> [i \in 1 .. op.len |-> 0]) @@ Restrict(want, DOMAIN want \cap Live)
          /\ op' = NULL /\ UNCHANGED leaked
  /\ UNCHANGED <<free_map, map_disk, disk, data, open_inodes, file>>

CreateFailed ==
  /\ op # NULL /\ op.pc = "fail"
  /\ free_map_release({op.sector}) /\ op' = NULL
  /\ UNCHANGED <<dir, disk, data, open_inodes, file, want, leaked>>

-----------------------------------------------------------------------------
inode_open(s) ==
  IF s \in DOMAIN open_inodes THEN [open_inodes EXCEPT ![s].open_cnt = @ + 1]
  ELSE (s :> [open_cnt |-> 1, removed |-> FALSE, deny_write_cnt |-> 0,
              start |-> disk[s].start, len |-> disk[s].len]) @@ open_inodes

\* Mutant: the inode's own sector is not released.
Freed_data(s, ino) == [pc |-> "release", todo |-> << Run(ino.start, bytes_to_sectors(ino.len)) >>]

(* The blocks of an inode that is freed; its two releases are two writes.  *)
Freed(s, ino) == [pc |-> "release", todo |-> << {s}, Run(ino.start, bytes_to_sectors(ino.len)) >>]

LastClose(ino) == ino.open_cnt = 1

(* inode_close() for the inode of sector s among I.                        *)
inode_close(I, s) ==
  LET ino == I[s] IN
  IF LastClose(ino)
  THEN /\ open_inodes' = Restrict(I, DOMAIN I \ {s})
       /\ op' = IF ino.removed THEN Freed(s, ino) ELSE NULL
  ELSE open_inodes' = [I EXCEPT ![s].open_cnt = @ - 1] /\ op' = NULL

(* free_map_release() of the blocks, one write after the other.            *)
Release ==
  /\ op # NULL /\ op.pc = "release"
  /\ free_map_release(op.todo[1])
  /\ op' = IF Len(op.todo) = 1 THEN NULL ELSE [op EXCEPT !.todo = Tail(@)]
  /\ UNCHANGED <<dir, disk, data, open_inodes, file, want, leaked>>

(* filesys_open() and file_open(), when the memory is there; when it is not
   nothing changes.                                                        *)
filesys_open(n, h) ==
  /\ op = NULL /\ file[h] = NULL
  /\ \E i \in lookup(n) :
       /\ open_inodes' = inode_open(dir[i].sector)
       /\ file' = [file EXCEPT ![h] = [sector |-> dir[i].sector, deny_write |-> FALSE]]
  /\ UNCHANGED <<free_map, disks, op, leaked>>

file_reopen(f, h) ==
  /\ op = NULL /\ file[f] # NULL /\ file[h] = NULL
  /\ open_inodes' = inode_open(file[f].sector)
  /\ file' = [file EXCEPT ![h] = [sector |-> file[f].sector, deny_write |-> FALSE]]
  /\ UNCHANGED <<free_map, disks, op, leaked>>

file_deny_write(h) ==
  /\ op = NULL /\ file[h] # NULL /\ ~file[h].deny_write
  /\ file' = [file EXCEPT ![h].deny_write = TRUE]
  /\ open_inodes' = [open_inodes EXCEPT ![file[h].sector].deny_write_cnt = @ + 1]
  /\ UNCHANGED <<free_map, disks, op, leaked>>

Allowed(h) == IF file[h].deny_write
              THEN [open_inodes EXCEPT ![file[h].sector].deny_write_cnt = @ - 1] ELSE open_inodes

file_allow_write(h) ==
  /\ op = NULL /\ file[h] # NULL /\ file[h].deny_write
  /\ file' = [file EXCEPT ![h].deny_write = FALSE] /\ open_inodes' = Allowed(h)
  /\ UNCHANGED <<free_map, disks, op, leaked>>

\* Mutant: closing a file leaves its denial behind.
AtClose_denied(h) == open_inodes
AtClose(h) == Allowed(h)

file_close(h) ==
  /\ op = NULL /\ file[h] # NULL
  /\ inode_close(AtClose(h), file[h].sector)
  /\ file' = [file EXCEPT ![h] = NULL]
  /\ UNCHANGED <<free_map, disks, leaked>>

\* Mutant: a denial of another opener is not looked at.
MayWrite_own(h) == ~file[h].deny_write
MayWrite(h) == open_inodes[file[h].sector].deny_write_cnt = 0

(* file_write() of one whole sector within the file.                       *)
file_write(h, i) ==
  /\ op = NULL /\ file[h] # NULL /\ MayWrite(h)
  /\ LET ino == open_inodes[file[h].sector] IN
     /\ i <= ino.len
     /\ data' = [data EXCEPT ![ino.start + i - 1] = 1]
  /\ want' = [want EXCEPT ![file[h].sector][i] = 1]
  /\ UNCHANGED <<free_map, map_disk, dir, disk, open_inodes, file, op, leaked>>

(* filesys_remove() and dir_remove(): the entry first, the blocks at the
   last close, which may be its own.                                       *)
filesys_remove(n) ==
  /\ op = NULL
  /\ \E i \in lookup(n) : LET s == dir[i].sector IN
       /\ inode_close([inode_open(s) EXCEPT ![s].removed = TRUE], s)
       /\ dir' = [dir EXCEPT ![i] = NULL]
  /\ UNCHANGED <<free_map, map_disk, disk, data, file, want, leaked>>

(* The machine stops anywhere; filesys_init() without format starts it.    *)
Restart ==
  /\ free_map' = map_disk /\ open_inodes' = << >> /\ file' = [h \in Handle |-> NULL]
  /\ op' = NULL /\ leaked' = map_disk \ (System \cup OnDisk)
  /\ UNCHANGED disks

Next ==
  \/ inode_create \/ WriteInode \/ WriteZeros \/ dir_add \/ CreateFailed \/ Release \/ Restart
  \/ \E n \in Name : filesys_remove(n) \/ \E l \in 0 .. MaxLen : filesys_create(n, l)
  \/ \E h \in Handle : \/ \E n \in Name : filesys_open(n, h)
                       \/ \E f \in Handle : file_reopen(f, h)
                       \/ \E i \in 1 .. MaxLen : file_write(h, i)
                       \/ file_deny_write(h) \/ file_allow_write(h) \/ file_close(h)

Spec == filesys_init /\ [][Next]_vars

Symmetry == Permutations(Name) \cup Permutations(Handle)

-----------------------------------------------------------------------------
Inode(s) == IF s \in DOMAIN open_inodes THEN open_inodes[s] ELSE disk[s]
Pending == IF op = NULL THEN {}
           ELSE IF op.pc = "release" THEN UNION {op.todo[i] : i \in DOMAIN op.todo}
           ELSE {op.sector} \cup (IF op.pc \in {"write", "zeros"} THEN Run(op.start, op.len) ELSE {})

(* Whenever the machine stops, every block of every file in the directory is
   marked in the free map on disk and belongs to that file alone.          *)
CrashSafe ==
  /\ OnDisk \subseteq map_disk \ System
  /\ \A s, t \in Linked : s # t => Blocks(s, disk[s]) \cap Blocks(t, disk[t]) = {}

(* A file, removed and still open or not, holds zeros and what was written
   to it: never what an earlier or another file wrote.                     *)
NoStaleData ==
  \A s \in Live : \A i \in 1 .. Inode(s).len : data[Inode(s).start + i - 1] = want[s][i]

(* A marked sector is the system's, a file's, a running call's, or leaked
   by a create that failed at the name or by a stop; no file uses a sector
   that is not marked.                                                     *)
SectorsAccounted ==
  LET used == UNION {Blocks(s, Inode(s)) : s \in Live} IN
  /\ free_map = System \cup used \cup Pending \cup leaked
  /\ used \cap (Pending \cup leaked) = {}

(* open_cnt and deny_write_cnt are exactly the files that hold the inode,
   and those that deny writes to it.                                       *)
CountsExact ==
  \A s \in DOMAIN open_inodes :
    LET F == {h \in Handle : file[h] # NULL /\ file[h].sector = s} IN
    /\ open_inodes[s].open_cnt = Cardinality(F)
    /\ open_inodes[s].deny_write_cnt = Cardinality({h \in F : file[h].deny_write})

(* While one opener denies writes no opener changes the file.              *)
DenialHolds ==
  [][\A h \in Handle : file[h] # NULL /\ file[h].deny_write =>
       want'[file[h].sector] = want[file[h].sector]]_vars
=============================================================================
