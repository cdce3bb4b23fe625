----------------------------- MODULE Partition ------------------------------
(***************************************************************************)
(* devices/partition.c and devices/block.c: the scan of a disk for its     *)
(* partitions, the block devices it registers, and reads and writes of     *)
(* their sectors.  Sector numbers are unsigned: they wrap at Wrap, 2^32 in *)
(* the code.                                                               *)
(***************************************************************************)
EXTENDS Integers, Sequences, SequencesExt

CONSTANTS
  DiskSize, Wrap,
  Table,          \* sectors that hold a partition table, 0 among them
  Offset, Size,   \* values of the fields of an entry
  Types,          \* partition types on the disk
  MaxDepth        \* bound: nested calls of read_partition_table()

Sector == 0 .. DiskSize - 1
Extended == {5, 15, 133, 197}
Entry == [type : Types, offset : Offset, size : Size]
Unread == << >>

VARIABLES
  tables,       \* sector -> the two entries of its partition table
  stack,        \* the running calls: [sector, primary, table, i]
  part_nr,
  all_blocks,   \* registered partitions: [start, size, type, nr]
  accessed      \* the last access: <<block, sector of the disk, write?>>

vars == <<tables, stack, part_nr, all_blocks, accessed>>
Frame(s, p) == [sector |-> s, primary |-> p, table |-> Unread, i |-> 1]

Init ==
  /\ tables \in [Table -> [1 .. 2 -> Entry]]
  /\ stack = <<Frame(0, 0)>>            \* partition_scan()
  /\ part_nr = 0 /\ all_blocks = << >> /\ accessed = << >>

Top == Last(stack)

(* Reads the table, unless the sector is past the end of the device.  The
   code reads sector 0 whatever the sector.                                *)
ReadTable ==
  /\ stack # << >> /\ Top.table = Unread
  /\ stack' = IF Top.sector >= DiskSize THEN Front(stack)
              ELSE [stack EXCEPT ![Len(stack)].table = tables[0]]
  /\ UNCHANGED <<tables, part_nr, all_blocks, accessed>>

\* Mutant: an end that wraps around is not noticed.
PastEnd_wrap(start, size) == start >= DiskSize \/ (start + size) % Wrap > DiskSize
PastEnd(start, size) ==
  start >= DiskSize \/ (start + size) % Wrap < start \/ (start + size) % Wrap > DiskSize

block_type(t) == CASE t = 32 -> "kernel" [] t = 33 -> "filesys" [] t = 34 -> "scratch"
                   [] t = 35 -> "swap" [] OTHER -> "foreign"

block_register(type, start, size, nr) ==
  Append(all_blocks, [start |-> start, size |-> size, nr |-> nr, type |-> type])

found_partition(type, start, size) ==
  /\ part_nr' = part_nr + 1
  /\ all_blocks' = IF PastEnd(start, size) THEN all_blocks
                   ELSE block_register(block_type(type), start, size, part_nr')

(* One turn of the loop over the entries.                                  *)
ParseEntry ==
  /\ stack # << >> /\ Top.table # Unread /\ Top.i <= 2
  /\ LET e == Top.table[Top.i]
         next == [stack EXCEPT ![Len(stack)].i = @ + 1] IN
     IF e.size = 0 \/ e.type = 0 THEN stack' = next /\ UNCHANGED <<part_nr, all_blocks>>
     ELSE IF e.type \in Extended
     THEN /\ Len(stack) < MaxDepth
          /\ stack' = Append(next, IF Top.sector = 0 THEN Frame(e.offset, e.offset)
                                   ELSE Frame((e.offset + Top.primary) % Wrap, Top.primary))
          /\ UNCHANGED <<part_nr, all_blocks>>
     ELSE found_partition(e.type, (e.offset + Top.sector) % Wrap, e.size) /\ stack' = next
  /\ UNCHANGED <<tables, accessed>>

EndTable ==
  /\ stack # << >> /\ Top.table # Unread /\ Top.i > 2
  /\ stack' = Front(stack)
  /\ UNCHANGED <<tables, part_nr, all_blocks, accessed>>

\* Mutant: the size itself passes for a sector.
check_sector_past(b, s) == s <= all_blocks[b].size
check_sector(b, s) == s < all_blocks[b].size

MayWrite(b) == all_blocks[b].type # "foreign"

(* partition_read() and partition_write(): the sector of the disk.         *)
ToDisk(b, s) == (all_blocks[b].start + s) % Wrap

(* block_read() and block_write(); an access that panics is left out.      *)
Access(b, s, write) ==
  /\ stack = << >> /\ check_sector(b, s) /\ (write => MayWrite(b))
  /\ accessed' = <<b, ToDisk(b, s), write>>
  /\ UNCHANGED <<tables, stack, part_nr, all_blocks>>

Next ==
  \/ ReadTable \/ ParseEntry \/ EndTable
  \/ \E b \in DOMAIN all_blocks, s \in 0 .. Wrap - 1, w \in BOOLEAN : Access(b, s, w)

Spec == Init /\ [][Next]_vars

-----------------------------------------------------------------------------
(* Whatever a table says, an access through a partition stays within the
   partition and the disk, and never writes a foreign one.                 *)
AccessConfined ==
  accessed # << >> => LET b == all_blocks[accessed[1]] IN
    /\ accessed[2] \in b.start .. b.start + b.size - 1 /\ accessed[2] \in Sector
    /\ accessed[3] => b.type # "foreign"

(* Every registered partition lies on the disk, and their numbers go up in
   the order of the tables.                                                *)
PartitionsOnDisk ==
  /\ \A b \in DOMAIN all_blocks :
       all_blocks[b].size > 0 /\ all_blocks[b].start + all_blocks[b].size <= DiskSize
  /\ \A b, c \in DOMAIN all_blocks : b < c => all_blocks[b].nr < all_blocks[c].nr
=============================================================================
