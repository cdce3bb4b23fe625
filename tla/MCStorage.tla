----------------------------- MODULE MCStorage ------------------------------
(***************************************************************************)
(* The file system, the disks below it, and the processes and address      *)
(* spaces of userprog on small instances.  A behaviour is one of the       *)
(* component that part names: the others stay in an initial state.         *)
(***************************************************************************)
EXTENDS Integers, Sequences, TLC

CONSTANTS NULL, n1, n2, n3, h1, h2, p1, p2, pd1, pd2, fr1, fr2, t1, t2

VARIABLES
  part,
  free_map, map_disk, dir, inodes, data, open_inodes, file, op, want,
  leaked,                                                        \* Filesys
  sectors, fpos, call, content,                                  \* InodeIo
  entry, dpos, listed, stayed,                                   \* Directory
  seen, chan, step, is_ata, blocks,                              \* IdeInit
  tables, stack, part_nr, all_blocks, accessed,                  \* Partition
  disk, state, reg, irq, expecting_interrupt, completion_wait, lock, req,
  ipc, stopped,                                                  \* Ide
  free, pc, copy, pagedir, pd, mapped, current, cr3, panicked,   \* Process
  page, kpt, kernel, pt, active, tlb,                            \* PageDir
  lpc, phdrs, todo, space, left                                  \* ElfLoad

filesys == <<free_map, map_disk, dir, inodes, data, open_inodes, file, op, want, leaked>>
inode == <<sectors, fpos, call, content>>
directory == <<entry, dpos, listed, stayed>>
ide_init == <<seen, chan, step, is_ata, blocks>>
partition == <<tables, stack, part_nr, all_blocks, accessed>>
ide == <<disk, state, reg, irq, expecting_interrupt, completion_wait, lock, req, ipc, stopped>>
process == <<free, pc, copy, pagedir, pd, mapped, current, cr3, panicked>>
paging == <<page, kpt, kernel, pt, active, tlb>>
load == <<lpc, phdrs, todo, space, left>>
vars == <<part, filesys, inode, directory, ide_init, partition, ide, process, paging, load>>

-----------------------------------------------------------------------------
Fs == INSTANCE Filesys WITH Name <- {n1, n2, n3}, Handle <- {h1, h2}, SectorCnt <- 7,
        EntryCnt <- 2, MaxLen <- 2, disk <- inodes

(* Sectors of two bytes, a file that ends inside one.                      *)
Io == INSTANCE InodeIo WITH BLOCK_SECTOR_SIZE <- 2, Length <- 3, MaxSize <- 4,
        disk <- sectors, pos <- fpos

Di == INSTANCE Directory WITH Name <- {n1, n2, n3}, EntryCnt <- 3, pos <- dpos

In == INSTANCE IdeInit WITH Limit <- 2, Capacity <- {0, 1, 2}

Pt == INSTANCE Partition WITH DiskSize <- 6, Wrap <- 8, Table <- {0},
        Offset <- {1, 4, 7}, Size <- {0, 2, 7}, Types <- {0, 5, 33, 7}, MaxDepth <- 3

(* A line that gives interrupts nobody asked for.                          *)
Id == INSTANCE Ide WITH Thread <- {t1, t2}, Sector <- {1}, Faults <- FALSE,
        Spurious <- TRUE, MaxUps <- 1, pc <- ipc, panicked <- stopped

Pr == INSTANCE Process WITH Proc <- {p1, p2}, Page <- 1 .. 5, ImagePages <- 2

Vm == INSTANCE PageDir WITH Pd <- {pd1, pd2}, Frame <- {fr1, fr2}, Upage <- {<<0, 1>>},
        PerTable <- 2, Text <- {1}, RamPages <- 5

Ld == INSTANCE ElfLoad WITH Wrap <- 16, PGSIZE <- 2, PHYS_BASE <- 12, FileLength <- 4,
        Offsets <- {0, 1, 2, 5}, Addresses <- {1, 2, 3, 4, 9, 11, 13},
        Sizes <- {0, 1, 2, 3, 13, 15}, MaxPhdr <- 2, FreePages <- 4,
        pc <- lpc, free <- left

-----------------------------------------------------------------------------
Parts == {"filesys", "inode", "directory", "ide_init", "partition", "ide", "process",
          "paging", "load"}

Init ==
  /\ part \in Parts
  /\ Fs!filesys_init /\ Io!Init /\ Di!Init /\ In!Init /\ Id!Init /\ Pr!Init /\ Vm!Init /\ Ld!Init
  /\ Pt!Init /\ (part = "partition" \/ \A i \in {1, 2} : tables[0][i] = [type |-> 0, offset |-> 1, size |-> 0])

Next ==
  /\ UNCHANGED part
  /\ \/ part = "filesys" /\ Fs!Next
     \/ part # "filesys" /\ UNCHANGED filesys
  /\ \/ part = "inode" /\ Io!Next
     \/ part # "inode" /\ UNCHANGED inode
  /\ \/ part = "directory" /\ Di!Next
     \/ part # "directory" /\ UNCHANGED directory
  /\ \/ part = "ide_init" /\ In!Next
     \/ part # "ide_init" /\ UNCHANGED ide_init
  /\ \/ part = "partition" /\ Pt!Next
     \/ part # "partition" /\ UNCHANGED partition
  /\ \/ part = "ide" /\ Id!Next
     \/ part # "ide" /\ UNCHANGED ide
  /\ \/ part = "process" /\ Pr!Next
     \/ part # "process" /\ UNCHANGED process
  /\ \/ part = "paging" /\ Vm!Next
     \/ part # "paging" /\ UNCHANGED paging
  /\ \/ part = "load" /\ Ld!Next
     \/ part # "load" /\ UNCHANGED load

Spec == Init /\ [][Next]_vars

Symmetry == Permutations({n1, n2, n3}) \cup Permutations({h1, h2})

-----------------------------------------------------------------------------
(* filesys.c, free-map.c, inode.c: whenever the machine stops, every block
   of a file is marked in the free map on disk and is that file's alone;
   every marked sector has a use or is a known leak; the counts of an open
   inode are exact.                                                        *)
CrashSafe == part = "filesys" => Fs!CrashSafe /\ Fs!SectorsAccounted /\ Fs!CountsExact

(* inode.c, file.c: a file never shows what another wrote, while one opener
   denies writes nobody changes it, a write changes the bytes it names and
   no others, and a read returns the bytes there are.                      *)
FileContents ==
  /\ [](/\ part = "filesys" => Fs!NoStaleData
        /\ part = "inode" => Io!DiskExact /\ Io!ReadExact)
  /\ Fs!DenialHolds


(* ide.c, partition.c, block.c: the disks registered are those taken for ATA
   disks, and no command went to one that was not ready; partitions lie on
   their disk and accesses within their partition; a read returns what its
   sector holds although the line gives interrupts nobody asked for.       *)
DisksExact ==
  /\ part = "ide_init" => In!RegisteredExact /\ In!OnlyReadyIdentified
  /\ part = "partition" => Pt!PartitionsOnDisk /\ Pt!AccessConfined
  /\ part = "ide" => Id!ReadsRight

(* process.c: the active page directory is never a freed one, user code runs
   on its own directory with all its pages, and every page is free or held
   once.                                                                   *)
ProcessPages ==
  part = "process" => Pr!ActiveNotFreed /\ Pr!UserHasItsPages /\ Pr!PagesAccounted

(* pagedir.c, init.c: the translation buffer agrees with the active
   directory, a dirty or accessed bit that was cleared is set again, and
   every page of RAM is mapped, the kernel's code read-only.               *)
AddressSpaces == part = "paging" => Vm!TlbFresh /\ Vm!BitsNotLost /\ Vm!KernelMapped

(* process.c: each byte of a loaded segment is the one of the file, only
   user pages are mapped, and not page 0, and a load that fails loses no
   page.                                                                   *)
LoadedAsWritten == part = "load" => Ld!LoadedAsWritten /\ Ld!UserPagesOnly /\ Ld!NoPageLost
=============================================================================
