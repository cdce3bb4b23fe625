------------------------------ MODULE IdeInit -------------------------------
(***************************************************************************)
(* ide_init() of devices/ide.c: the reset of each channel, which devices   *)
(* count as ATA disks, and which of them become block devices.             *)
(***************************************************************************)
EXTENDS Integers, Sequences

CONSTANTS
  Limit,         \* sectors in 1 GB, scaled
  Capacity       \* capacities a disk may report, 0 for one that does not answer

Channel == {0, 1}
Dev == {0, 1}
Disk == Channel \X Dev

(* What a device shows after the reset.  A missing device 0 may be answered
   for by device 1.  "ata" is either of the two signatures the code takes
   for a disk, "atapi" any other.                                          *)
Seen == [error : {0, 1, 129}, lba : {"ata", "atapi"}, drdy : BOOLEAN, bsy : BOOLEAN,
         capacity : Capacity]

VARIABLES
  seen,        \* disk -> what it shows; the registers when they are read
  chan, step,  \* the channel and the step of ide_init()
  is_ata,      \* disk -> whether it is taken for an ATA disk
  blocks       \* the disks registered, in order

vars == <<seen, chan, step, is_ata, blocks>>

Init ==
  /\ seen = << >> /\ chan = 0 /\ step = "reset"
  /\ is_ata = [d \in Disk |-> FALSE] /\ blocks = << >>

(* reset_channel(): afterwards the devices show their signatures.          *)
reset_channel ==
  /\ step = "reset" /\ chan \in Channel
  /\ \E a, b \in Seen : seen' = <<a, b>>
  /\ step' = "check0" /\ UNCHANGED <<chan, is_ata, blocks>>

\* Mutant: a device that is busy or not ready counts.
Ready_any(s) == TRUE
Ready(s) == s.drdy /\ ~s.bsy
Accepted(s, dev_no) == (s.error = 1 \/ (s.error = 129 /\ dev_no = 0)) /\ Ready(s)

(* check_device_type(): for device 0, whether device 1 is looked at.       *)
check_device_type(dev_no) ==
  LET s == seen[dev_no + 1] IN
  /\ step = (IF dev_no = 0 THEN "check0" ELSE "check1")
  /\ is_ata' = [is_ata EXCEPT ![<<chan, dev_no>>] = Accepted(s, dev_no) /\ s.lba = "ata"]
  /\ step' = IF dev_no = 0 /\ (Accepted(s, 0) \/ s.error # 129) THEN "check1" ELSE "identify0"
  /\ UNCHANGED <<seen, chan, blocks>>

\* Mutant: a disk of exactly 1 GB is let through.
TooLarge_over(c) == c > Limit
TooLarge(c) == c >= Limit

(* identify_ata_device(): a disk that does not answer, or that is too large
   to be one of a virtual machine, is dropped.                             *)
identify_ata_device(dev_no) ==
  LET d == <<chan, dev_no>>  s == seen[dev_no + 1] IN
  /\ step = (IF dev_no = 0 THEN "identify0" ELSE "identify1")
  /\ IF is_ata[d] /\ s.capacity # 0 /\ ~TooLarge(s.capacity)
     THEN blocks' = Append(blocks, [disk |-> d, size |-> s.capacity]) /\ UNCHANGED is_ata
     ELSE is_ata' = [is_ata EXCEPT ![d] = FALSE] /\ UNCHANGED blocks
  /\ IF dev_no = 0 THEN step' = "identify1" /\ UNCHANGED <<seen, chan>>
     ELSE step' = "reset" /\ chan' = chan + 1 /\ seen' = << >>

Done == chan \notin Channel /\ UNCHANGED vars
Next == reset_channel \/ Done \/ \E n \in Dev : check_device_type(n) \/ identify_ata_device(n)
Spec == Init /\ [][Next]_vars

-----------------------------------------------------------------------------
Order(d) == 2 * d[1] + d[2]

(* The disks the kernel uses are those it still takes for ATA disks, each
   once, in the order of their names, and none of 1 GB or more.            *)
RegisteredExact ==
  /\ \A i, j \in DOMAIN blocks : i < j => Order(blocks[i].disk) < Order(blocks[j].disk)
  /\ \A i \in DOMAIN blocks : is_ata[blocks[i].disk] /\ blocks[i].size < Limit
  /\ chan \notin Channel => \A d \in Disk : is_ata[d] => \E i \in DOMAIN blocks : blocks[i].disk = d

(* No command goes to a device that was busy or not ready when checked.    *)
OnlyReadyIdentified ==
  step \in {"identify0", "identify1"} => \A n \in Dev :
    is_ata[<<chan, n>>] => seen[n + 1].drdy /\ ~seen[n + 1].bsy
=============================================================================
