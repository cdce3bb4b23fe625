------------------------------ MODULE InodeIo -------------------------------
(***************************************************************************)
(* inode_read_at() and inode_write_at() of filesys/inode.c, one step per   *)
(* turn of their loops, and the file position of filesys/file.c.  The file *)
(* starts at sector 1 of the disk; the sectors around it are not its own.  *)
(***************************************************************************)
EXTENDS Integers, Sequences, SequencesExt, FiniteSetsExt

CONSTANTS
  BLOCK_SECTOR_SIZE,    \* 512 in the code
  Length, MaxSize,      \* the file's length; bound on the size and place of a call
  NULL

Start == 1
LastSector == Start + (Length + BLOCK_SECTOR_SIZE - 1) \div BLOCK_SECTOR_SIZE
Byte == {0, 1}
Ofs == 0 .. MaxSize

VARIABLES
  disk,       \* sector -> its bytes
  pos,        \* the file's position
  call,       \* NULL or the call that is running
  content     \* ghost: the bytes of the file when the last call returned

vars == <<disk, pos, call, content>>

Init ==
  /\ disk = [s \in 0 .. LastSector |-> [i \in 1 .. BLOCK_SECTOR_SIZE |-> 0]]
  /\ pos = 0 /\ call = NULL /\ content = [i \in 1 .. Length |-> 0]

byte_to_sector(p) == IF p < Length THEN Start + (p \div BLOCK_SECTOR_SIZE) ELSE -1

\* Mutant: the last byte of the file is out of reach.
min_left_short(ofs) == Min({Length - ofs - 1, BLOCK_SECTOR_SIZE - (ofs % BLOCK_SECTOR_SIZE)})
min_left(ofs) == Min({Length - ofs, BLOCK_SECTOR_SIZE - (ofs % BLOCK_SECTOR_SIZE)})
chunk_size(c) == IF c.size = 0 THEN 0 ELSE Min({c.size, min_left(c.offset)})

(* file_read(), file_write(): at the position; the _at functions: anywhere. *)
Enter(kind, size, ofs, at) ==
  /\ call = NULL
  /\ \E b \in Byte :
       call' = [kind |-> kind, size |-> size, offset |-> ofs, first |-> ofs, asked |-> size, at |-> at,
                byte |-> b, done |-> 0, bounce |-> FALSE, buf |-> << >>, short |-> FALSE]
  /\ UNCHANGED <<disk, pos, content>>

file_seek(p) == call = NULL /\ pos' = p /\ UNCHANGED <<disk, call, content>>

Advance(c, n) == [c EXCEPT !.size = @ - n, !.offset = @ + n, !.done = @ + n]

Chunk == chunk_size(call)
Whole == call.offset % BLOCK_SECTOR_SIZE = 0 /\ Chunk = BLOCK_SECTOR_SIZE
Taken(c) == IF Whole THEN c ELSE [c EXCEPT !.bounce = TRUE]

\* Mutant: a part of a sector is written over zeros.
Bounce_zeros(s, ofs) == [i \in 1 .. BLOCK_SECTOR_SIZE |-> 0]

(* What the bounce buffer holds before the bytes of the caller go in.      *)
Bounce(s, ofs) ==
  IF ofs > 0 \/ Chunk < BLOCK_SECTOR_SIZE - ofs THEN disk[s] ELSE [i \in 1 .. BLOCK_SECTOR_SIZE |-> 0]

ReadChunk ==
  LET s == byte_to_sector(call.offset)  ofs == call.offset % BLOCK_SECTOR_SIZE IN
  /\ call # NULL /\ call.kind = "read" /\ ~call.short /\ Chunk > 0
  /\ call' = Advance([Taken(call) EXCEPT !.buf = @ \o SubSeq(disk[s], ofs + 1, ofs + Chunk)], Chunk)
  /\ UNCHANGED <<disk, pos, content>>

WriteChunk ==
  LET s == byte_to_sector(call.offset)  ofs == call.offset % BLOCK_SECTOR_SIZE
      old == IF Whole THEN disk[s] ELSE Bounce(s, ofs) IN
  /\ call # NULL /\ call.kind = "write" /\ ~call.short /\ Chunk > 0
  /\ disk' = [disk EXCEPT ![s] = [i \in DOMAIN old |-> IF i \in ofs + 1 .. ofs + Chunk THEN call.byte ELSE old[i]]]
  /\ call' = Advance(Taken(call), Chunk)
  /\ UNCHANGED <<pos, content>>

(* No memory for the bounce buffer: the call ends short.                   *)
NoBounce ==
  /\ call # NULL /\ ~call.short /\ Chunk > 0 /\ ~Whole /\ ~call.bounce
  /\ call' = [call EXCEPT !.short = TRUE]
  /\ UNCHANGED <<disk, pos, content>>

Overlay(c) == [i \in 1 .. Length |-> IF c.kind = "write" /\ i \in c.first + 1 .. c.first + c.done
                                     THEN c.byte ELSE content[i]]

Return ==
  /\ call # NULL /\ (call.short \/ Chunk <= 0)
  /\ pos' = IF call.at THEN pos ELSE pos + call.done
  /\ content' = Overlay(call) /\ call' = NULL
  /\ UNCHANGED disk

Next ==
  \/ \E k \in {"read", "write"}, n \in 0 .. MaxSize :
       Enter(k, n, pos, FALSE) \/ \E o \in Ofs : Enter(k, n, o, TRUE)
  \/ \E p \in Ofs : file_seek(p)
  \/ ReadChunk \/ WriteChunk \/ NoBounce \/ Return

Spec == Init /\ [][Next]_vars

-----------------------------------------------------------------------------
(* At every step of a write the disk holds the old bytes of the file with
   those written so far on top, and no byte outside the file has changed.  *)
DiskExact ==
  /\ \A i \in 1 .. Length :
       disk[Start + ((i - 1) \div BLOCK_SECTOR_SIZE)][((i - 1) % BLOCK_SECTOR_SIZE) + 1]
         = IF call = NULL THEN content[i] ELSE Overlay(call)[i]
  /\ \A s \in DOMAIN disk, j \in 1 .. BLOCK_SECTOR_SIZE :
       (s - Start) * BLOCK_SECTOR_SIZE + j \notin 1 .. Length => disk[s][j] = 0

(* "Returns the number of bytes actually read, which may be less than SIZE
   if an error occurs or end of file is reached": the bytes are those of the
   file, and the count is all there is unless memory ran out.              *)
ReadExact ==
  call # NULL /\ (call.short \/ chunk_size(call) <= 0) =>
    /\ call.kind = "read" => call.buf = SubSeq(content, call.first + 1, call.first + call.done)
    /\ ~call.short => call.done = Max({0, Min({call.asked, Length - call.first})})
=============================================================================
