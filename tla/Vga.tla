-------------------------------- MODULE Vga ---------------------------------
(***************************************************************************)
(* devices/vga.c and the beep of devices/speaker.c: threads and interrupt  *)
(* handlers write characters to the text display.  vga_putc() keeps        *)
(* interrupts off except in the middle of '\a', where a thread beeps and   *)
(* sleeps with the call half done.  A cell holds a character or a space.   *)
(***************************************************************************)
EXTENDS Integers, FiniteSets

CONSTANTS
  Thread, Char,
  COL_CNT, ROW_CNT, TAB,     \* 80, 25 and 8 in the code
  Space

Row == 0 .. ROW_CNT - 1
Col == 0 .. COL_CNT - 1

VARIABLES
  cx, cy, fb,
  cursor,        \* external: the hardware cursor, a position in the buffer
  inited,
  beeping,       \* the threads asleep in speaker_beep(), inside vga_putc()
  gate           \* external: the speaker is connected

vars == <<cx, cy, fb, cursor, inited, beeping, gate>>

TypeOK ==
  /\ cx \in Col /\ cy \in Row
  /\ fb \in [Row -> [Col -> Char \cup {Space}]]
  /\ cursor \in 0 .. COL_CNT * ROW_CNT - 1
  /\ inited \in BOOLEAN /\ gate \in BOOLEAN /\ beeping \subseteq Thread

ClearRow == [x \in Col |-> Space]

\* The state the BIOS leaves: a cursor somewhere on the screen.
Init ==
  /\ cx = 0 /\ cy = 0 /\ inited = FALSE
  /\ fb = [y \in Row |-> ClearRow]
  /\ cursor \in 0 .. COL_CNT * ROW_CNT - 1
  /\ beeping = {} /\ gate = FALSE

(* find_cursor(), by the first call of init().                             *)
find_cursor == [x |-> cursor % COL_CNT, y |-> cursor \div COL_CNT]
At == IF inited THEN [x |-> cx, y |-> cy] ELSE find_cursor

move_cursor == cursor' = cx' + COL_CNT * cy'

\* Mutant: the last row is cleared and the others are not moved.
newline_stuck(y, f) ==
  /\ cx' = 0
  /\ IF y + 1 < ROW_CNT THEN cy' = y + 1 /\ fb' = f
     ELSE cy' = ROW_CNT - 1 /\ fb' = [f EXCEPT ![ROW_CNT - 1] = ClearRow]

(* newline() on the screen f with the cursor in row y: scrolls at the end. *)
newline(y, f) ==
  /\ cx' = 0
  /\ IF y + 1 < ROW_CNT THEN cy' = y + 1 /\ fb' = f
     ELSE /\ cy' = ROW_CNT - 1
          /\ fb' = [r \in Row |-> IF r = ROW_CNT - 1 THEN ClearRow ELSE f[r + 1]]

cls == cx' = 0 /\ cy' = 0 /\ fb' = [y \in Row |-> ClearRow]

Advance(x, y, f) == IF x >= COL_CNT THEN newline(y, f) ELSE cx' = x /\ cy' = y /\ fb' = f

Round(x) == ((x + TAB) \div TAB) * TAB    \* ROUND_UP (x + 1, TAB)

(* vga_putc() for every character but the bell.                            *)
Write(c) ==
  LET x == At.x  y == At.y IN
  CASE c = "newline"   -> newline(y, fb)
    [] c = "formfeed"  -> cls
    [] c = "backspace" -> cx' = (IF x > 0 THEN x - 1 ELSE 0) /\ cy' = y /\ UNCHANGED fb
    [] c = "return"    -> cx' = 0 /\ cy' = y /\ UNCHANGED fb
    [] c = "tab"       -> Advance(Round(x), y, fb)
    [] OTHER           -> Advance(x + 1, y, [fb EXCEPT ![y][x] = c])

vga_putc(c) ==
  /\ Write(c) /\ move_cursor
  /\ inited' = TRUE /\ UNCHANGED <<beeping, gate>>

(* '\a' from a thread with interrupts on: speaker_on() and a sleep.        *)
BellStarts(t) ==
  /\ t \notin beeping
  /\ beeping' = beeping \cup {t} /\ gate' = TRUE
  /\ inited' = TRUE /\ cx' = At.x /\ cy' = At.y
  /\ UNCHANGED <<fb, cursor>>

\* Mutant: the cursor is put back where the call found it.
BellEnds_home(t) ==
  /\ t \in beeping
  /\ beeping' = beeping \ {t} /\ gate' = FALSE
  /\ cursor' = 0
  /\ UNCHANGED <<inited, cx, cy, fb>>

\* Mutant: the speaker is left on when another thread beeps.
BellEnds_loud(t) ==
  /\ t \in beeping
  /\ beeping' = beeping \ {t} /\ gate' = (gate /\ beeping # {t})
  /\ UNCHANGED <<inited, cx, cy, fb>>
  /\ move_cursor

(* The sleep is over: speaker_off(), and the end of vga_putc().            *)
BellEnds(t) ==
  /\ t \in beeping
  /\ beeping' = beeping \ {t} /\ gate' = FALSE
  /\ UNCHANGED <<inited, cx, cy, fb>>
  /\ move_cursor

Control == {"newline", "formfeed", "backspace", "return", "tab"}

Next == \/ \E c \in Char \cup Control : vga_putc(c)
        \/ \E t \in Thread : BellStarts(t) \/ BellEnds(t)

Spec == Init /\ [][Next]_vars /\ \A t \in Thread : WF_vars(BellEnds(t))

-----------------------------------------------------------------------------
(* move_cursor(): whoever wrote last, and whatever was written while a
   thread beeped in the middle of its vga_putc(), the hardware cursor is
   where the next character goes.                                          *)
CursorFollows == inited => cursor = cx + COL_CNT * cy

(* No text is lost but by a form feed or off the top: a step changes the
   cell under the cursor at most, and may then move every row up by one.   *)
TextKept ==
  [][LET Kept(d) == \A y \in Row, x \in Col :
                      y >= d /\ (x # At.x \/ y # At.y) => fb'[y - d][x] = fb[y][x]
     IN \/ fb' = [y \in Row |-> ClearRow]
        \/ Kept(0)
        \/ Kept(1) /\ fb'[ROW_CNT - 1] = ClearRow]_vars

(* "There's nothing more annoying than a machine whose beeping you can't
   stop" (speaker.c): a beep ends, also when two threads beep at once.     *)
BeepStops == gate ~> ~gate
=============================================================================
