-------------------------------- MODULE Kbd ---------------------------------
(***************************************************************************)
(* devices/kbd.c: the keyboard interrupt handler, its key maps and the     *)
(* state of the shift keys, and the input buffer of devices/input.c it     *)
(* appends to.  A scancode's second byte after the prefix e0 is read in    *)
(* the same interrupt, so a key event is one step.                         *)
(***************************************************************************)
EXTENDS Integers, Sequences, SequencesExt

CONSTANTS
  Key,        \* the keys that are struck, by the scancode of their press
  Capacity    \* of the input buffer

VARIABLES
  held,       \* external: the keys that are physically down
  down,       \* the shift keys whose state variable is true
  caps_lock, buffer, rebooted

vars == <<held, down, caps_lock, buffer, rebooted>>

(* The maps: a first scancode and the characters from there on.            *)
invariant_keymap == {
  <<1, <<27>>>>, <<14, <<8>>>>, <<28, <<13>>>>, <<55, <<42>>>>, <<57, <<32>>>>, <<83, <<127>>>>,
  <<15, <<9, 81, 87, 69, 82, 84, 89, 85, 73, 79, 80>>>>,
  <<30, <<65, 83, 68, 70, 71, 72, 74, 75, 76>>>>,
  <<44, <<90, 88, 67, 86, 66, 78, 77>>>> }

unshifted_keymap == {
  <<2, <<49, 50, 51, 52, 53, 54, 55, 56, 57, 48, 45, 61>>>>,
  <<26, <<91, 93>>>>, <<39, <<59, 39, 96>>>>, <<43, <<92>>>>, <<51, <<44, 46, 47>>>> }

shifted_keymap == {
  <<2, <<33, 64, 35, 36, 37, 94, 38, 42, 40, 41, 95, 43>>>>,
  <<26, <<123, 125>>>>, <<39, <<58, 34, 126>>>>, <<43, <<124>>>>, <<51, <<60, 62, 63>>>> }

\* Mutant: the end of a row is one off.
map_key_short(k, code) ==
  {r[2][code - r[1] + 1] : r \in {r \in k : code >= r[1] /\ code < r[1] + Len(r[2]) - 1}}

(* map_key(): the characters k has for a scancode, one or none.            *)
map_key(k, code) ==
  {r[2][code - r[1] + 1] : r \in {r \in k : code >= r[1] /\ code < r[1] + Len(r[2])}}

\* The scancodes of the table of shift keys: 0xe038 and 0xe01d are extended.
shift_keys == [shift |-> {42, 54}, alt |-> {56, 57400}, ctrl |-> {29, 57373}]
Modifiers == UNION {shift_keys[m] : m \in DOMAIN shift_keys}
CapsLock == 58
Delete == 127

tolower(c) == IF c \in 65 .. 90 THEN c + 32 ELSE c

TypeOK ==
  /\ held \subseteq Key /\ down \subseteq Modifiers
  /\ caps_lock \in BOOLEAN /\ rebooted \in BOOLEAN
  /\ buffer \in BoundedSeq(0 .. 255, Capacity)

Init == held = {} /\ down = {} /\ caps_lock = FALSE /\ buffer = << >> /\ rebooted = FALSE

Depressed(m) == down \cap shift_keys[m] # {}

\* Mutant: Caps Lock alone decides.
Cased_caps(c) == IF caps_lock THEN c ELSE tolower(c)

(* The case of a character, after the Ctrl key has been ruled out.         *)
Cased(c) == IF Depressed("shift") = caps_lock THEN tolower(c) ELSE c

(* The byte an ordinary character becomes: Ctrl, Shift and Alt.            *)
Modified(c) ==
  (IF Depressed("ctrl") /\ c \in 64 .. 95 THEN c - 64 ELSE Cased(c))
    + (IF Depressed("alt") THEN 128 ELSE 0)

Chars(code) ==
  map_key(invariant_keymap, code)
    \cup map_key(IF Depressed("shift") THEN shifted_keymap ELSE unshifted_keymap, code)

\* Mutant: a release sets the state variable too.
ShiftKey_stuck(code, release) ==
  /\ down' = IF code \in Modifiers THEN down \cup {code} ELSE down
  /\ UNCHANGED <<caps_lock, buffer, rebooted>>

ShiftKey(code, release) ==
  /\ down' = IF code \notin Modifiers THEN down
             ELSE IF release THEN down \ {code} ELSE down \cup {code}
  /\ UNCHANGED <<caps_lock, buffer, rebooted>>

(* An ordinary key is pressed.  shutdown_reboot() does not return.         *)
Ordinary(c) ==
  /\ rebooted' = (c = Delete /\ Depressed("ctrl") /\ Depressed("alt"))
  /\ buffer' = IF rebooted' \/ Len(buffer) = Capacity THEN buffer
               ELSE Append(buffer, Modified(c))
  /\ UNCHANGED <<caps_lock, down>>

keyboard_interrupt(code, release) ==
  /\ ~rebooted
  /\ IF code = CapsLock
     THEN caps_lock' = (caps_lock # ~release) /\ UNCHANGED <<down, buffer, rebooted>>
     ELSE IF Chars(code) # {}
     THEN IF release THEN UNCHANGED <<down, caps_lock, buffer, rebooted>>
                     ELSE \E c \in Chars(code) : Ordinary(c)
     ELSE ShiftKey(code, release)

(* External: keys go down, repeat while they are held, and go up.          *)
Press(k) == keyboard_interrupt(k, FALSE) /\ held' = held \cup {k}
Release(k) == k \in held /\ keyboard_interrupt(k, TRUE) /\ held' = held \ {k}

(* External: a thread reads a byte with input_getc().                      *)
Read == /\ ~rebooted /\ buffer # << >> /\ buffer' = Tail(buffer)
        /\ UNCHANGED <<held, down, caps_lock, rebooted>>

Next == Read \/ \E k \in Key : Press(k) \/ Release(k)

Spec == Init /\ [][Next]_vars

-----------------------------------------------------------------------------
Holds(m) == held \cap shift_keys[m] # {}

(* The table of shift keys: after any history of presses, repeats and
   releases, with ordinary keys in between and both keys of a pair in use, a
   shift key's state variable is true exactly while the key is down.       *)
ShiftStateExact == down = held \cap Modifiers

(* What the handler appends for the letter A follows the keys that are
   physically down: Ctrl overrides Shift and Caps Lock, which cancel each
   other, and Alt sets the high bit.                                       *)
LetterA ==
  LET c == IF Holds("ctrl") THEN 1
           ELSE IF Holds("shift") # caps_lock THEN 65 ELSE 97
  IN c + (IF Holds("alt") THEN 128 ELSE 0)

LetterFollowsKeys ==
  [][30 \in held' \ held => \/ Len(buffer) = Capacity /\ buffer' = buffer
                            \/ buffer' = Append(buffer, LetterA)]_vars

(* A digit key gives the character of the map its Shift state selects, and
   Caps Lock does not change it.                                           *)
DigitIgnoresCaps ==
  [][(13 \in held' \ held /\ Len(buffer) < Capacity /\ ~Holds("ctrl") /\ ~Holds("alt"))
       => buffer' = Append(buffer, IF Holds("shift") THEN 43 ELSE 61)]_vars
=============================================================================
