-------------------------------- MODULE Pit ---------------------------------
(***************************************************************************)
(* devices/pit.c and the tones of devices/speaker.c: the counter value for *)
(* a frequency, in 16 bits, and the channels it is loaded into.  Channel 0 *)
(* drives the timer interrupt, channel 2 the speaker.                      *)
(***************************************************************************)
EXTENDS Integers

CONSTANTS PIT_HZ, Freqs, TIMER_FREQ

VARIABLES
  channel,     \* for channels 0 and 2: the frequency asked for and the counter
  gate         \* the speaker is connected to channel 2

vars == <<channel, gate>>

Init == gate = FALSE /\ channel = [c \in {0, 2} |-> [freq |-> 0, count |-> 0, mode |-> 0]]

\* Mutant: low frequencies are not told apart.
Count_wrapped(f) == ((PIT_HZ + f \div 2) \div (IF f = 0 THEN 1 ELSE f)) % 65536

(* The counter value: 0 counts as 65536, and a too high frequency gets 2.  *)
Count(f) ==
  IF f < 19 THEN 0 ELSE IF f > PIT_HZ THEN 2 ELSE ((PIT_HZ + f \div 2) \div f) % 65536


pit_configure_channel(c, mode, f) ==
  channel' = [channel EXCEPT ![c] = [freq |-> f, count |-> Count(f), mode |-> mode]]

(* timer_init(), at boot.                                                  *)
timer_init == channel[0].mode = 0 /\ pit_configure_channel(0, 2, TIMER_FREQ) /\ UNCHANGED gate

speaker_off == gate' = FALSE /\ UNCHANGED channel

(* speaker_on(): frequencies nobody hears turn the speaker off.            *)
speaker_on(f) ==
  IF f \in 20 .. 20000 THEN pit_configure_channel(2, 3, f) /\ gate' = TRUE ELSE speaker_off

(* Any other caller of the function: both modes, any frequency.            *)
Configure(f) == \E mode \in {2, 3} : pit_configure_channel(2, mode, f) /\ UNCHANGED gate

Next == timer_init \/ speaker_off \/ \E f \in Freqs : speaker_on(f) \/ Configure(f)

Spec == Init /\ [][Next]_vars

-----------------------------------------------------------------------------
(* The 16-bit counter never wraps: its period is the one nearest to the
   frequency asked for, wherever the hardware can count it at all.         *)
PeriodNearest ==
  \A c \in {0, 2} :
    LET f == channel[c].freq  n == IF channel[c].count = 0 THEN 65536 ELSE channel[c].count
    IN channel[c].mode # 0 =>
       /\ f \in 19 .. PIT_HZ => 2 * (n * f - PIT_HZ) \in -f .. f
       /\ f < 19 => n = 65536

(* Tones leave the timer's channel alone: the tick keeps TIMER_FREQ.       *)
TimerUndisturbed ==
  channel[0].mode # 0 => channel[0].freq = TIMER_FREQ /\ channel[0].mode = 2
=============================================================================
