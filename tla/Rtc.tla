-------------------------------- MODULE Rtc ---------------------------------
(***************************************************************************)
(* devices/rtc.c: rtc_get_time() reads the six registers of the real-time  *)
(* clock one by one while the clock runs, and converts them to the time    *)
(* since the epoch.  Registers hold BCD.                                   *)
(***************************************************************************)
EXTENDS Integers, Sequences, FiniteSetsExt

CONSTANTS
  Starts,      \* the times the clock may show first, <<year, mon, mday, hour, min, sec>>
  MaxTicks     \* bound: seconds that pass during one call

VARIABLES
  clock,       \* external: the time, as Starts gives it
  shown,       \* the times the clock has shown since the call began
  ticks,
  regs,        \* the values read in this round, seconds first
  time         \* the result: <<days, seconds of the day>>, << >> before

vars == <<clock, shown, ticks, regs, time>>

ToBcd(n) == (n \div 10) * 16 + (n % 10)

bcd_to_bin(x) == (x % 16) + (x \div 16) * 10

(* cmos_read() of the registers in the order the code reads them: seconds,
   minutes, hour, day, month, year (since 1900, two digits).               *)
cmos_read(i) == LET f == clock[7 - i] IN ToBcd(IF i = 6 THEN f % 100 ELSE f)

days_per_month == <<31, 28, 31, 30, 31, 30, 31, 31, 30, 31, 30, 31>>

TypeOK ==
  /\ Len(clock) = 6 /\ clock \in shown /\ ticks \in 0 .. MaxTicks
  /\ Len(time) \in {0, 2}
  /\ Len(regs) <= 6 /\ \A i \in DOMAIN regs : regs[i] \in 0 .. IF i <= 2 THEN 59 ELSE 99

Init == /\ clock \in Starts /\ shown = {clock} /\ ticks = 0
        /\ regs = << >> /\ time = << >>

(* External: a second passes, with every carry up to the year.             *)
Leap(y) == y % 4 = 0 /\ (y % 100 # 0 \/ y % 400 = 0)
MonthLength(y, m) == IF m = 2 /\ Leap(y) THEN 29 ELSE days_per_month[m]

NextDay(y, m, d) ==
  IF d < MonthLength(y, m) THEN <<y, m, d + 1>>
  ELSE IF m < 12 THEN <<y, m + 1, 1>> ELSE <<y + 1, 1, 1>>

NextSecond(c) ==
  LET s == (c[4] * 60 + c[5]) * 60 + c[6] + 1
      day == IF s < 86400 THEN <<c[1], c[2], c[3]>> ELSE NextDay(c[1], c[2], c[3])
  IN day \o <<(s \div 3600) % 24, (s \div 60) % 60, s % 60>>

Tick ==
  /\ time = << >> /\ ticks < MaxTicks
  /\ clock' = NextSecond(clock) /\ shown' = shown \cup {clock'}
  /\ ticks' = ticks + 1
  /\ UNCHANGED <<regs, time>>

Read ==
  /\ time = << >> /\ Len(regs) < 6
  /\ regs' = Append(regs, bcd_to_bin(cmos_read(Len(regs) + 1)))
  /\ UNCHANGED <<clock, shown, ticks, time>>

(* The days the code computes for a year since 1970, a month and a day.    *)
Days(year, mon, mday) ==
  year * 365 + (IF year = 0 THEN 0 ELSE (year - 1) \div 4)   \* C truncates -1 / 4
    + MapThenSumSet(LAMBDA i : days_per_month[i], 1 .. mon)
    + (IF mon > 2 /\ year % 4 = 0 THEN 1 ELSE 0)
    + mday - 1

Convert(r) ==
  LET year == (IF r[6] < 70 THEN r[6] + 100 ELSE r[6]) - 70
  IN <<Days(year, r[5], r[4]), (r[3] * 60 + r[2]) * 60 + r[1]>>

\* Mutant: the seconds are not read again.
Check_once ==
  /\ time = << >> /\ Len(regs) = 6
  /\ time' = Convert(regs) /\ UNCHANGED regs
  /\ UNCHANGED <<clock, shown, ticks>>

\* Mutant: the second reading is not converted.
Check_raw ==
  /\ time = << >> /\ Len(regs) = 6
  /\ IF regs[1] = cmos_read(1) THEN time' = Convert(regs) /\ UNCHANGED regs
                               ELSE regs' = << >> /\ UNCHANGED time
  /\ UNCHANGED <<clock, shown, ticks>>

(* The end of the loop: the seconds are read again, and everything again
   if they differ.                                                         *)
Check ==
  /\ time = << >> /\ Len(regs) = 6
  /\ IF regs[1] = bcd_to_bin(cmos_read(1)) THEN time' = Convert(regs) /\ UNCHANGED regs
                                           ELSE regs' = << >> /\ UNCHANGED time
  /\ UNCHANGED <<clock, shown, ticks>>

rtc_get_time == Read \/ Check

Next == Tick \/ rtc_get_time

Spec == Init /\ [][Next]_vars /\ WF_vars(rtc_get_time)

-----------------------------------------------------------------------------
(* "We repeatedly read the time until it is stable": the registers a result
   is made from are a time the clock showed during the call, not parts of
   two, whichever carry falls between two reads.                           *)
ReadIsStable ==
  time # << >> =>
    \E c \in shown : regs = <<c[6], c[5], c[4], c[3], c[2], c[1] % 100>>

(* The call returns once the clock has not ticked for one round.           *)
ReadEnds == <>(time # << >>)
=============================================================================
