------------------------------- MODULE BitSet -------------------------------
(***************************************************************************)
(* What a bitmap promises: a set of indices below a bound, changed one     *)
(* group of consecutive indices at a time, and a copy of it kept in a      *)
(* file.  last is the result of the last call.                             *)
(***************************************************************************)
EXTENDS Integers, FiniteSetsExt

CONSTANTS N, Error
VARIABLES set, saved, last
bvars == <<set, saved, last>>

BInit == set = {} /\ saved = {} /\ last = Error

Group(start, cnt) == start .. start + cnt - 1

\* The starts of the groups of cnt indices at or after start that are in S.
Fits(S, start, cnt) == {i \in start .. N - cnt : Group(i, cnt) \subseteq S}

BSet(start, cnt, value) ==
  /\ set' = IF value THEN set \cup Group(start, cnt) ELSE set \ Group(start, cnt)
  /\ UNCHANGED <<saved, last>>

BFlip(i) == set' = (set \cup {i}) \ (set \cap {i}) /\ UNCHANGED <<saved, last>>

BCount(start, cnt, value) ==
  /\ last' = Cardinality({i \in Group(start, cnt) : (i \in set) = value})
  /\ UNCHANGED <<set, saved>>

BScanAndFlip(start, cnt, value) ==
  LET S == IF value THEN set ELSE (0 .. N - 1) \ set  F == Fits(S, start, cnt) IN
  /\ last' = IF F = {} THEN Error ELSE Min(F)
  /\ set' = IF F = {} THEN set
            ELSE IF value THEN set \ Group(Min(F), cnt) ELSE set \cup Group(Min(F), cnt)
  /\ UNCHANGED saved

BSave == saved' = set /\ UNCHANGED <<set, last>>
BLoad == set' = saved /\ UNCHANGED <<saved, last>>

BNext ==
  \/ \E start \in 0 .. N, cnt \in 0 .. N, value \in BOOLEAN :
       \/ start + cnt <= N /\ (BSet(start, cnt, value) \/ BCount(start, cnt, value))
       \/ BScanAndFlip(start, cnt, value)
  \/ \E i \in 0 .. N - 1 : BFlip(i)
  \/ BSave \/ BLoad

BSpec == BInit /\ [][BNext]_bvars
=============================================================================
