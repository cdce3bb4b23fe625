SPECIFICATION Spec
CONSTANTS
  Main = Main
  Idle = Idle
  NULL = NULL
  idle_started = idle_started
  w1 = w1
  w2 = w2
  w3 = w3
  F = 16384
  INT_MAX = 2147483647
SYMMETRY Symmetry
INVARIANTS AveragesBounded WaitsReported
PROPERTIES PreemptToHighest IsRunQueue
