SPECIFICATION SjfSpec
CONSTANTS
  Main = Main
  Idle = Idle
  NULL = NULL
  idle_started = idle_started
  Shared = {idle_started}
  Worker = {w1, w2, w3}
  Names = {"a", "b"}
  MaxValue = 1
  MaxExec = 1
  F = 16384
  INT_MAX = 2147483647
  alg = "sjf"
SYMMETRY Symmetry
INVARIANT HistorySound
PROPERTIES ShortestFirst SjfRunQueueSpec
