SPECIFICATION SjfSpec
CONSTANTS
  Main = Main
  Idle = Idle
  NULL = NULL
  idle_started = idle_started
  Shared = {idle_started}
  Worker = {w1, w2}
  Names = {"a"}
  MaxValue = 1
  MaxExec = 2
  F = 16384
  INT_MAX = 2147483647
  alg = "sjf"
PROPERTY EstimateLearned
