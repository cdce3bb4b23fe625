SPECIFICATION MlfqsSpec
CONSTANTS
  Main = Main
  Idle = Idle
  NULL = NULL
  idle_started = idle_started
  Shared = {idle_started}
  Worker = {w1}
  MaxValue = 1
  MaxTicks = 2
  QUANTUM = 1
  TIMER_FREQ = 100
  PRI_MAX = 63
  Priorities = {31}
  Nices = {}
  F = 16384
  INT_MAX = 2147483647
  alg = "mlfqs"
PROPERTY RunningCharged
