SPECIFICATION StatSpec
CONSTANTS
  Main = Main
  Idle = Idle
  NULL = NULL
  idle_started = idle_started
  Shared = {idle_started}
  Worker = {w1}
  MaxValue = 1
  MaxTicks = 1
  alg = "none"
INVARIANT ExitAnyTime
