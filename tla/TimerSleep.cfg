SPECIFICATION TimerSpec
CONSTANTS
  Main = Main
  Idle = Idle
  NULL = NULL
  idle_started = idle_started
  Shared = {idle_started}
  Worker = {w1, w2}
  MaxValue = 2
  MaxTicks = 2
  MaxSleep = 2
  alg = "roundrobin"
INVARIANT WaitListExact
PROPERTIES WokenOnTime SleeperWoken
