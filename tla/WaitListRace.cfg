SPECIFICATION RaceSpec
CONSTANTS
  Main = Main
  Idle = Idle
  NULL = NULL
  idle_started = idle_started
  Shared = {idle_started}
  head = head
  tail = tail
  Worker = {}
  MaxValue = 3
  MaxTicks = 3
  MaxSleep = 2
  alg = "none"
PROPERTY SleepEnds
