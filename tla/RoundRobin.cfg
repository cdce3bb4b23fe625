SPECIFICATION RRSpec
CONSTANTS
  Main = Main
  Idle = Idle
  NULL = NULL
  idle_started = idle_started
  Shared = {idle_started}
  Worker = {w1, w2}
  MaxValue = 1
  QUANTUM = 2
  alg = "roundrobin"
PROPERTY NoStarvation
