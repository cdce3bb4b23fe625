SPECIFICATION Spec
CONSTANTS
  w1 = w1
  w2 = w2
  sem = sem
  Main = Main
  Idle = Idle
  NULL = NULL
  idle_started = idle_started
  Worker <- MCWorker
  Shared <- MCShared
  MaxValue = 1
  alg = "roundrobin"
SYMMETRY Symmetry
INVARIANTS IndInv NoLostWakeup
PROPERTY SwitchToRunnable
