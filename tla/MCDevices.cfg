SPECIFICATION Spec
CONSTANTS
  NULL = NULL
  Lock = Lock
  Space = Space
  main = main
  t1 = t1
  t2 = t2
  t3 = t3
  a = a
  b = b
CHECK_DEADLOCK FALSE
INVARIANTS MonitorSafe SerialSafe ConsoleSafe DiskSafe
PROPERTIES MonitorLive IsByteQueue  KeysExact PanicReported DisplayKept
   
