SPECIFICATION Spec
CONSTANTS
  NULL = NULL
  t1 = t1
  t2 = t2
  e1 = e1
  e2 = e2
  e3 = e3
  BITMAP_ERROR = BITMAP_ERROR
  Trap = Trap
CHECK_DEADLOCK FALSE
INVARIANTS  DivisionExact
PROPERTIES IsPageAllocator  ListsAsPromised IsDictionary BootAsAsked
