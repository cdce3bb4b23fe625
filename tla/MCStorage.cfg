SPECIFICATION Spec
CONSTANTS
  NULL = NULL
  n1 = n1
  n2 = n2
  n3 = n3
  h1 = h1
  h2 = h2
  p1 = p1
  p2 = p2
  pd1 = pd1
  pd2 = pd2
  fr1 = fr1
  fr2 = fr2
  t1 = t1
  t2 = t2
SYMMETRY Symmetry
CHECK_DEADLOCK FALSE
INVARIANTS CrashSafe  DisksExact ProcessPages AddressSpaces LoadedAsWritten
PROPERTY FileContents
