SPECIFICATION TestSpec
CONSTANTS
  Queue = queue
  c = c
  counting = counting
  reading = reading
  plain = plain
  importing = importing
  v1 = v1
  v2 = v2
  v3 = v3
  mainBody = mainBody
  queueBody = queueBody
  NULL = NULL
  Garbage = Garbage
  Main = main
  GlobalBlock = global
  Thread = {main, queue}
  Inner <- TestInner
  Byref = {c}
  Literal <- TestLiterals
  Captures <- TestCaptures
  Object = {}
  Var = {v1, v2, v3}
  HeapSize = 4
  SharedFrame = FALSE
  MallocFails = FALSE
  Tests <- AllTests
PROPERTY TestsPass
\* a test ends
CHECK_DEADLOCK FALSE
