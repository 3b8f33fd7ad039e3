SPECIFICATION Spec
CONSTANTS
  t1 = t1
  t2 = t2
  bx = bx
  by = by
  inner = inner
  outer = outer
  plain = plain
  i1 = i1
  i2 = i2
  global = global
  obj = obj
  v1 = v1
  v2 = v2
  v3 = v3
  NULL = NULL
  Garbage = Garbage
  Main = t1
  Thread <- TwoThreads
  Inner <- InnerLiterals
  Byref = {bx}
  Literal <- PlainLiterals
  Captures <- PlainCaptures
  GlobalBlock = global
  Object = {obj}
  Var <- ThreeVars
  HeapSize = 5
  SharedFrame = FALSE
  MallocFails = FALSE
SYMMETRY VarSymmetry
INVARIANTS
  Accounting
  MemorySafe
  OneVariable
PROPERTIES
  ForwardingStable
  ActAsAllocated
\* a program may release its last Block and stop
CHECK_DEADLOCK FALSE
