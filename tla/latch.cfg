SPECIFICATION FairSpec
CONSTANTS
  t1 = t1
  t2 = t2
  t3 = t3
  r1 = r1
  r2 = r2
  r3 = r3
  r4 = r4
  h1 = h1
  NoThread = NoThread
  NoRef = NoRef
  NoWord = NoWord
  Thread <- ThreeThreads
  Ref <- FourRefs
  HelperRef <- OneHelperRef
  BLOCK_REFCOUNT_MASK = 6
  HighBits = 1
INVARIANTS
  TypeOK
  CountExact
  DisposedOnce
  HighBitsKept
  NoUseAfterFree
PROPERTIES
  LatchIsForever
  TryRetainExact
  ImplementsAtomicCount
  LockFree
  Reclaimed
\* a program may drop its last reference and stop
CHECK_DEADLOCK FALSE
