SPECIFICATION PartsSpec
CONSTANTS
  NULL = NULL
  Beyond = Beyond
  Emitted <- EmittedType
  MaxCount = 3
  Default = Default
  Registrar = {objc, corefoundation}
  Blocks = {k1, k2}
  StackBlock = {sb}
  HeapBlock = {hb1, hb2}
  StackByref = {sr}
  HeapByref = {hr}
  DescriptorPart = {d}
  Function = {f, g}
  NullFn = NullFn
  Trap = Trap
  Garbage = Garbage
  MaxWords = 3
  t1 = t1
  t2 = t2
  h1 = h1
  h2 = h2
  h3 = h3
  Thread = {t1, t2}
  Main = t1
  Holder = {h1, h2, h3}
  Scope = declaring
  None = None
INVARIANTS
  AnswersAsEmitted
  HelpersPair
  ReleasedByRetainer
  Authenticates
  CopyComplete
  VariableSafe
PROPERTIES
  VariableAllocated
\* a Block or a variable that was freed is done
CHECK_DEADLOCK FALSE
