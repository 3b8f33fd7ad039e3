SPECIFICATION AllSpec
CONSTANTS
  k1 = k1
  k2 = k2
  k3 = k3
  k4 = k4
  k5 = k5
  None = None
  Key = {k1, k2, k3, k4, k5}
  HashValue <- SomeHashValues
  Word <- Words
  Size <- Sizes
  TopBits <- MCTopBits
  LowBits <- MCLowBits
  ExclusiveOr <- BitXor
  Permute <- MCPermute
  MaxLength = 100
  Width = 4
  Xor <- BitXor
  SCRAMBLE_LEN = 3
  RETRY_INITKEY = 2
  RETRY_PERFECT = 2
  s0 = s0
  s1 = s1
  s2 = s2
  s3 = s3
  s4 = s4
  NULL = NULL
  String = {s0, s1, s2, s3, s4}
  Empty = s0
  Stale = s3
  CheckByte <- MCCheckByte
  Offset <- MCOffset
  MaxOffset = 127
  StringSets <- SeveralStrings
  Remaining <- Sections
  Hashes <- AllHashes
  Masks = {0, 1, 3}
  ClassSets <- SomeClasses
  Parts = {"tables", "lookup8", "mix64", "scrambleinit"}
SYMMETRY KeySymmetry
INVARIANTS
  IsPerfect
  MappingExact
  LookupExact
  WithinSection
  ClassesExact
  EverythingSwappedOnce
  EveryByteOnce
  Reversible
  Permutes
\* the table is written
CHECK_DEADLOCK FALSE
