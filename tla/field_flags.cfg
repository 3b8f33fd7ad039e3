SPECIFICATION Spec
CONSTANTS
  Value <- Values
  Errno = {0, 2, 5}
  MaxChecks = 2
INVARIANTS
  EveryFlagsBalance
  OnlyAssertionsStop
\* a failed assertion ends the program
CHECK_DEADLOCK FALSE
