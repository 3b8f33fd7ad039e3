---------------------------- MODULE MCFieldFlags -----------------------------
(* Every flags argument of the two switches, each step setting or clearing one *)
(* bit; and, as behaviours of their own, sequences of the checks that the two  *)
(* functions and their neighbours make of arguments and counts.                *)
EXTENDS FieldFlags, Integers

CONSTANTS Value, Errno, MaxChecks

Values == {-1, 0, 1}

VARIABLES
  part, flags,
  macro, e, constant, errno, callback, pc, log, failures  \* those of Assertions

Checks == INSTANCE Assertions

checkVars == <<macro, e, constant, errno, callback, pc, log, failures>>

Init ==
  /\ part \in {"switches", "checks"}
  /\ flags = {}
  /\ Checks!Init /\ (part = "switches" => ~callback)

SetBit == \E b \in Bit \ flags : flags' = flags \cup {b}
ClearBit == \E b \in flags : flags' = flags \ {b}

Next ==
  /\ UNCHANGED part
  /\ \/ part = "switches" /\ (SetBit \/ ClearBit) /\ UNCHANGED checkVars
     \/ part = "checks" /\ Checks!Next /\ UNCHANGED flags

Spec == Init /\ [][Next]_<<part, flags, checkVars>>

\* _Block_object_assign and _Block_object_dispose agree on every argument.
EveryFlagsBalance == HelpersBalance(flags)

\* Failed assertions, and only they, end the program; every failure is logged.
OnlyAssertionsStop == Checks!OnlyAssertionsStop

=============================================================================
