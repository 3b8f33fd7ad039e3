-------------------------- MODULE FieldFlagsProofs ---------------------------
(* The switches of runtime.cpp balance, for every flags argument; and the      *)
(* checks of os/assumes.h stop the program exactly where an assertion failed,  *)
(* for every value that a checked expression or errno may have.                *)
EXTENDS MCFieldFlags, Integers, Sequences, TLAPS

\* The labels of the two switches are different values: no value is
\* dispatched to two cases.
LEMMA LabelsDiffer ==
  /\ BLOCK_FIELD_IS_OBJECT # BLOCK_FIELD_IS_BLOCK
  /\ BLOCK_FIELD_IS_OBJECT \notin ByrefLabels \cup CallerLabels
  /\ BLOCK_FIELD_IS_BLOCK \notin ByrefLabels \cup CallerLabels
  /\ ByrefLabels \cap CallerLabels = {}
<1>1. 4 \in BLOCK_FIELD_IS_BLOCK /\ 4 \notin BLOCK_FIELD_IS_OBJECT
  BY DEF BLOCK_FIELD_IS_OBJECT, BLOCK_FIELD_IS_BLOCK
<1>2. 128 \notin BLOCK_FIELD_IS_BLOCK /\ 128 \notin BLOCK_FIELD_IS_OBJECT
  BY DEF BLOCK_FIELD_IS_OBJECT, BLOCK_FIELD_IS_BLOCK
<1>3. 8 \notin BLOCK_FIELD_IS_BLOCK /\ 8 \notin BLOCK_FIELD_IS_OBJECT
  BY DEF BLOCK_FIELD_IS_OBJECT, BLOCK_FIELD_IS_BLOCK
<1>4. \A f \in ByrefLabels : 8 \in f /\ 128 \notin f
  BY DEF ByrefLabels, BLOCK_FIELD_IS_BYREF, BLOCK_FIELD_IS_WEAK
<1>5. \A f \in CallerLabels : 128 \in f
  BY DEF CallerLabels, BLOCK_BYREF_CALLER
<1> QED
  BY <1>1, <1>2, <1>3, <1>4, <1>5

\* What _Block_object_assign takes hold of, _Block_object_dispose gives back,
\* and nothing else, whatever the flags a helper passes.
THEOREM EveryHelperBalances == \A argument : HelpersBalance(argument)
<1> SUFFICES ASSUME NEW argument PROVE HelpersBalance(argument)
  OBVIOUS
<1> DEFINE f == argument \cap BLOCK_ALL_COPY_DISPOSE_FLAGS
<1>1. CASE f = BLOCK_FIELD_IS_OBJECT
  BY <1>1, LabelsDiffer DEF HelpersBalance, AssignKind, DisposeKind
<1>2. CASE f = BLOCK_FIELD_IS_BLOCK
  BY <1>2, LabelsDiffer DEF HelpersBalance, AssignKind, DisposeKind
<1>3. CASE f \in ByrefLabels
  BY <1>3, LabelsDiffer DEF HelpersBalance, AssignKind, DisposeKind
<1>4. CASE f \in CallerLabels
  BY <1>4, LabelsDiffer DEF HelpersBalance, AssignKind, DisposeKind
<1>5. CASE /\ f # BLOCK_FIELD_IS_OBJECT /\ f # BLOCK_FIELD_IS_BLOCK
           /\ f \notin ByrefLabels /\ f \notin CallerLabels
  BY <1>5 DEF HelpersBalance, AssignKind, DisposeKind
<1> QED
  BY <1>1, <1>2, <1>3, <1>4, <1>5

\* So the two switches agree in every state of the run over all arguments.
THEOREM AllFlagsBalance == Spec => []EveryFlagsBalance
<1>1. EveryFlagsBalance
  BY EveryHelperBalances DEF EveryFlagsBalance
<1> QED
  BY <1>1, PTL

-----------------------------------------------------------------------------
(* The checks of os/assumes.h *)

Macro == Checks!Assumptions \cup Checks!Asserts
Codes == Value \cup Errno \cup {0, 1}   \* 0 and 1: the first state's

CheckTypeInv ==
  /\ macro \in Macro
  /\ e \in Codes /\ errno \in Codes
  /\ pc \in {"evaluated", "logging", "crashing", "continued", "trapped"}
  /\ log \in Seq(Codes) /\ failures \in Seq(Codes)

\* What is still to be logged is the one code that the log will find: neither
\* the value nor errno changes between the evaluation and the log.
CheckInv ==
  /\ CheckTypeInv
  /\ pc = "evaluated" =>
       failures = IF Checks!Failed(macro, e) THEN Append(log, Checks!Code) ELSE log
  /\ pc = "logging" => Checks!Failed(macro, e) /\ failures = Append(log, Checks!Code)
  /\ pc \in {"crashing", "trapped"} =>
       macro \in Checks!Asserts /\ failures = log /\ failures # <<>>
  /\ pc = "continued" =>
       failures = log /\ (macro \in Checks!Asserts => ~Checks!Failed(macro, e))

\* The code of a failed check: the error that was its reason, or the value.
LEMMA CodeToLog ==
  ASSUME CheckInv, NEW m \in Macro, Checks!Evaluate(m)
  PROVE  failures' = (IF Checks!Failed(macro, e) THEN Append(log, Checks!Code) ELSE log)'
<1>1. log' = log /\ failures = log /\ macro' = m
  BY DEF Checks!Evaluate, CheckInv
<1>2. PICK x \in Value, n \in Errno :
        /\ e' = x /\ errno' = IF x = -1 THEN n ELSE errno
        /\ failures' =
             IF m \in Checks!Posix /\ x = -1 THEN Append(failures, n)
             ELSE IF m \notin Checks!Posix /\ ((x = 0) = (m \in {"os_assumes", "os_assert"}))
               THEN Append(failures, x)
             ELSE failures
  BY DEF Checks!Evaluate
<1>3. CASE m \in Checks!Posix
  <2>1. Checks!Failed(m, x) <=> x = -1
    BY <1>3 DEF Checks!Failed, Checks!Posix
  <2> QED
    BY <1>1, <1>2, <1>3, <2>1 DEF Checks!Code
<1>4. CASE m \in {"os_assumes", "os_assert"}
  <2>1. Checks!Failed(m, x) <=> x = 0
    BY <1>4 DEF Checks!Failed
  <2> QED
    BY <1>1, <1>2, <1>4, <2>1 DEF Checks!Code, Checks!Posix
<1>5. CASE m \in {"os_assumes_zero", "os_assert_zero"}
  <2>1. Checks!Failed(m, x) <=> x # 0
    BY <1>5 DEF Checks!Failed
  <2> QED
    BY <1>1, <1>2, <1>5, <2>1 DEF Checks!Code, Checks!Posix
<1> QED
  BY <1>3, <1>4, <1>5 DEF Macro, Checks!Assumptions, Checks!Asserts, Checks!Posix

LEMMA CheckStep == CheckInv /\ Checks!Next => CheckInv'
<1> SUFFICES ASSUME CheckInv, Checks!Next PROVE CheckInv'
  OBVIOUS
<1>1. ASSUME NEW m \in Macro, Checks!Evaluate(m) PROVE CheckInv'
  <2>1. CheckTypeInv'
    BY <1>1 DEF Checks!Evaluate, CheckInv, CheckTypeInv, Codes
  <2>2. pc' = "evaluated"
    BY <1>1 DEF Checks!Evaluate
  <2> QED
    BY <1>1, <2>1, <2>2, CodeToLog DEF CheckInv
<1>2. CASE Checks!Test
  BY <1>2 DEF Checks!Test, CheckInv, CheckTypeInv, Checks!Code
<1>3. CASE Checks!Log
  <2>1. CheckTypeInv'
    BY <1>3 DEF Checks!Log, CheckInv, CheckTypeInv, Checks!Code, Codes
  <2>2. log' = failures /\ failures' = failures /\ failures # <<>>
    BY <1>3 DEF Checks!Log, CheckInv, CheckTypeInv, Checks!Code
  <2>3. pc' = (IF macro \in Checks!Asserts THEN "crashing" ELSE "continued") /\ macro' = macro
    BY <1>3 DEF Checks!Log
  <2> QED
    BY <2>1, <2>2, <2>3 DEF CheckInv
<1>4. CASE Checks!Crash
  BY <1>4 DEF Checks!Crash, CheckInv, CheckTypeInv
<1>5. CASE Checks!os_set_crash_callback
  BY <1>5 DEF Checks!os_set_crash_callback, CheckInv, CheckTypeInv
<1> QED
  BY <1>1, <1>2, <1>3, <1>4, <1>5 DEF Checks!Next, Macro

\* Whatever the values checked and whatever becomes of errno: the program never
\* goes on after a failed os_assert, with a crash callback or without one, it
\* ends for no other reason, and every failure up to then is logged with the
\* value, or the error, that was its reason.
THEOREM AssertionsStop == Spec => []OnlyAssertionsStop
<1>1. Init => CheckInv
  BY DEF Init, Checks!Init, CheckInv, CheckTypeInv, Macro, Checks!Assumptions, Checks!Asserts, Codes
<1>2. CheckInv /\ [Next]_<<part, flags, checkVars>> => CheckInv'
  <2>1. CheckInv /\ UNCHANGED checkVars => CheckInv'
    BY DEF checkVars, CheckInv, CheckTypeInv, Checks!Code, Checks!Failed
  <2> QED
    BY <2>1, CheckStep DEF Next
<1>3. CheckInv => OnlyAssertionsStop
  BY DEF CheckInv, OnlyAssertionsStop, Checks!OnlyAssertionsStop, Checks!EveryFailureLogged
<1> QED
  BY <1>1, <1>2, <1>3, PTL DEF Spec

=============================================================================
