----------------------------- MODULE Assertions -----------------------------
(***************************************************************************)
(* The checks of os/assumes.h that runtime.cpp makes of its arguments and  *)
(* counts (os_assumes, os_assert) and their variants: a failed assumption  *)
(* is logged and the program goes on, a failed assertion ends it.          *)
(***************************************************************************)
EXTENDS Integers, Sequences

CONSTANTS Value, Errno, MaxChecks

Assumptions == {"os_assumes", "os_assumes_zero", "posix_assumes_zero"}
Asserts == {"os_assert", "os_assert_zero", "posix_assert_zero"}
Posix == {"posix_assumes_zero", "posix_assert_zero"}

VARIABLES
  macro, e,   \* the check under way, and the value of its expression
  constant,   \* the compiler knows that value
  errno,
  callback,   \* a crash callback is set
  pc,         \* "evaluated", "logging", "crashing", "continued", "trapped"
  log,        \* the codes that were logged
  failures    \* what should have been: the code of each failed check

vars == <<macro, e, constant, errno, callback, pc, log, failures>>

Init ==
  /\ macro = "os_assumes" /\ e = 1 /\ constant = FALSE
  /\ errno = 0
  /\ callback \in BOOLEAN
  /\ pc = "continued"
  /\ log = <<>> /\ failures = <<>>

Failed(m, x) ==
  CASE m \in {"os_assumes", "os_assert"} -> x = 0
    [] m \in {"os_assumes_zero", "os_assert_zero"} -> x # 0
    [] OTHER -> x = -1

\* A call of the C library sets errno only when it answers -1.
Evaluate(m) ==
  /\ pc = "continued" /\ Len(failures) < MaxChecks
  /\ \E x \in Value, n \in Errno, k \in BOOLEAN :
       \* __OS_COMPILETIME_ASSERT__: a constant that fails does not compile
       /\ (k /\ m \notin Posix) => ~Failed(m, x)
       /\ e' = x /\ constant' = k
       /\ errno' = IF x = -1 THEN n ELSE errno
       /\ failures' =
            IF m \in Posix /\ x = -1 THEN Append(failures, n)
            ELSE IF m \notin Posix /\ ((x = 0) = (m \in {"os_assumes", "os_assert"}))
              THEN Append(failures, x)
            ELSE failures
  /\ macro' = m
  /\ pc' = "evaluated"
  /\ UNCHANGED <<callback, log>>

Test ==
  /\ pc = "evaluated"
  /\ pc' = IF Failed(macro, e) THEN "logging" ELSE "continued"
  /\ UNCHANGED <<macro, e, constant, errno, callback, log, failures>>

Code == IF macro \in Posix THEN errno ELSE e

\* _os_assumes_log or _os_assert_log, which may change errno itself
Log ==
  /\ pc = "logging"
  /\ log' = Append(log, Code)
  /\ errno' \in Errno
  /\ pc' = IF macro \in Asserts THEN "crashing" ELSE "continued"
  /\ UNCHANGED <<macro, e, constant, callback, failures>>

\* Mutant of Crash: a callback that returns takes the place of the trap.
CrashRedirected ==
  /\ pc = "crashing"
  /\ pc' = IF callback THEN "continued" ELSE "trapped"
  /\ UNCHANGED <<macro, e, constant, errno, callback, log, failures>>

\* os_crash: the message may be "redirected to a callback function", and then
\* os_hardware_trap; the free that follows is never reached.
Crash ==
  /\ pc = "crashing"
  /\ pc' = "trapped"
  /\ UNCHANGED <<macro, e, constant, errno, callback, log, failures>>

os_set_crash_callback ==
  /\ pc = "continued"
  /\ callback' \in BOOLEAN
  /\ UNCHANGED <<macro, e, constant, errno, pc, log, failures>>

Next ==
  \/ \E m \in Assumptions \cup Asserts : Evaluate(m)
  \/ Test \/ Log \/ Crash
  \/ os_set_crash_callback

Spec == Init /\ [][Next]_vars

\* each failure is logged once, in order, with the value that failed or, "as
\* though os_assumes_zero(errno) was used", with the error that was its reason
EveryFailureLogged == pc \in {"continued", "trapped"} => log = failures

\* The program does not go on after an assertion that failed, callback or not,
\* and goes on after every other check; nothing that failed goes unlogged.
OnlyAssertionsStop ==
  /\ pc = "continued" /\ macro \in Asserts => ~Failed(macro, e)
  /\ pc = "trapped" => macro \in Asserts /\ failures # <<>>
  /\ EveryFailureLogged
=============================================================================
