----------------------------- MODULE SharedCache -----------------------------
(***************************************************************************)
(* The writer of a table in the shared cache: make_perfect (PerfectHash)   *)
(* builds a hash of the strings, and write() (ClassTable, and StringTable  *)
(* below it) lays it out in the section together with the strings' and the *)
(* classes' offsets.  The keys of the builder are the strings, in any      *)
(* order.                                                                  *)
(***************************************************************************)
EXTENDS PerfectHash, ClassTable

sharedVars == <<builderVars, vars>>

\* write() has not called make_perfect, or has its result.
BuilderIdle ==
  /\ keys = {} /\ smax = 0 /\ alen = 0 /\ blen = 0 /\ val = <<>>
  /\ again = FALSE /\ badInit = 0 /\ badPerfect = 0
  /\ tab = <<>> /\ keyAt = <<>> /\ mapped = {} /\ water = <<>> /\ tail = 0
  /\ stage = "idle"

\* make_perfect runs, and nothing is written.
NothingWritten ==
  /\ strings = {} /\ remaining = 0
  /\ capacity = 0 /\ mask = 0 /\ index = [s \in String |-> 0]
  /\ offsets = <<>> /\ checkbytes = <<>> /\ left = {} /\ extent = 0
  /\ classes = {} /\ todo = {} /\ classOffsets = <<>> /\ duplicateOffsets = <<>>
  /\ swapped = {} /\ swaps = 0
  /\ phase = "hashing"

\* Without strings, and so without classes, write() calls no builder; nor does
\* OPT_INITIALIZER.
SharedInit ==
  \/ BuilderInit /\ NothingWritten
  \/ BuilderIdle /\ InitClasses /\ strings = {} /\ classes = {}

Build == BuilderNext /\ UNCHANGED vars

\* what hash() computes: of a string that was a key, its final hash; of another,
\* that of whatever (a, b) it has.  For a single key it shifts by 64, and then its
\* value is any, see HashRange.
IndexOf(ss) ==
  IF Cardinality(ss) = 1 THEN Hashes ELSE
  LET assignments == {key \in [ss -> keys] : \A s, t \in ss : key[s] = key[t] => s = t}
      any == [String \ ss -> 0 .. smax - 1] IN
  {[s \in String |-> IF s \in ss THEN HashOf(key[s]) ELSE other[s]] :
     key \in assignments, other \in any}

\* findhash frees what it allocated.
Return ==
  /\ keys' = {} /\ smax' = 0 /\ alen' = 0 /\ blen' = 0 /\ val' = <<>>
  /\ again' = FALSE /\ badInit' = 0 /\ badPerfect' = 0
  /\ tab' = <<>> /\ keyAt' = <<>> /\ mapped' = {} /\ water' = <<>> /\ tail' = 0
  /\ stage' = "idle"

\* perfect_hash phash = make_perfect(strings): smax is its capacity, blen - 1 its
\* mask.  What the section held before is the older table.
TakeResult ==
  /\ stage \in {"found", "none"}
  /\ strings' \in {ss \in StringSets : Cardinality(ss) = nkeys}
  /\ IF stage = "found"
     THEN capacity' = smax /\ mask' = blen - 1 /\ index' \in IndexOf(strings')
     ELSE capacity' = 0 /\ mask' = 0 /\ index' = index
  /\ remaining' \in Remaining /\ classes' \in ClassSets
  /\ offsets' = [h \in 0 .. capacity' - 1 |-> Offset(Stale)]
  /\ checkbytes' = [h \in 0 .. capacity' - 1 |-> CheckByte(Stale)]
  /\ phase' = "start"
  /\ UNCHANGED <<left, extent, todo, classOffsets, duplicateOffsets, swapped, swaps>>
  /\ Return

\* write(), then byteswap()
Write == stage = "idle" /\ NextClasses /\ UNCHANGED builderVars

SharedNext == Build \/ TakeResult \/ Write

SharedSpec == SharedInit /\ [][SharedNext]_sharedVars
=============================================================================
