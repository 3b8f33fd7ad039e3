----------------------------- MODULE AtomicCount -----------------------------
(***************************************************************************)
(* What the reference count of a heap Block promises, without words, loops *)
(* or threads: every reference is taken and dropped in one step, the drop  *)
(* of the last one starts the disposal of the object in that same step, a  *)
(* dying object is only retained by its own dispose helper, and an object  *)
(* that ever had Limit references is never disposed of.                    *)
(* LatchingCount is shown to implement it.                                 *)
(***************************************************************************)
EXTENDS Integers, FiniteSets

CONSTANTS
  Ref,        \* the program's variables that can own a reference
  HelperRef,  \* the same, for the local variables of the dispose helper
  Limit       \* references at which the count saturates, 0x7fff in the code

VARIABLES refs, saturated, phase

vars == <<refs, saturated, phase>>

Saturates(R) == Cardinality(R) = Limit

Init ==
  /\ refs \in {R \in SUBSET Ref : Cardinality(R) \in {1, 2}}
  /\ saturated = Saturates(refs)
  /\ phase = "live"

\* _Block_copy of a heap Block, _Block_tryRetain that answers true
Acquire(r) ==
  /\ r \notin refs
  /\ r \in (IF phase = "live" THEN Ref ELSE HelperRef)
  /\ phase \in {"live", "disposing"}
  /\ refs' = refs \cup {r}
  /\ saturated' = (saturated \/ Saturates(refs'))
  /\ UNCHANGED phase

\* _Block_release
Drop(r) ==
  /\ r \in refs
  /\ refs' = refs \ {r}
  /\ phase' = IF phase = "live" /\ ~saturated /\ refs' = {} THEN "disposing" ELSE phase
  /\ UNCHANGED saturated

\* the dispose helper has returned and the weak references are cleared
Destruct ==
  /\ phase = "disposing"
  /\ refs = {}
  /\ phase' = "destructed"
  /\ UNCHANGED <<refs, saturated>>

Free ==
  /\ phase = "destructed"
  /\ phase' = "freed"
  /\ UNCHANGED <<refs, saturated>>

Next ==
  \/ \E r \in Ref \cup HelperRef : Acquire(r) \/ Drop(r)
  \/ Destruct
  \/ Free

Spec == Init /\ [][Next]_vars

=============================================================================
