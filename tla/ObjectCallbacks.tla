--------------------------- MODULE ObjectCallbacks ---------------------------
(***************************************************************************)
(* _Block_use_RR2 and the three callbacks it installs.  The Objective-C    *)
(* runtime and CoreFoundation both register (the comment above it), each   *)
(* call is three separate stores that nothing orders for other threads,    *)
(* and copies and disposals of Blocks read one callback at a time.  Each   *)
(* Block here captures one object.                                         *)
(***************************************************************************)
CONSTANTS
  Registrar,  \* whoever calls _Block_use_RR2
  Default,    \* stands for the three *_default functions, which do nothing
  Blocks      \* heap Blocks

ASSUME DefaultAssumption == Default \notin Registrar

Callback == {"retain", "release", "destructInstance"}

VARIABLES
  hook,     \* hook[c]: whose callback c is installed
  storing,  \* storing[r]: the stores that r's call has yet to make
  phase,    \* phase[k]: "none", "live", "disposed" (helper ran), "destructed"
  retainer, \* retainer[k]: whose retain the object of Block k got
  mixed,    \* history: the last registration met another under way
  disturbed \* history: disturbed[k]: Block k met a registration by another than
            \* its retainer, or was copied in the middle of one or while mixed

callbackVars == <<hook, storing, phase, retainer, mixed, disturbed>>

CallbacksInit ==
  /\ hook = [c \in Callback |-> Default]
  /\ storing = [r \in Registrar |-> {}]
  /\ phase = [k \in Blocks |-> "none"]
  /\ retainer = [k \in Blocks |-> Default]
  /\ mixed = FALSE
  /\ disturbed = [k \in Blocks |-> FALSE]

Registering == \E r \in Registrar : storing[r] # {}

\* Block k, whose callbacks the runtime has still to call
Holds(k) == phase[k] \in {"live", "disposed"}

-----------------------------------------------------------------------------
(* _Block_use_RR2 *)

UseRR2(r) ==
  /\ storing[r] = {}
  /\ storing' = [storing EXCEPT ![r] = Callback]
  /\ mixed' = Registering
  /\ disturbed' = [k \in Blocks |-> disturbed[k] \/ (Holds(k) /\ retainer[k] # r)]
  /\ UNCHANGED <<hook, phase, retainer>>

\* Mutant of Store: destructInstance is not taken over.
StoreWithoutDestruct(r, c) ==
  /\ c \in storing[r]
  /\ hook' = IF c = "destructInstance" THEN hook ELSE [hook EXCEPT ![c] = r]
  /\ storing' = [storing EXCEPT ![r] = @ \ {c}]
  /\ UNCHANGED <<phase, retainer, mixed, disturbed>>

Store(r, c) ==
  /\ c \in storing[r]
  /\ hook' = [hook EXCEPT ![c] = r]
  /\ storing' = [storing EXCEPT ![r] = @ \ {c}]
  /\ UNCHANGED <<phase, retainer, mixed, disturbed>>

-----------------------------------------------------------------------------
(* Readers of the callbacks *)

\* _Block_object_assign, case BLOCK_FIELD_IS_OBJECT, in the copy of k
Assign(k) ==
  /\ phase[k] = "none"
  /\ phase' = [phase EXCEPT ![k] = "live"]
  /\ retainer' = [retainer EXCEPT ![k] = hook["retain"]]
  /\ disturbed' = [disturbed EXCEPT ![k] = Registering \/ mixed]
  /\ UNCHANGED <<hook, storing, mixed>>

\* _Block_object_dispose, case BLOCK_FIELD_IS_OBJECT: the object goes to
\* hook["release"], whoever retained it.
Dispose(k) ==
  /\ phase[k] = "live"
  /\ phase' = [phase EXCEPT ![k] = "disposed"]
  /\ UNCHANGED <<hook, storing, retainer, mixed, disturbed>>

\* _Block_release after the helper: _Block_destructInstance, then free
DestructInstance(k) ==
  /\ phase[k] = "disposed"
  /\ phase' = [phase EXCEPT ![k] = "destructed"]
  /\ UNCHANGED <<hook, storing, retainer, mixed, disturbed>>

FreeBlock(k) ==
  /\ phase[k] = "destructed"
  /\ phase' = [phase EXCEPT ![k] = "none"]
  /\ UNCHANGED <<hook, storing, retainer, mixed, disturbed>>

CallbacksNext ==
  \/ \E r \in Registrar : UseRR2(r) \/ \E c \in Callback : Store(r, c)
  \/ \E k \in Blocks : Assign(k) \/ Dispose(k) \/ DestructInstance(k) \/ FreeBlock(k)

CallbacksSpec == CallbacksInit /\ [][CallbacksNext]_callbackVars

-----------------------------------------------------------------------------

CallbacksTypeOK ==
  /\ hook \in [Callback -> Registrar \cup {Default}]
  /\ storing \in [Registrar -> SUBSET Callback]
  /\ phase \in [Blocks -> {"none", "live", "disposed", "destructed"}]
  /\ retainer \in [Blocks -> Registrar \cup {Default}]
  /\ mixed \in BOOLEAN
  /\ disturbed \in [Blocks -> BOOLEAN]

\* The object of a Block is released through whoever retained it, and whoever
\* retained it also destructs the Block, however often the callbacks are replaced
\* before the copy and by whomever, and also when the retainer registers again
\* while the Block lives.  Only Blocks that met another's registration, or were
\* copied in the middle of one or after two that overlapped, may end otherwise.
ReleasedByRetainer ==
  \A k \in Blocks : ~disturbed[k] =>
    /\ phase[k] = "live" => hook["release"] = retainer[k]
    /\ Holds(k) => hook["destructInstance"] = retainer[k]

\* After a registration that met no other the three callbacks come from one
\* registrar, whatever mixture earlier ones had left.
OneRegistrar ==
  ~mixed /\ ~Registering => \A c, d \in Callback : hook[c] = hook[d]

=============================================================================
