--------------------------- MODULE BlockDescriptor ---------------------------
(***************************************************************************)
(* A Block's descriptor and its accessors.  The compiler emits two to six  *)
(* words, and only the flags of the Block say which; the runtime changes   *)
(* the flags of a Block that is copied, retained and released, while the   *)
(* descriptor stays where it is.                                           *)
(***************************************************************************)
EXTENDS Integers, Sequences

CONSTANTS
  NULL, Beyond,   \* what follows the descriptor in memory
  Emitted,        \* the Blocks the compiler emits, see below
  MaxCount        \* bound on the references of one Block

\* A Block as emitted: its flags and the values of its descriptor's words.
EmittedType ==
  [flags : SUBSET {"HAS_COPY_DISPOSE", "HAS_CTOR", "IS_GLOBAL", "USE_STRET", "HAS_SIGNATURE",
                   "HAS_EXTENDED_LAYOUT"},
   size : {"size"}, copy : {"copy"}, dispose : {"dispose"},
   signature : {NULL, "signature"}, layout : {NULL, "layout"}]

ASSUME EmittedAssumption == Emitted \subseteq EmittedType
ASSUME NullAssumption == NULL \notin Nat \cup {"signature", "layout", ""}

VARIABLES
  block,    \* the Block as emitted
  flags,    \* its flags: compiler's and runtime's
  count,    \* the reference count among them
  helped,   \* calls of the copy helper minus calls of the dispose helper
  state     \* "emitted", "heap", "freed"

vars == <<block, flags, count, helped, state>>

Init ==
  /\ block \in Emitted
  /\ flags = block.flags
  /\ count = 0
  /\ helped = 0
  /\ state = "emitted"

-----------------------------------------------------------------------------
(* Block_descriptor_1, 2 and 3 as the compiler lays them out *)

sizeof_descriptor_1 == 2
sizeof_descriptor_2 == 2

Descriptor ==
  LET e == block
      parts == e.flags \cap {"HAS_COPY_DISPOSE", "HAS_SIGNATURE"} IN
  IF parts = {} THEN <<0, e.size>>
  ELSE IF parts = {"HAS_COPY_DISPOSE"} THEN <<0, e.size, e.copy, e.dispose>>
  ELSE IF parts = {"HAS_SIGNATURE"} THEN <<0, e.size, e.signature, e.layout>>
  ELSE <<0, e.size, e.copy, e.dispose, e.signature, e.layout>>

\* the word at offset n of the descriptor
Word(n) == IF n < Len(Descriptor) THEN Descriptor[n + 1] ELSE Beyond

\* the offset of the second and the third part, or NULL
Block_descriptor_2 ==
  IF "HAS_COPY_DISPOSE" \notin flags THEN NULL ELSE sizeof_descriptor_1

\* Mutant of Block_descriptor_3: the second part is taken to be there always.
Block_descriptor_3_Fixed ==
  IF "HAS_SIGNATURE" \notin flags THEN NULL ELSE sizeof_descriptor_1 + sizeof_descriptor_2

Block_descriptor_3 ==
  IF "HAS_SIGNATURE" \notin flags THEN NULL
  ELSE sizeof_descriptor_1 + (IF "HAS_COPY_DISPOSE" \in flags THEN sizeof_descriptor_2 ELSE 0)

Block_size == Word(1)

Block_use_stret == {"HAS_SIGNATURE", "USE_STRET"} \subseteq flags

Block_signature == IF Block_descriptor_3 = NULL THEN NULL ELSE Word(Block_descriptor_3)

Block_has_signature == Block_signature # NULL

Block_layout ==
  IF "HAS_EXTENDED_LAYOUT" \in flags \/ Block_descriptor_3 = NULL THEN NULL
  ELSE Word(Block_descriptor_3 + 1)

Block_extended_layout ==
  IF "HAS_EXTENDED_LAYOUT" \notin flags \/ Block_descriptor_3 = NULL THEN NULL
  ELSE IF Word(Block_descriptor_3 + 1) = NULL THEN "" ELSE Word(Block_descriptor_3 + 1)

-----------------------------------------------------------------------------
(* The runtime changes the flags *)

\* Mutant of CopyStack: the flags are set, not or-ed.
CopyStackFlagsReset ==
  /\ state = "emitted"
  /\ "IS_GLOBAL" \notin flags
  /\ flags' = {"NEEDS_FREE"}
  /\ count' = 1
  /\ helped' = helped + (IF Block_descriptor_2 # NULL THEN 1 ELSE 0)
  /\ state' = "heap"
  /\ UNCHANGED block

\* _Block_copy of a stack Block; the copy helper is called if there is one
CopyStack ==
  /\ state = "emitted"
  /\ "IS_GLOBAL" \notin flags
  /\ flags' = flags \cup {"NEEDS_FREE"}
  /\ count' = 1
  /\ helped' = helped + (IF Block_descriptor_2 # NULL THEN 1 ELSE 0)
  /\ state' = "heap"
  /\ UNCHANGED block

CopyHeap ==
  /\ state = "heap" /\ count \in 1 .. MaxCount - 1
  /\ count' = count + 1
  /\ UNCHANGED <<block, flags, helped, state>>

ReleaseShared ==
  /\ state = "heap" /\ count > 1
  /\ count' = count - 1
  /\ UNCHANGED <<block, flags, helped, state>>

\* the last reference: BLOCK_DEALLOCATING is set, the dispose helper called
ReleaseLast ==
  /\ state = "heap" /\ count = 1
  /\ count' = 0
  /\ flags' = flags \cup {"DEALLOCATING"}
  /\ helped' = helped - (IF Block_descriptor_2 # NULL THEN 1 ELSE 0)
  /\ UNCHANGED <<block, state>>

Free ==
  /\ state = "heap" /\ count = 0
  /\ state' = "freed"
  /\ UNCHANGED <<block, flags, count, helped>>

Next == CopyStack \/ CopyHeap \/ ReleaseShared \/ ReleaseLast \/ Free

Spec == Init /\ [][Next]_vars

-----------------------------------------------------------------------------

\* the words of the second part, and the first word of the third
PartsFound ==
  LET e == block
      has(f) == f \in e.flags IN
  /\ Block_size = e.size
  /\ Block_descriptor_2 # NULL <=> has("HAS_COPY_DISPOSE")
  /\ Block_descriptor_2 # NULL =>
       Word(Block_descriptor_2) = e.copy /\ Word(Block_descriptor_2 + 1) = e.dispose
  /\ Block_signature = IF has("HAS_SIGNATURE") THEN e.signature ELSE NULL
  /\ Block_has_signature <=> has("HAS_SIGNATURE") /\ e.signature # NULL
  /\ Block_use_stret <=> has("HAS_SIGNATURE") /\ has("USE_STRET")

\* the second word of the third, which two accessors read and one answers for;
\* "" says that an extended layout is there and empty
LayoutsApart ==
  /\ Block_layout # NULL => Block_extended_layout = NULL
  /\ Block_layout # NULL => "HAS_EXTENDED_LAYOUT" \notin block.flags /\ Block_layout = block.layout
  /\ Block_extended_layout # NULL <=>
       {"HAS_SIGNATURE", "HAS_EXTENDED_LAYOUT"} \subseteq block.flags
  /\ Block_extended_layout = "" => block.layout = NULL

\* Every accessor answers what the compiler emitted, on the stack, on the heap
\* and while the Block dies, and none reads past the end of the descriptor: a
\* caller that wants the old GC layout never gets an extended one, nor the other
\* way round.
AnswersAsEmitted == PartsFound /\ LayoutsApart

\* The dispose helper runs once for the copy helper's one run, found through the
\* flags of the heap Block where that was found through those of the stack Block.
HelpersPair ==
  /\ state = "heap" /\ count > 0 /\ "HAS_COPY_DISPOSE" \in block.flags => helped = 1
  /\ state = "freed" => helped = 0

=============================================================================
