--------------------------- MODULE MCBlockParts ---------------------------
(***************************************************************************)
(* The parts of a Block that BlockRuntime takes for granted, each a        *)
(* specification of its own: one behaviour is a behaviour of one of them,  *)
(* while the others stay in an initial state.                              *)
(***************************************************************************)
EXTENDS BlockDescriptor, ObjectCallbacks, PointerAuth, ByrefMove

CONSTANTS MaxWords, t1, t2, h1, h2, h3

ASSUME WordsAssumption ==
  MaxWords \in Nat /\ Garbage \notin {"word", "header", "beyond"} \X (0 .. MaxWords + 6)

VARIABLES
  part,                       \* the specification that runs
  src, copy, copying, called  \* those of ByrefLayout

Byref == INSTANCE ByrefLayout WITH pc <- copying

byrefVars == <<src, copy, copying, called>>

partsVars == <<part, vars, callbackVars, authVars, byrefVars, moveVars>>

RestingBlock == CHOOSE e \in Emitted : TRUE
RestingByref == CHOOSE s \in Byref!EmittedByrefs : TRUE

PartsInit ==
  /\ part \in {"descriptor", "callbacks", "pointers", "byref", "variable"}
  /\ Init /\ (part # "descriptor" => block = RestingBlock)
  /\ Byref!Init /\ (part # "byref" => src = RestingByref)
  /\ CallbacksInit
  /\ AuthInit
  /\ MoveInit

PartsNext ==
  /\ UNCHANGED part
  /\ \/ part = "descriptor" /\ Next /\ UNCHANGED <<callbackVars, authVars, byrefVars, moveVars>>
     \/ part = "callbacks" /\ CallbacksNext /\ UNCHANGED <<vars, authVars, byrefVars, moveVars>>
     \/ part = "pointers" /\ AuthNext /\ UNCHANGED <<vars, callbackVars, byrefVars, moveVars>>
     \/ part = "byref" /\ Byref!Next /\ UNCHANGED <<vars, callbackVars, authVars, moveVars>>
     \/ part = "variable" /\ MoveNext /\ UNCHANGED <<vars, callbackVars, authVars, byrefVars>>

PartsSpec == PartsInit /\ [][PartsNext]_partsVars

\* The heap copy of a __block variable is complete, stays within its size, and
\* is destroyed by its own helper.
CopyComplete == Byref!CopyComplete

=============================================================================
