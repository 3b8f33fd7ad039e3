-------------------------- MODULE AllocatedVariables --------------------------
(***************************************************************************)
(* What the language promises of __block variables, BlockSpec.rtf: they    *)
(* "act as if they were in allocated storage and this storage is           *)
(* automatically recovered after last use of said variable".               *)
(*                                                                         *)
(* There is no stack or heap here, no forwarding and no count: a variable  *)
(* has one value; a Block that was copied refers to the variables of its   *)
(* literal; a variable can be recovered once neither the open scope nor a  *)
(* held Block can use it.  BlockRuntime is shown to implement this.        *)
(***************************************************************************)
EXTENDS Integers

CONSTANTS
  Byref,    \* __block variables
  Literal,  \* Block literals of the declaring function
  Var,      \* variables that own a copied Block
  Uses,     \* Uses[l]: the variables that literal l can reach
  NULL, Gone

VARIABLES
  value,    \* value[b]: what b holds, Gone once its storage is recovered
  holds,    \* holds[v]: the literal whose copy v owns, or NULL
  open      \* the declaring scope is open

vars == <<value, holds, open>>

Init ==
  /\ value = [b \in Byref |-> 0]
  /\ holds = [v \in Var |-> NULL]
  /\ open = TRUE

Used(b) == open \/ \E v \in Var : holds[v] \in Literal /\ b \in Uses[holds[v]]

\* of a literal in scope, or of (a Block nested in) a held Block
Copy(v, l) ==
  /\ holds[v] = NULL
  /\ open \/ \E u \in Var : holds[u] = l
  /\ holds' = [holds EXCEPT ![v] = l]
  /\ UNCHANGED <<value, open>>

Release(v) ==
  /\ holds[v] # NULL
  /\ holds' = [holds EXCEPT ![v] = NULL]
  /\ UNCHANGED <<value, open>>

Write(b) ==
  /\ Used(b)
  /\ value' = [value EXCEPT ![b] = 1 - @]
  /\ UNCHANGED <<holds, open>>

CloseScope ==
  /\ open
  /\ open' = FALSE
  /\ UNCHANGED <<value, holds>>

Recover(B) ==
  /\ \A b \in B : ~Used(b)
  /\ value' = [b \in Byref |-> IF b \in B THEN Gone ELSE value[b]]
  /\ UNCHANGED <<holds, open>>

Next ==
  \/ \E v \in Var : Release(v) \/ \E l \in Literal : Copy(v, l)
  \/ \E b \in Byref : Write(b)
  \/ CloseScope
  \/ \E B \in SUBSET Byref : Recover(B)

Spec == Init /\ [][Next]_vars

=============================================================================
