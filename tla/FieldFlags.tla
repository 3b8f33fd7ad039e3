----------------------------- MODULE FieldFlags -----------------------------
(***************************************************************************)
(* The flags argument of _Block_object_assign and _Block_object_dispose:   *)
(* which of the two switches of runtime.cpp does what for which value.  A  *)
(* value is the set of its bits, so "|" is union and "&" intersection.     *)
(***************************************************************************)

\* Bits of a C int; 32 and 64 stand for every bit that has no meaning here.
Bit == {1, 2, 4, 8, 16, 32, 64, 128}

BLOCK_FIELD_IS_OBJECT == {1, 2}
BLOCK_FIELD_IS_BLOCK == {1, 2, 4}
BLOCK_FIELD_IS_BYREF == {8}
BLOCK_FIELD_IS_WEAK == {16}
BLOCK_BYREF_CALLER == {128}

BLOCK_ALL_COPY_DISPOSE_FLAGS ==
  BLOCK_FIELD_IS_OBJECT \cup BLOCK_FIELD_IS_BLOCK \cup BLOCK_FIELD_IS_BYREF
    \cup BLOCK_FIELD_IS_WEAK \cup BLOCK_BYREF_CALLER

\* case labels that both switches share
ByrefLabels ==
  {BLOCK_FIELD_IS_BYREF, BLOCK_FIELD_IS_BYREF \cup BLOCK_FIELD_IS_WEAK}
CallerLabels ==
  {BLOCK_BYREF_CALLER \cup f \cup w :
     f \in {BLOCK_FIELD_IS_OBJECT, BLOCK_FIELD_IS_BLOCK}, w \in {{}, BLOCK_FIELD_IS_WEAK}}

\* what _Block_object_assign does with the field: retain and store the object,
\* store _Block_copy's or _Block_byref_copy's result, store the bare pointer,
\* or leave the field as the bitwise copy left it
AssignKind(flags) ==
  LET f == flags \cap BLOCK_ALL_COPY_DISPOSE_FLAGS IN
  IF f = BLOCK_FIELD_IS_OBJECT THEN "object"
  ELSE IF f = BLOCK_FIELD_IS_BLOCK THEN "block"
  ELSE IF f \in ByrefLabels THEN "byref"
  ELSE IF f \in CallerLabels THEN "pointer"
  ELSE "nothing"

\* Mutant of DisposeKind: the label of __weak __block variables is missing.
DisposeKindStrongOnly(flags) ==
  LET f == flags \cap BLOCK_ALL_COPY_DISPOSE_FLAGS IN
  IF f = BLOCK_FIELD_IS_BYREF THEN "byref"
  ELSE IF f = BLOCK_FIELD_IS_BLOCK THEN "block"
  ELSE IF f = BLOCK_FIELD_IS_OBJECT THEN "object"
  ELSE "nothing"

\* what _Block_object_dispose gives back
DisposeKind(flags) ==
  LET f == flags \cap BLOCK_ALL_COPY_DISPOSE_FLAGS IN
  IF f \in ByrefLabels THEN "byref"
  ELSE IF f = BLOCK_FIELD_IS_BLOCK THEN "block"
  ELSE IF f = BLOCK_FIELD_IS_OBJECT THEN "object"
  ELSE "nothing"

\* The two switches list their labels independently; for every flags argument
\* _Block_object_dispose gives back what _Block_object_assign took hold of and
\* nothing else, so that a field is neither leaked nor released twice.
HelpersBalance(flags) ==
  DisposeKind(flags) =
    IF AssignKind(flags) \in {"object", "block", "byref"} THEN AssignKind(flags) ELSE "nothing"

=============================================================================
