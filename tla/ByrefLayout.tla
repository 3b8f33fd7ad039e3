---------------------------- MODULE ByrefLayout ----------------------------
(***************************************************************************)
(* The words of a __block variable, and which of them _Block_byref_copy    *)
(* moves.  After the header (Block_byref) come the helpers (Block_byref_2) *)
(* and the layout (Block_byref_3), each only if the flags say so, and then *)
(* the variable.  The kind of layout is a number in bits 28 to 31, but the *)
(* code tests bit 28 alone, which is also set in other kinds.              *)
(***************************************************************************)
EXTENDS Integers

CONSTANTS Garbage, MaxWords  \* bound on the words of the variable itself

BLOCK_BYREF_LAYOUT_EXTENDED == 1
BLOCK_BYREF_LAYOUT_STRONG == 3
BLOCK_BYREF_LAYOUT_UNRETAINED == 5
LayoutKinds == 0 .. BLOCK_BYREF_LAYOUT_UNRETAINED

VARIABLES
  src,    \* the variable as emitted: [helpers, layout, words]
  copy,   \* copy[n]: the word at offset n of the heap copy
  pc,     \* where _Block_byref_copy is; then "held", "destroy", "freed"
  called  \* the helper called last

vars == <<src, copy, pc, called>>

\* A variable of a pointer layout is one pointer.  Helpers are left open: more
\* variables than a compiler emits.
EmittedByrefs ==
  {s \in [helpers : BOOLEAN, layout : LayoutKinds, words : 1 .. MaxWords] :
     s.layout \in {BLOCK_BYREF_LAYOUT_STRONG, BLOCK_BYREF_LAYOUT_UNRETAINED} => s.words = 1}

sizeof_byref == 3
HasLayout == src.layout = BLOCK_BYREF_LAYOUT_EXTENDED
Byref2 == sizeof_byref
VariableAt == sizeof_byref + (IF src.helpers THEN 2 ELSE 0) + (IF HasLayout THEN 1 ELSE 0)
Size == VariableAt + src.words

\* the word at offset n of the stack variable
Word(n) == IF n < Size THEN <<"word", n>> ELSE <<"beyond", n>>
Moved(ns) == [n \in DOMAIN copy \cup ns |-> IF n \in ns THEN Word(n) ELSE copy[n]]

Init ==
  /\ src \in EmittedByrefs
  /\ copy = [n \in 0 .. -1 |-> Garbage]
  /\ pc = "malloc"
  /\ called = Garbage

\* malloc, and the header of the copy
Header ==
  /\ pc = "malloc"
  /\ copy' = [n \in 0 .. Size - 1 |-> IF n < sizeof_byref THEN <<"header", n>> ELSE Garbage]
  /\ pc' = IF src.helpers THEN "helpers" ELSE "memmove"
  /\ UNCHANGED <<src, called>>

\* Mutant of CopyHelpers: the destroy helper is forgotten.
CopyKeepOnly ==
  /\ pc = "helpers"
  /\ copy' = Moved({Byref2})
  /\ pc' = "layout"
  /\ UNCHANGED <<src, called>>

CopyHelpers ==
  /\ pc = "helpers"
  /\ copy' = Moved({Byref2, Byref2 + 1})
  /\ pc' = "layout"
  /\ UNCHANGED <<src, called>>

\* src->flags & BLOCK_BYREF_LAYOUT_EXTENDED
TestsLayout == src.layout % 2 = BLOCK_BYREF_LAYOUT_EXTENDED

CopyLayout ==
  /\ pc = "layout"
  /\ copy' = IF TestsLayout THEN Moved({Byref2 + 2}) ELSE copy
  /\ pc' = "keep"
  /\ UNCHANGED <<src, called>>

\* (*src2->byref_keep)(copy, src): the helper moves the variable.
Keep ==
  /\ pc = "keep"
  /\ called' = Word(Byref2)
  /\ copy' = Moved(VariableAt .. Size - 1)
  /\ pc' = "held"
  /\ UNCHANGED src

\* "This copy includes Block_byref_3, if any."
Memmove ==
  /\ pc = "memmove"
  /\ copy' = Moved(sizeof_byref .. Size - 1)
  /\ pc' = "held"
  /\ UNCHANGED <<src, called>>

\* the last _Block_byref_release: (*byref2->byref_destroy)(byref), then free
Destroy ==
  /\ pc = "held"
  /\ called' = IF src.helpers THEN copy[Byref2 + 1] ELSE called
  /\ pc' = "destroy"
  /\ UNCHANGED <<src, copy>>

Free ==
  /\ pc = "destroy"
  /\ copy' = [n \in 0 .. -1 |-> Garbage]
  /\ pc' = "freed"
  /\ UNCHANGED <<src, called>>

Next == Header \/ CopyHelpers \/ CopyLayout \/ Keep \/ Memmove \/ Destroy \/ Free

Spec == Init /\ [][Next]_vars

-----------------------------------------------------------------------------

\* no word at or beyond the variable's size is read or written on the way
WithinSize ==
  pc \notin {"malloc", "freed"} =>
    DOMAIN copy = 0 .. Size - 1 /\ \A n \in DOMAIN copy : copy[n] # <<"beyond", n>>

\* the destroy helper called for the heap copy is the one emitted beside the
\* keep helper
HelpersArePartners ==
  src.helpers =>
    /\ pc = "held" => called = <<"word", Byref2>>
    /\ pc = "destroy" => called = <<"word", Byref2 + 1>>

\* The copy that _Block_byref_copy returns holds every word that follows the
\* header, whatever parts the variable has, and none that is not its own; the
\* helper that destroys it long after is the right one.
CopyComplete ==
  /\ pc = "held" => \A n \in sizeof_byref .. Size - 1 : copy[n] = <<"word", n>>
  /\ WithinSize
  /\ HelpersArePartners

=============================================================================
