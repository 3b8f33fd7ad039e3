------------------------------- MODULE Lookup8 -------------------------------
(* How lookup8 of include/objc-shared-cache.h takes in the bytes of a key: 24 *)
(* at a time, and the rest by a switch whose cases fall through.              *)
EXTENDS Integers

CONSTANT MaxLength

VARIABLES
  length,
  k, len,  \* bytes taken in, and left
  rounds,  \* calls of mix64
  added,   \* what was added: a byte (or the length, -1) to a word at a shift
  phase

vars == <<length, k, len, rounds, added, phase>>

Init ==
  /\ length \in 0 .. MaxLength
  /\ k = 0 /\ len = length /\ rounds = 0
  /\ added = {}
  /\ phase = "blocks"

Add(byte, word, shift) == [byte |-> byte, round |-> rounds, word |-> word, shift |-> shift]

WordAt(i) == <<"a", "b", "c">>[(i \div 8) + 1]

\* Mutant of Enough: a whole block at the end is left to the switch.
EnoughForMore == len > 24

Enough == len >= 24

TakeBlock ==
  /\ phase = "blocks" /\ Enough
  /\ added' = added \cup {Add(k + i, WordAt(i), 8 * (i % 8)) : i \in 0 .. 23}
  /\ k' = k + 24 /\ len' = len - 24
  /\ rounds' = rounds + 1
  /\ UNCHANGED <<length, phase>>

\* "the first byte of c is reserved for the length"
Shift(i) == IF i < 16 THEN 8 * (i % 8) ELSE 8 * ((i % 8) + 1)

\* a case of the switch adds its byte and falls through to those of fewer bytes
Switch == IF len \in 1 .. 23 THEN 0 .. len - 1 ELSE {}

TakeRest ==
  /\ phase = "blocks"
  /\ ~Enough
  /\ added' = added \cup {Add(-1, "c", 0)} \cup {Add(k + i, WordAt(i), Shift(i)) : i \in Switch}
  /\ rounds' = rounds + 1
  /\ phase' = "hashed"
  /\ UNCHANGED <<length, k, len>>

Next == TakeBlock \/ TakeRest

Spec == Init /\ [][Next]_vars

\* no two bytes are added at one place before the words are mixed: bytes that
\* cancelled each other there could not be told apart afterwards
NoOverlap ==
  \A x, y \in added : <<x.round, x.word, x.shift>> = <<y.round, y.word, y.shift>> => x = y

\* "Every bit of the key affects every bit of the return value": each byte of
\* the key is taken in, once, at a place of its own, and nothing beyond its end.
EveryByteOnce ==
  /\ \A x \in added : x.byte \in -1 .. length - 1
  /\ \A x, y \in added : x.byte = y.byte => x = y
  /\ phase = "hashed" => {x.byte : x \in added} = -1 .. length - 1
  /\ NoOverlap
=============================================================================
