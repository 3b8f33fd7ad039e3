---------------------------- MODULE HashFunctions ----------------------------
(* The two functions of include/objc-shared-cache.h that make a hash of a key: *)
(* lookup8, on keys of up to MaxLength bytes, and mix64, on words of any width.*)
EXTENDS Integers

CONSTANTS
  MaxLength, Width,
  Xor(_, _)

VARIABLES
  length, position, len, rounds, added, hashing, \* lookup8
  abc, row, trail                                \* mix64

KeyHash == INSTANCE Lookup8 WITH k <- position, phase <- hashing
Mixing == INSTANCE Mix64 WITH BitXor <- Xor

ASSUME LengthAssumption == MaxLength \in Nat
ASSUME MixingAssumption == Mixing!XorUndoesItself

\* lookup8 takes in every byte of a key once, and no two of them in one place.
EveryByteOnce == KeyHash!EveryByteOnce

\* Every row of mix64 can be undone.
Reversible == Mixing!Reversible
=============================================================================
