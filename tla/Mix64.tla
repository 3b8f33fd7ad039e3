-------------------------------- MODULE Mix64 --------------------------------
(* mix64 of include/objc-shared-cache.h, on words of Width bits instead of 64: *)
(* the shifts are reduced in proportion.                                       *)
EXTENDS Integers, Sequences

CONSTANTS
  Width,
  BitXor(_, _)

Modulus == 2 ^ Width
Words == 0 .. Modulus - 1

\* the xors of the twelve rows: which way, and how far
Right(n) == [right |-> TRUE, by |-> (n * Width) \div 64]
Left(n) == [right |-> FALSE, by |-> (n * Width) \div 64]
Shifts == <<Right(43), Left(9), Right(8), Right(38), Left(23), Right(5),
            Right(35), Left(49), Right(11), Right(12), Left(18), Right(22)>>

Shifted(x, s) ==
  IF s.right THEN x \div 2 ^ s.by ELSE (x * 2 ^ s.by) % Modulus

\* What is relied on of the exclusive or and of the powers of two.
XorUndoesItself ==
  /\ Width \in Nat
  /\ \A n \in 0 .. Width : 2 ^ n \in Nat \ {0}
  /\ \A x, y \in Words : BitXor(x, y) \in Words /\ BitXor(BitXor(x, y), y) = x

VARIABLES
  abc, row,
  trail    \* what abc was before each row, and is now

vars == <<abc, row, trail>>

Init == abc \in [1 .. 3 -> Words] /\ row = 1 /\ trail = <<abc>>

\* A row changes one of a, b and c with the two others: first the one after it
\* is subtracted, then the one before it, whose shifted value is xored in.
This(r) == ((r - 1) % 3) + 1
After(r) == This(r + 1)
Previous(r) == This(r + 2)

\* Mutant of RowOf: a row xors a word that it has changed.
RowOfItself(w, r) ==
  LET x == (w[This(r)] - w[After(r)] - w[Previous(r)]) % Modulus
  IN  [w EXCEPT ![This(r)] = BitXor(x, Shifted(x, Shifts[r]))]

RowOf(w, r) ==
  LET x == (w[This(r)] - w[After(r)] - w[Previous(r)]) % Modulus
  IN  [w EXCEPT ![This(r)] = BitXor(x, Shifted(w[Previous(r)], Shifts[r]))]

Row ==
  /\ row <= Len(Shifts)
  /\ abc' = RowOf(abc, row)
  /\ row' = row + 1
  /\ trail' = Append(trail, abc')

Next == Row

Spec == Init /\ [][Next]_vars

\* the inverse of a row
UndoRow(w, r) ==
  LET x == BitXor(w[This(r)], Shifted(w[Previous(r)], Shifts[r]))
  IN  [w EXCEPT ![This(r)] = (x + w[Previous(r)] + w[After(r)]) % Modulus]

\* "mix 3 64-bit values reversibly": what mix64 has done up to any row can be
\* undone, row by row, so that different words stay different ("no funnels").
Reversible ==
  /\ trail[row] = abc
  /\ \A r \in 1 .. row - 1 : UndoRow(trail[r + 1], r) = trail[r]
=============================================================================
