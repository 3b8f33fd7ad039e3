----------------------------- MODULE Permutation -----------------------------
(* permute of include/objc-shared-cache.h, on the values scrambleinit gives it. *)
EXTENDS Integers

LOCAL INSTANCE Bitwise

BitXor(x, y) == x ^^ y

\* x + (x << c), and x ^ (x >> c), in nbits bits
Add(x, c, nbits) == (x + x * 2 ^ c) % 2 ^ nbits
Fold(x, c) == BitXor(x, shiftR(x, c))

\* Mutant of Round: without the 1+ of const2 .. const5 a shift may be by 0.
RoundUnshifted(x, nbits) ==
  Fold(Add(Fold(Add(x, nbits \div 2, nbits), nbits \div 3), nbits \div 4, nbits), nbits \div 5)

Round(x, nbits) ==
  Fold(Add(Fold(Add(x, 1 + nbits \div 2, nbits), 1 + nbits \div 3),
           1 + nbits \div 4, nbits), 1 + nbits \div 5)

permute(x, nbits) ==
  LET rounds[i \in 0 .. 20] == IF i = 0 THEN x ELSE Round(rounds[i - 1], nbits)
  IN  rounds[20]

=============================================================================
