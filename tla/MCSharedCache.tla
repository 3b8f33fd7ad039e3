---------------------------- MODULE MCSharedCache ----------------------------
(* Small instances of SharedCache: up to five keys, six-bit hash values and     *)
(* tables of up to eight slots; "" and four other strings, of which s1 and s2   *)
(* share a check byte and s3 has that of "".                                    *)
(* Behaviours of the three pure functions of the file, step by step, are runs   *)
(* of their own: a behaviour is one of the tables or of one function.           *)
EXTENDS SharedCache, HashFunctions, Permutation, TLC

CONSTANTS
  k1, k2, k3, k4, k5, s0, s1, s2, s3, s4,
  Parts   \* which of the specifications to run

VARIABLES
  part,
  nbits, scramble                                \* scrambleinit

Scrambling == INSTANCE Scramble WITH SCRAMBLE_LEN <- 256, MaxBits <- 16

keyVars == <<length, position, len, rounds, added, hashing>>
mixVars == <<abc, row, trail>>
scrambleVars == <<nbits, scramble>>
allVars == <<part, sharedVars, keyVars, mixVars, scrambleVars>>

\* those that do not run stay in one initial state
AllInit ==
  /\ part \in Parts
  /\ KeyHash!Init /\ (part # "lookup8" => length = 0)
  /\ Mixing!Init /\ (part # "mix64" => abc = [i \in 1 .. 3 |-> 0])
  /\ Scrambling!Init /\ (part # "scrambleinit" => nbits = 0)
  /\ IF part = "tables" THEN SharedInit ELSE BuilderIdle /\ NothingWritten

AllNext ==
  /\ UNCHANGED part
  /\ \/ part = "tables" /\ SharedNext /\ UNCHANGED <<keyVars, mixVars, scrambleVars>>
     \/ part = "lookup8" /\ KeyHash!Next /\ UNCHANGED <<sharedVars, mixVars, scrambleVars>>
     \/ part = "mix64" /\ Mixing!Next /\ UNCHANGED <<sharedVars, keyVars, scrambleVars>>
     \/ part = "scrambleinit" /\ Scrambling!Next /\ UNCHANGED <<sharedVars, keyVars, mixVars>>

AllSpec == AllInit /\ [][AllNext]_allVars

\* scramble[] lets the values of tab[b] reach every slot, none of them twice.
Permutes == Scrambling!Permutes

UB8 == 64
Words == 0 .. 15
Sizes == {1, 2, 4, 8, 16}
MCTopBits(v, n) == v \div (UB8 \div AtLeast1(n))
MCLowBits(v, n) == v % AtLeast1(n)

\* computed once
PermuteTable == [n \in Sizes |-> [i \in 0 .. 255 |-> permute(i, log2u(AtLeast1(n)))]]
MCPermute(i, n) == PermuteTable[n][i]

\* Values for a to collide or differ at four and at eight, and for b to collide
\* at one, two and four; three scramble values cannot always part them.
SomeHashValues == {0, 1, 2, 3, 16}

KeySymmetry == Permutations(Key)

\* One offset is below the table, and the last needs more bits than an offset has.
MCOffset(s) == CASE s = s0 -> 40 [] s = s1 -> -8 [] s = s2 -> 64 [] s = s3 -> 96 [] s = s4 -> 128
MCCheckByte(s) == IF s \in {s0, s3} THEN 0 ELSE 1

SeveralStrings == {{}, {s0, s1}, {s1, s4}, {s0, s1, s2}, {s0, s1, s2, s3}}
OneString == {{s1}}

AllHashes == [String -> 0 .. 3]

Class(s, i, h) == [name |-> s, cls |-> 32 * i, hi |-> h]

\* No classes, classes of names of their own, three and two times two classes of
\* one name, a class whose name is not among the strings, a class without a name,
\* and one whose address is out of reach, alone and after another of its name.
SomeClasses ==
  LET x1 == Class(s1, 1, 4)   x2 == Class(s1, 2, 12)   x3 == Class(s1, -1, 4)
      y1 == Class(s2, 3, 12)  y2 == Class(s2, -3, 4)   far == Class(s2, 4, 4)
      other == Class(s3, -2, 16)   unnamed == Class(Empty, -2, 16) IN
  {{}, {x1}, {x1, y1}, {x1, x2, x3}, {x1, x2, y1, y2}, {x1, x2, far}, {y1, y2, far},
   {x1, other}, {x1, unnamed}}
NoClasses == {{}}

\* Around the sizes of the header, of the names and of the classes, for tables of
\* four slots.
Sections == {HeaderSize - 1, HeaderSize, HeaderSize + 22,
             HeaderSize + 57, HeaderSize + 74, 2 * HeaderSize}
FullSection == {HeaderSize + 6} \* one slot, one byte of tab
=============================================================================
