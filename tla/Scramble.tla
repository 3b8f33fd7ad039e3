------------------------------ MODULE Scramble ------------------------------
(* scrambleinit of include/objc-shared-cache.h fills scramble[], entry by     *)
(* entry, for a table of smax slots.                                          *)
EXTENDS Permutation, Sequences

CONSTANTS SCRAMBLE_LEN, MaxBits \* smax is at most 2 ^ MaxBits

VARIABLES nbits, scramble

\* scramble[i] of the code: TLA+ sequences start at 1
At(i) == scramble[i + 1]
smax == 2 ^ nbits

Init == nbits \in 0 .. MaxBits /\ scramble = <<>>

FillEntry ==
  /\ Len(scramble) < SCRAMBLE_LEN
  /\ scramble' = Append(scramble, permute(Len(scramble), nbits))
  /\ UNCHANGED nbits

Next == FillEntry

Spec == Init /\ [][Next]_<<nbits, scramble>>

\* "scramble values should be in 0..smax-1": a hash stays inside the table
InTable == \A i \in 0 .. Len(scramble) - 1 : At(i) \in 0 .. smax - 1

\* "If smax<256 there is no scramble, so tab[b] needs to cover 0..smax-1": it does
CoversSmallTables ==
  Len(scramble) = SCRAMBLE_LEN /\ smax <= SCRAMBLE_LEN =>
    0 .. smax - 1 = {At(i) : i \in 0 .. SCRAMBLE_LEN - 1}

\* "permute(0)=0 ... useful", "p is a permutation of 0..(1<<nbits)-1": trying the
\* values of tab[b] in order stays inside the table, tries no slot twice before it
\* has tried all, and reaches every slot of a table that is no longer than them.
Permutes ==
  /\ \A i \in 0 .. Len(scramble) - 1 :
       /\ i = 0 => At(i) = 0
       /\ i < smax => \A j \in 0 .. i - 1 : At(j) # At(i)
  /\ InTable
  /\ CoversSmallTables
=============================================================================
