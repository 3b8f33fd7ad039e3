----------------------------- MODULE ClassTable -----------------------------
(***************************************************************************)
(* objc_clsopt_t of include/objc-shared-cache.h: a string table of class   *)
(* names, an entry for each slot, and an array of the classes that share a *)
(* name.  The builder writes it, swaps it to the byte order of the target, *)
(* and libobjc looks classes up in it.                                     *)
(***************************************************************************)
EXTENDS StringTable, Sequences, SequencesExt

CONSTANT ClassSets   \* the class maps to write: sets of [name, cls, hi]

\* A class is aligned, so the low bit of its offset is free, and it does not lie
\* in the table's header.
ASSUME ClassAssumption ==
  \A cs \in ClassSets :
    /\ IsFiniteSet(cs)
    /\ \A c \in cs : /\ c \in [name : String, cls : Int, hi : Int]
                    /\ c.cls % 2 = 0 /\ c.cls # ZeroOffset

VARIABLES
  classes,         \* the class map: offsets of each class and of its header
  todo,            \* entries that write() has not come to
  classOffsets,    \* classOffsets()[h], the words as they are encoded
  duplicateOffsets,\* duplicateCount() is its length
  swapped,         \* the words of the table that are in the target's order
  swaps            \* loops of byteswap that have run

class_vars == <<classes, todo, classOffsets, duplicateOffsets, swapped, swaps>>
vars == <<string_vars, class_vars>>

duplicateCount == Len(duplicateOffsets)

\* size(), with "dups" classes in duplicateOffsets
ClassSize(dups) == StringSize + 8 * capacity + 4 + 8 * dups

Entry(cls, hi) == [clsOffset |-> cls, hiOffset |-> hi]
isDuplicate(e) == e.clsOffset % 2 = 1
DuplicatesOf(e) ==
  [i \in 1 .. e.clsOffset \div 2 |->
     IF e.hiOffset + i <= Len(duplicateOffsets) THEN duplicateOffsets[e.hiOffset + i] ELSE NULL]

InRange(x) == x \in -MaxOffset - 1 .. MaxOffset

InitClasses ==
  /\ Init
  /\ classes \in ClassSets
  /\ todo = {} /\ duplicateOffsets = <<>> /\ swapped = {} /\ swaps = 0
  /\ classOffsets = <<>>

-----------------------------------------------------------------------------
(* write *)

\* objc_stringhash_t::write, all of it, goes first
WriteNames == WriteStrings /\ UNCHANGED class_vars

ClassesTooBig ==
  /\ phase = "written"
  /\ ClassSize(duplicateCount) > remaining
  /\ Fail
  /\ UNCHANGED <<hash_vars, offsets, checkbytes, left, extent, class_vars>>

\* "Set class offsets to &zero"
FillClasses ==
  /\ phase = "written"
  /\ ClassSize(duplicateCount) <= remaining
  /\ phase' = "classes" /\ todo' = classes
  /\ classOffsets' = [h \in Slots |-> Entry(ZeroOffset, ZeroOffset)]
  /\ extent' = ClassSize(0)
  /\ UNCHANGED <<hash_vars, offsets, checkbytes, left, classes, duplicateOffsets, swapped, swaps>>

SameName(c) == {d \in classes : d.name = c.name}

\* "already did this class"
AlreadyDone(c) == classOffsets[index[c.name]].clsOffset # ZeroOffset

SkipClass ==
  /\ phase = "classes"
  /\ \E c \in todo : Matches(c.name) /\ AlreadyDone(c) /\ todo' = todo \ {c}
  /\ UNCHANGED <<string_vars, classes, classOffsets, duplicateOffsets, swapped, swaps>>

SetEntry(c, e) == classOffsets' = [classOffsets EXCEPT ![index[c.name]] = e]

WriteClass ==
  /\ phase = "classes"
  /\ \E c \in todo :
       /\ Matches(c.name) /\ ~AlreadyDone(c)
       /\ SameName(c) = {c}
       /\ InRange(c.cls) /\ InRange(c.hi)
       /\ SetEntry(c, Entry(c.cls, c.hi))
       /\ todo' = todo \ {c}
  /\ UNCHANGED <<string_vars, classes, duplicateOffsets, swapped, swaps>>

\* Mutant of WriteAll: the index is taken after the count has grown.
WriteAllLate(c) ==
  /\ duplicateOffsets' =
       duplicateOffsets \o SetToSeq({Entry(d.cls, d.hi) : d \in SameName(c)})
  /\ SetEntry(c, Entry(Cardinality(SameName(c)) * 2 + 1, duplicateCount'))
  /\ extent' = ClassSize(duplicateCount')
  /\ todo' = todo \ {c}

\* the classes named like c, in the map's order
WriteAll(c) ==
  /\ SetEntry(c, Entry(Cardinality(SameName(c)) * 2 + 1, duplicateCount))
  /\ duplicateOffsets' =
       duplicateOffsets \o SetToSeq({Entry(d.cls, d.hi) : d \in SameName(c)})
  /\ extent' = ClassSize(duplicateCount')
  /\ todo' = todo \ {c}

\* Mutant of WriteDuplicates: the section is not measured again.
WriteDuplicatesUnchecked ==
  /\ phase = "classes"
  /\ \E c \in todo :
       /\ Matches(c.name) /\ ~AlreadyDone(c)
       /\ Cardinality(SameName(c)) > 1
       /\ \A d \in SameName(c) : InRange(d.cls) /\ InRange(d.hi)
       /\ WriteAll(c)
  /\ UNCHANGED <<hash_vars, offsets, checkbytes, left, phase, classes, swapped, swaps>>

\* "class name has duplicates - write them all now"
WriteDuplicates ==
  /\ phase = "classes"
  /\ \E c \in todo :
       /\ Matches(c.name) /\ ~AlreadyDone(c)
       /\ Cardinality(SameName(c)) > 1
       /\ ClassSize(duplicateCount + Cardinality(SameName(c))) <= remaining
       /\ \A d \in SameName(c) : InRange(d.cls) /\ InRange(d.hi)
       /\ WriteAll(c)
  /\ UNCHANGED <<hash_vars, offsets, checkbytes, left, phase, classes, swapped, swaps>>

OutOfRange(c) == ~InRange(c.cls) \/ ~InRange(c.hi)

\* words of duplicateOffsets that are counted but not written
Unwritten(n) == [i \in 1 .. n |-> NULL]

\* "class list busted"
ClassListBusted ==
  /\ phase = "classes"
  /\ \E c \in todo : ~Matches(c.name)
  /\ Fail
  /\ UNCHANGED <<hash_vars, offsets, checkbytes, left, extent, class_vars>>

\* "class offset too big", "header offset too big": the only class of its name
ClassTooBig ==
  /\ phase = "classes"
  /\ \E c \in todo :
       Matches(c.name) /\ ~AlreadyDone(c) /\ SameName(c) = {c} /\ OutOfRange(c)
  /\ Fail
  /\ UNCHANGED <<hash_vars, offsets, checkbytes, left, extent, class_vars>>

\* "selector section too small", which the count that has grown says
DuplicatesTooSmall ==
  /\ phase = "classes"
  /\ \E c \in todo : LET n == Cardinality(SameName(c)) IN
       /\ Matches(c.name) /\ ~AlreadyDone(c) /\ n > 1
       /\ ClassSize(duplicateCount + n) > remaining
       /\ duplicateOffsets' = duplicateOffsets \o Unwritten(n)
  /\ Fail
  /\ UNCHANGED <<hash_vars, offsets, checkbytes, left, extent, classes, todo, classOffsets,
                 swapped, swaps>>

\* "... offset too big" for one class of several: those before it are written
DuplicateTooBig ==
  /\ phase = "classes"
  /\ \E c \in todo : \E done \in SUBSET SameName(c) : LET n == Cardinality(SameName(c)) IN
       /\ Matches(c.name) /\ ~AlreadyDone(c) /\ n > 1
       /\ ClassSize(duplicateCount + n) <= remaining
       /\ \A d \in done : ~OutOfRange(d)
       /\ \E d \in SameName(c) \ done : OutOfRange(d)
       /\ SetEntry(c, Entry(n * 2 + 1, duplicateCount))
       /\ duplicateOffsets' =
            duplicateOffsets \o SetToSeq({Entry(d.cls, d.hi) : d \in done})
              \o Unwritten(n - Cardinality(done))
       /\ extent' = ClassSize(duplicateCount + Cardinality(done))
  /\ Fail
  /\ UNCHANGED <<hash_vars, offsets, checkbytes, left, classes, todo, swapped, swaps>>

WriteClassesDone ==
  /\ phase = "classes" /\ todo = {}
  /\ phase' = "complete"
  /\ UNCHANGED <<hash_vars, offsets, checkbytes, left, extent, class_vars>>

-----------------------------------------------------------------------------
(* byteswap *)

WordsOf(array, n) == {<<array, i>> : i \in 0 .. n - 1}
Header == WordsOf("header", 6) \* capacity, occupied, shift, mask, zero, salt
Count == <<"duplicateCount", 0>>

\* The words each loop of byteswap goes through, as long as what bounds the loop
\* and what locates the array can be read: S32(x) of a word twice undoes it.
Located == {<<"header", 0>>, <<"header", 3>>} \cap swapped = {}
Loop(array) ==
  CASE array = "scramble" -> WordsOf("scramble", 256)
    [] array = "header" -> Header
    [] array = "duplicateCount" -> {Count}
    [] array \in {"classes", "offsets"} -> IF Located THEN WordsOf(array, capacity) ELSE {}
    [] array = "duplicates" ->
         IF Located /\ Count \notin swapped THEN WordsOf("duplicates", duplicateCount) ELSE {}

\* Mutant of SwapOrder: the base class first.
SwapBaseFirst == <<"scramble", "offsets", "header", "classes", "duplicates", "duplicateCount">>

\* objc_clsopt_t::byteswap, which ends with objc_stringhash_t::byteswap
SwapOrder == <<"classes", "duplicates", "duplicateCount", "scramble", "offsets", "header">>

SwapWords ==
  /\ phase = "complete" /\ swaps < Len(SwapOrder)
  /\ swaps' = swaps + 1
  /\ swapped' = SymDiff(swapped, Loop(SwapOrder[swaps']))
  /\ UNCHANGED <<string_vars, classes, todo, classOffsets, duplicateOffsets>>

NextClasses ==
  \/ WriteNames
  \/ ClassesTooBig \/ FillClasses
  \/ SkipClass \/ WriteClass \/ WriteDuplicates \/ WriteClassesDone
  \/ ClassListBusted \/ ClassTooBig \/ DuplicatesTooSmall \/ DuplicateTooBig
  \/ SwapWords

SpecClasses == InitClasses /\ [][NextClasses]_vars

-----------------------------------------------------------------------------
(* Lookups *)

\* getClassAndHeader: 0, or 1 and the class, or how many there are
getClassAndHeader(key) ==
  LET e == classOffsets[index[key]] IN
  IF ~Matches(key) THEN [count |-> 0, found |-> NULL]
  ELSE IF isDuplicate(e) THEN [count |-> e.clsOffset \div 2, found |-> NULL]
  ELSE [count |-> 1, found |-> e]

\* getClassesAndHeaders: all of them
getClassesAndHeaders(key) ==
  LET e == classOffsets[index[key]] IN
  IF ~Matches(key) THEN <<>> ELSE IF isDuplicate(e) THEN DuplicatesOf(e) ELSE <<e>>

-----------------------------------------------------------------------------

Named(s) == {Entry(c.cls, c.hi) : c \in {d \in classes : d.name = s}}

\* "" is taken for a string of the table when its slot is that of no string.
InTable(s) == s \in strings \/ (s = Empty /\ \A t \in strings : index[t] # index[s])

\* What the lookups have to say of a name: the classes and headers that have it;
\* for a string of the table that no class has, "1/ptr/ptr", one class and header,
\* both at &zero; for every other name nothing.
Answer(s) ==
  IF Named(s) = {} /\ InTable(s) THEN {Entry(ZeroOffset, ZeroOffset)} ELSE Named(s)

\* A finished table answers for every name, in both lookups, with exactly the
\* classes and headers of that name, however many share it, and is not found for
\* names it does not hold; a string of the table that is no class's name is found
\* once, at &zero, although the table says "0/NULL/NULL: not found".
ClassesExact ==
  phase = "complete" /\ swaps = 0 /\ strings # {} =>
    \A s \in String :
      /\ getClassAndHeader(s).count = Cardinality(Answer(s))
      /\ Cardinality(Answer(s)) = 1 => {getClassAndHeader(s).found} = Answer(s)
      /\ Len(getClassesAndHeaders(s)) = Cardinality(Answer(s))
      /\ ToSet(getClassesAndHeaders(s)) = Answer(s)

\* byteswap puts every word of the table, and each once, into the target's order,
\* although it reads its own bounds from the words that it swaps.
EverythingSwappedOnce ==
  swaps = Len(SwapOrder) =>
    swapped = Header \cup {Count} \cup WordsOf("scramble", 256)
      \cup WordsOf("offsets", capacity) \cup WordsOf("classes", capacity)
      \cup WordsOf("duplicates", duplicateCount)

=============================================================================
