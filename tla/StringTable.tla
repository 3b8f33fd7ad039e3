----------------------------- MODULE StringTable -----------------------------
(***************************************************************************)
(* objc_stringhash_t and objc_selopt_t of include/objc-shared-cache.h: the *)
(* table of strings that the builder of the shared cache writes into a     *)
(* section of libobjc and that libobjc looks selectors up in.  make_perfect *)
(* is PerfectHash; here its result is any function that separates strings. *)
(***************************************************************************)
EXTENDS Integers, FiniteSets

CONSTANTS
  String, Empty,   \* C strings; Empty is ""
  CheckByte(_),    \* checkbyte()
  Offset(_),       \* a string's address minus "base"
  MaxOffset,       \* largest objc_stringhash_offset_t
  StringSets,      \* the sets of strings to write
  Stale,           \* the section holds an older table, of this string
  Remaining,       \* sizes of the section
  Hashes,          \* what hash() may compute: functions of the strings
  Masks,           \* one less than the length of tab
  NULL

HeaderSize == 8 * 4 + 256 * 4      \* sizeof(objc_stringhash_t), with scramble[]
ZeroOffset == 16                   \* offsetof(objc_stringhash_t, zero)

ASSUME StringAssumption ==
  /\ Empty \in String /\ Stale \in String /\ CheckByte(Empty) = 0
  /\ StringSets \subseteq SUBSET String /\ Remaining \subseteq Nat
  /\ \A ss \in StringSets : Cardinality(ss) \in Nat
  /\ Hashes \subseteq [String -> Nat] /\ Masks \subseteq Nat
  /\ NULL \notin Int
  /\ \A s \in String : Offset(s) \in Int \ {ZeroOffset}
  /\ \A s, t \in String : Offset(s) = Offset(t) => s = t

VARIABLES
  strings,         \* the strings to write
  remaining,
  capacity, mask,  \* of the perfect hash; capacity 0: there is none
  index,           \* hash() of every string
  offsets, checkbytes,
  left,            \* strings that write() has not come to
  extent,          \* bytes of the section up to the last one written
  phase

hash_vars == <<strings, remaining, capacity, mask, index>>
string_vars == <<hash_vars, offsets, checkbytes, left, extent, phase>>

Slots == 0 .. capacity - 1

StringSize == HeaderSize + (mask + 1) + capacity + 4 * capacity

\* For a single key log2u(alen) is 0 and shift 64, and without keys the header
\* is zeros: the hash is any number (initnorm shifts by less than 64, hash() by
\* whatever "shift" says).
HashRange(n, c) == IF n <= 1 \/ c = 0 THEN Nat ELSE 0 .. c - 1

\* smax is the first power of two that is not below n, or the next;
Capacities(n) == {c \in {1, 2, 4, 8} : n <= c /\ c < 4 * n}

\* what "remaining" bytes of the section hold before write()
InitSection ==
  /\ strings \in StringSets
  /\ remaining \in Remaining
  /\ LET n == Cardinality(strings) IN
     /\ capacity \in Capacities(n) \cup {0}
     /\ mask \in {m \in Masks : m < capacity \/ m = 0}
     /\ index \in {f \in Hashes :
          /\ \A s \in String : f[s] \in HashRange(n, capacity)
          /\ \A s, t \in strings : f[s] = f[t] => s = t}
  /\ offsets = [h \in Slots |-> Offset(Stale)]
  /\ checkbytes = [h \in Slots |-> CheckByte(Stale)]
  /\ phase = "start"

\* OPT_INITIALIZER: a table of four slots without strings.  Its shift is 63, and
\* scramble and tab are zeros: every hash is 0 or 1.
OptInitializer ==
  /\ strings = {}
  /\ remaining \in Remaining
  /\ capacity = 4 /\ mask = 3
  /\ index \in {f \in Hashes : \A s \in String : f[s] \in {0, 1}}
  /\ offsets = [h \in Slots |-> ZeroOffset]
  /\ checkbytes = [h \in Slots |-> 0]
  /\ phase = "initializer"

Init ==
  /\ InitSection \/ OptInitializer
  /\ left = {} /\ extent = 0

\* the C string at an offset from the table
StringAt(off) == IF off = ZeroOffset THEN Empty ELSE CHOOSE s \in String : Offset(s) = off

-----------------------------------------------------------------------------
(* write *)

Fail == phase' = "error"

TooSmallForHeader ==
  /\ phase = "start"
  /\ HeaderSize > remaining
  /\ Fail
  /\ UNCHANGED <<hash_vars, offsets, checkbytes, left, extent>>

\* bzero of the header
WriteNothing ==
  /\ phase = "start"
  /\ HeaderSize <= remaining
  /\ strings = {}
  /\ phase' = "written" /\ extent' = HeaderSize
  /\ UNCHANGED <<hash_vars, offsets, checkbytes, left>>

NoPerfectHash ==
  /\ phase = "start"
  /\ HeaderSize <= remaining
  /\ strings # {} /\ capacity = 0
  /\ Fail
  /\ UNCHANGED <<hash_vars, offsets, checkbytes, left, extent>>

\* Mutant of FillData: the slots keep what was in the section before.
FillDataStale ==
  /\ phase = "start"
  /\ strings # {} /\ capacity # 0
  /\ remaining >= StringSize
  /\ phase' = "filling" /\ left' = strings /\ extent' = StringSize
  /\ UNCHANGED <<hash_vars, offsets, checkbytes>>

\* Header, scramble and tab; "Set offsets to """
FillData ==
  /\ phase = "start"
  /\ strings # {} /\ capacity # 0
  /\ remaining >= StringSize
  /\ phase' = "filling" /\ left' = strings /\ extent' = StringSize
  /\ offsets' = [h \in Slots |-> ZeroOffset]
  /\ checkbytes' = [h \in Slots |-> 0]
  /\ UNCHANGED hash_vars

\* the header is written before the size is known to be too big
TooSmallForData ==
  /\ phase = "start"
  /\ strings # {} /\ capacity # 0
  /\ HeaderSize <= remaining /\ remaining < StringSize
  /\ Fail /\ extent' = HeaderSize
  /\ UNCHANGED <<hash_vars, offsets, checkbytes, left>>

OffsetTooBig ==
  /\ phase = "filling"
  /\ \E s \in left : Offset(s) \notin -MaxOffset - 1 .. MaxOffset
  /\ Fail
  /\ UNCHANGED <<hash_vars, offsets, checkbytes, left, extent>>

\* "Set real string offsets and checkbytes", in the map's order
Written(s) == HeaderSize + (mask + 1) + capacity + 4 * (index[s] + 1)
WriteString ==
  \E s \in left :
    /\ phase = "filling"
    /\ Offset(s) \in -MaxOffset - 1 .. MaxOffset
    /\ offsets' = [h \in Slots |-> IF h = index[s] THEN Offset(s) ELSE offsets[h]]
    /\ checkbytes' = [h \in Slots |-> IF h = index[s] THEN CheckByte(s) ELSE checkbytes[h]]
    /\ left' = left \ {s}
    /\ extent' = IF Written(s) > extent THEN Written(s) ELSE extent
    /\ UNCHANGED <<hash_vars, phase>>

WriteDone ==
  /\ phase = "filling" /\ left = {}
  /\ phase' = "written"
  /\ UNCHANGED <<hash_vars, offsets, checkbytes, left, extent>>

WriteStrings ==
  \/ TooSmallForHeader \/ WriteNothing \/ NoPerfectHash \/ TooSmallForData
  \/ FillData \/ OffsetTooBig \/ WriteString \/ WriteDone

Next == WriteStrings

Spec == Init /\ [][Next]_string_vars

-----------------------------------------------------------------------------
(* Lookups *)

\* the check byte first, then strcmp
Matches(key) ==
  checkbytes[index[key]] = CheckByte(key) /\ StringAt(offsets[index[key]]) = key

\* objc_selopt_t::get: the string's offset; index[key] is getIndex's result
get(key) == IF Matches(key) THEN offsets[index[key]] ELSE NULL

-----------------------------------------------------------------------------

\* A finished table finds every string that was written, at its own address,
\* and no other -- but "", whose check byte and text are those of an empty slot.
\* The table that the builder finds in libobjc answers likewise.
LookupExact ==
  (phase = "written" /\ strings # {}) \/ phase = "initializer" =>
    \A s \in String :
      get(s) = IF s \in strings THEN Offset(s)
               ELSE IF s = Empty /\ \A t \in strings : index[t] # index[s] THEN ZeroOffset
               ELSE NULL

\* write() never leaves the section it was given, whether it succeeds or not.
WithinSection == extent <= remaining

=============================================================================
