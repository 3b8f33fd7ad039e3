-------------------------- MODULE LatchingCountProofs --------------------------
(***************************************************************************)
(* LatchingCount for every number of threads and references and every      *)
(* width of the count.                                                     *)
(***************************************************************************)
EXTENDS LatchingCount, FiniteSetTheorems, TLAPS

-----------------------------------------------------------------------------
(* Arithmetic of the flags word *)

LEMMA WordFacts ==
  ASSUME NEW w \in Word
  PROVE  /\ RefBits(w) \in Nat
         /\ RefBits(w) <= BLOCK_REFCOUNT_MASK
         /\ w.low = RefBits(w) + (IF Deallocating(w) THEN 1 ELSE 0)
         /\ \E k \in Nat : RefBits(w) = 2 * k
BY MaskAssumption DEF Word, RefBits, Deallocating

\* latching_incr_int adds one reference and disturbs no other bit.
LEMMA Plus2Facts ==
  ASSUME NEW w \in Word, ~Latched(w)
  PROVE  /\ Plus2(w) \in Word
         /\ RefBits(Plus2(w)) = RefBits(w) + 2
         /\ Deallocating(Plus2(w)) <=> Deallocating(w)
         /\ Plus2(w).high = w.high
<1>1. w.low \in 0 .. BLOCK_REFCOUNT_MASK + 1 /\ w.high \in Int
  BY DEF Word
<1>2. w.low + 2 <= BLOCK_REFCOUNT_MASK + 1
  BY <1>1, MaskAssumption DEF Latched, RefBits
<1>3. Plus2(w) = [high |-> w.high, low |-> w.low + 2]
  BY <1>2 DEF Plus2, Word
<1> QED
  BY <1>1, <1>2, <1>3, MaskAssumption DEF Word, RefBits, Deallocating

\* latching_decr_int_should_deallocate subtracts one reference.
LEMMA Minus2Facts ==
  ASSUME NEW w \in Word, RefBits(w) # 0
  PROVE  /\ Minus2(w) \in Word
         /\ RefBits(Minus2(w)) = RefBits(w) - 2
         /\ Deallocating(Minus2(w)) <=> Deallocating(w)
         /\ Minus2(w).high = w.high
<1>1. w.low \in 0 .. BLOCK_REFCOUNT_MASK + 1 /\ w.high \in Int
  BY DEF Word
<1>2. w.low >= 2
  BY <1>1, MaskAssumption DEF RefBits
<1>3. Minus2(w) = [high |-> w.high, low |-> w.low - 2]
  BY <1>2 DEF Minus2, Word
<1> QED
  BY <1>1, <1>2, <1>3, MaskAssumption DEF Word, RefBits, Deallocating

\* The last reference is exchanged for BLOCK_DEALLOCATING.
LEMMA Minus1Facts ==
  ASSUME NEW w \in Word, LastReference(w)
  PROVE  /\ Minus1(w) \in Word
         /\ RefBits(Minus1(w)) = 0
         /\ Deallocating(Minus1(w))
         /\ Minus1(w).high = w.high
         /\ RefBits(w) = 2
         /\ ~Deallocating(w)
         /\ ~Latched(w)
<1>1. w.low = 2 /\ w.high \in Int
  BY DEF Word, LastReference
<1>2. Minus1(w) = [high |-> w.high, low |-> 1]
  BY <1>1 DEF Minus1, Word
<1> QED
  BY <1>1, <1>2, MaskAssumption DEF Word, RefBits, Deallocating, Latched

-----------------------------------------------------------------------------
(* The set of references *)

LEMMA RefsFinite ==
  ASSUME TypeOK
  PROVE  /\ IsFiniteSet(refs)
         /\ Cardinality(refs) \in Nat
         /\ Cardinality(refs) = 0 <=> refs = {}
<1>1. IsFiniteSet(Ref \cup HelperRef)
  BY RefAssumption, FS_Union
<1>2. IsFiniteSet(refs)
  BY <1>1, FS_Subset DEF TypeOK
<1> QED
  BY <1>2, FS_CardinalityType, FS_EmptySet

LEMMA AcquireFacts ==
  ASSUME TypeOK, NEW r, r \notin refs
  PROVE  Cardinality(refs \cup {r}) = Cardinality(refs) + 1
BY RefsFinite, FS_AddElement

LEMMA DropFacts ==
  ASSUME TypeOK, NEW r \in refs
  PROVE  /\ Cardinality(refs \ {r}) = Cardinality(refs) - 1
         /\ Cardinality(refs) = 1 <=> refs \ {r} = {}
<1>1. /\ IsFiniteSet(refs \ {r})
      /\ Cardinality(refs \ {r}) = Cardinality(refs) - 1
  BY RefsFinite, FS_RemoveElement
<1>2. Cardinality(refs \ {r}) = 0 <=> refs \ {r} = {}
  BY <1>1, FS_EmptySet
<1> QED
  BY <1>1, <1>2, RefsFinite

-----------------------------------------------------------------------------
(* The calls under way *)

\* A call that returns leaves every other call what it relies on, as long as
\* it does not begin the disposal.
LEMMA ReturnKeepsCalls ==
  ASSUME Inv, NEW t \in Thread, Return(t), op[t] # "none",
         UNCHANGED <<phase, disposer>>,
         \/ refs' = refs
         \/ Acquire(t) /\ op[t] = "incr"
         \/ Acquire(t) /\ op[t] = "tryIncr" /\ phase = "live"
         \/ Drop(t) /\ op[t] = "decr"
  PROVE  CallsInv' /\ NoUseAfterFree'
<1> USE DEF TypeOK, Ops
<1>1. \A u \in Thread : op'[u] # "none" =>
        u # t /\ op'[u] = op[u] /\ old'[u] = old[u] /\ ref'[u] = ref[u] /\ src'[u] = src[u]
  BY DEF Inv, Return
<1>2. op'[t] = "none" /\ old'[t] = NoWord
  BY DEF Inv, Return
<1>3. \A u \in Thread : OldInv(u)'
  <2> TAKE u \in Thread
  <2>1. CASE u = t
    BY <1>2, <2>1 DEF OldInv
  <2>2. CASE u # t
    <3>1. op'[u] = op[u] /\ old'[u] = old[u]
      BY <2>2 DEF Inv, Return
    <3> QED
      BY <3>1 DEF Inv, CallsInv, OldInv
  <2> QED BY <2>1, <2>2
<1>4. \A u \in Thread : CallInv(u)'
  <2> SUFFICES ASSUME NEW u \in Thread, op'[u] # "none" PROVE CallInv(u)'
    BY DEF CallInv
  <2>1. CallInv(u) /\ CallInv(t) /\ Distinct(t, u) /\ Distinct(u, t)
    BY DEF Inv, CallsInv
  <2> QED
    BY <1>1, <2>1 DEF CallInv, Distinct, InDisposeHelper, Acquire, Drop
<1>5. \A u, v \in Thread : Distinct(u, v)'
  BY <1>1 DEF Inv, CallsInv, Distinct
<1>6. phase \notin {"destructed", "freed"}
  BY DEF Inv, NoUseAfterFree
<1> QED
  BY <1>3, <1>4, <1>5, <1>6 DEF CallsInv, NoUseAfterFree

\* So does the load of a word to which no early return applies.
LEMMA LoadKeepsInv ==
  ASSUME Inv, NEW t \in Thread, Load(t), op[t] # "none",
         ~Latched(flags),
         op[t] = "tryIncr" => ~Deallocating(flags),
         op[t] = "decr" => RefBits(flags) # 0
  PROVE  Inv'
<1>1. TypeOK'
  BY DEF Inv, TypeOK, Load
<1>2. \A u \in Thread : OldInv(u)'
  BY DEF Inv, TypeOK, CallsInv, OldInv, Load
<1>3. /\ CountExact' /\ DeallocatingBitExact' /\ HighBitsKept' /\ PhaseInv'
      /\ NoUseAfterFree'
      /\ \A u \in Thread : CallInv(u)' /\ \A v \in Thread : Distinct(u, v)'
  BY DEF Inv, CallsInv, Load, CountExact, DeallocatingBitExact, _Block_isDeallocating,
         HighBitsKept, PhaseInv, NoUseAfterFree, CallInv, Distinct, InDisposeHelper
<1> QED
  BY <1>1, <1>2, <1>3 DEF Inv, CallsInv

\* A call that starts on a reference no other call uses.
LEMMA EnterKeepsInv ==
  ASSUME Inv, NEW t \in Thread, NEW o \in Ops \ {"none"},
         NEW r \in Ref \cup HelperRef \cup {NoRef}, NEW s \in Ref \cup {NoRef},
         Enter(t, o, r, s),
         CallInv(t)',
         \A u \in Thread \ {t} : Distinct(t, u)' /\ Distinct(u, t)',
         phase \in {"live", "disposing"}
  PROVE  Inv'
<1>1. TypeOK'
  BY DEF Inv, TypeOK, Enter, Ops
<1>2. \A u \in Thread \ {t} :
        op'[u] = op[u] /\ old'[u] = old[u] /\ ref'[u] = ref[u] /\ src'[u] = src[u]
  BY DEF Inv, TypeOK, Enter
<1>3. old'[t] = NoWord
  BY DEF Inv, TypeOK, Enter, CallsInv, OldInv
<1>4. CallsInv'
  <2>1. \A u \in Thread : OldInv(u)'
    BY <1>2, <1>3 DEF Inv, CallsInv, OldInv
  <2>2. \A u \in Thread : CallInv(u)'
    BY <1>2 DEF Inv, CallsInv, CallInv, InDisposeHelper, Enter
  <2>3. \A u, v \in Thread : Distinct(u, v)'
    <3> SUFFICES ASSUME NEW u \in Thread, NEW v \in Thread PROVE Distinct(u, v)'
      OBVIOUS
    <3>1. CASE u = t \/ v = t
      BY <3>1 DEF Distinct
    <3>2. CASE u # t /\ v # t
      BY <3>2, <1>2 DEF Inv, CallsInv, Distinct
    <3> QED BY <3>1, <3>2
  <2> QED BY <2>1, <2>2, <2>3 DEF CallsInv
<1> QED
  BY <1>1, <1>4 DEF Inv, Enter, CountExact, DeallocatingBitExact, _Block_isDeallocating,
     HighBitsKept, PhaseInv, NoUseAfterFree

-----------------------------------------------------------------------------
(* Inv is inductive *)

LEMMA InitInv == Init => Inv
<1> SUFFICES ASSUME Init PROVE Inv
  OBVIOUS
<1>1. IsFiniteSet(refs) /\ Cardinality(refs) \in {1, 2} /\ refs \subseteq Ref
  BY RefAssumption, FS_Subset DEF Init
<1>2. flags \in Word /\ RefBits(flags) = 2 * Cardinality(refs) /\ ~Deallocating(flags)
  BY <1>1, MaskAssumption, HighBitsAssumption DEF Init, Word, RefBits, Deallocating
<1>3. TypeOK
  BY <1>1, <1>2 DEF Init, TypeOK, Ops, Phases
<1>4. refs # {}
  BY <1>1, FS_EmptySet
<1> QED
  BY <1>1, <1>2, <1>3, <1>4 DEF Init, Inv, CountExact, DeallocatingBitExact,
     _Block_isDeallocating, HighBitsKept, PhaseInv, CallsInv, OldInv, CallInv, Distinct,
     NoUseAfterFree

LEMMA CallCopyKeepsInv ==
  ASSUME Inv, NEW t \in Thread, CallCopy(t) PROVE Inv'
<1>1. ASSUME NEW r \in Ref \ (refs \cup Creating), NEW s \in (refs \cap Ref) \ Releasing,
             Enter(t, "incr", r, s)
      PROVE  Inv'
  <2>1. phase = "live"
    BY RefAssumption DEF Inv, PhaseInv
  <2>2. CallInv(t)'
    BY <1>1, <2>1 DEF Inv, TypeOK, CallInv, Enter
  <2>3. \A u \in Thread \ {t} : Distinct(t, u)' /\ Distinct(u, t)'
    BY <1>1, <2>1 DEF Inv, TypeOK, CallsInv, CallInv, Distinct, Enter, Creating, Releasing, Ops
  <2> QED
    BY <1>1, <2>1, <2>2, <2>3, EnterKeepsInv DEF Ops
<1>2. ASSUME NEW r \in HelperRef \ (refs \cup Creating), InDisposeHelper(t),
             Enter(t, "incr", r, NoRef)
      PROVE  Inv'
  <2>1. CallInv(t)'
    BY <1>2 DEF Inv, TypeOK, CallInv, Enter, InDisposeHelper
  <2>2. \A u \in Thread \ {t} : Distinct(t, u)' /\ Distinct(u, t)'
    BY <1>2 DEF Inv, TypeOK, CallsInv, CallInv, Distinct, Enter, Creating, InDisposeHelper, Ops
  <2> QED
    BY <1>2, <2>1, <2>2, EnterKeepsInv DEF Ops, InDisposeHelper
<1> QED
  BY <1>1, <1>2 DEF CallCopy

LEMMA CallTryRetainKeepsInv ==
  ASSUME Inv, NEW t \in Thread, CallTryRetain(t) PROVE Inv'
<1> PICK r \in Ref \ (refs \cup Creating) : Enter(t, "tryIncr", r, NoRef)
  BY DEF CallTryRetain
<1>1. CallInv(t)'
  BY DEF Inv, TypeOK, CallInv, Enter, CallTryRetain
<1>2. \A u \in Thread \ {t} : Distinct(t, u)' /\ Distinct(u, t)'
  BY RefAssumption DEF Inv, TypeOK, CallsInv, CallInv, Distinct, Enter, Creating, Ops
<1> QED
  BY <1>1, <1>2, EnterKeepsInv DEF Ops, CallTryRetain

LEMMA CallReleaseKeepsInv ==
  ASSUME Inv, NEW t \in Thread, CallRelease(t) PROVE Inv'
<1>1. ASSUME NEW r \in refs \ (Releasing \cup Borrowed), r \in HelperRef => InDisposeHelper(t),
             Enter(t, "decr", r, NoRef)
      PROVE  Inv'
  <2>1. phase \in {"live", "disposing"} /\ r \in Ref \cup HelperRef
    BY DEF Inv, TypeOK, Phases, NoUseAfterFree
  <2>2. CallInv(t)'
    BY <1>1 DEF Inv, TypeOK, PhaseInv, CallInv, Enter, InDisposeHelper
  <2>3. \A u \in Thread \ {t} : Distinct(t, u)' /\ Distinct(u, t)'
    <3> SUFFICES ASSUME NEW u \in Thread \ {t} PROVE Distinct(t, u)' /\ Distinct(u, t)'
      OBVIOUS
    <3>1. op'[t] = "decr" /\ ref'[t] = r /\ op'[u] = op[u] /\ ref'[u] = ref[u] /\ src'[u] = src[u]
      BY <1>1 DEF Inv, TypeOK, Enter
    <3>2. op[u] = "decr" => ref[u] # r
      BY DEF Releasing
    <3>3. op[u] = "incr" => src[u] # r
      BY DEF Borrowed
    <3>4. op[u] \in {"incr", "tryIncr"} => ref[u] # r
      BY DEF Inv, CallsInv, CallInv
    <3> QED
      BY <3>1, <3>2, <3>3, <3>4 DEF Distinct, Inv, TypeOK, Ops
  <2> QED
    BY <1>1, <2>1, <2>2, <2>3, EnterKeepsInv DEF Ops
<1>2. ASSUME InDisposeHelper(t), refs = {}, Enter(t, "decr", NoRef, NoRef)
      PROVE  Inv'
  <2>1. CallInv(t)'
    BY <1>2 DEF Inv, TypeOK, CallInv, Enter, InDisposeHelper
  <2>2. \A u \in Thread \ {t} : Distinct(t, u)' /\ Distinct(u, t)'
    BY <1>2, RefAssumption DEF Inv, TypeOK, CallsInv, CallInv, Distinct, Enter, InDisposeHelper, Ops
  <2> QED
    BY <1>2, <2>1, <2>2, EnterKeepsInv DEF Ops, InDisposeHelper
<1> QED
  BY <1>1, <1>2 DEF CallRelease

\* An acquisition, by whichever of the loops, that leaves the word latched or
\* has counted the reference.
LEMMA AcquireKeepsInv ==
  ASSUME Inv, NEW t \in Thread, Acquire(t), Return(t),
         op[t] = "incr" \/ (op[t] = "tryIncr" /\ phase = "live"),
         UNCHANGED <<phase, disposer, disposals>>,
         \/ Latched(flags) /\ flags' = flags
         \/ ~Latched(flags) /\ flags' = Plus2(flags)
  PROVE  Inv'
<1>1. CallsInv' /\ NoUseAfterFree'
  <2>1. CASE op[t] = "incr"
    BY <2>1, ReturnKeepsCalls
  <2>2. CASE op[t] = "tryIncr" /\ phase = "live"
    BY <2>2, ReturnKeepsCalls
  <2> QED BY <2>1, <2>2
<1>2. ref[t] \notin refs /\ (phase = "live" => ref[t] \in Ref) /\ (phase # "live" => ref[t] \in HelperRef)
  BY DEF Inv, CallsInv, CallInv
<1>3. flags \in Word
  BY DEF Inv, TypeOK
<1>4. /\ flags' \in Word
      /\ flags'.high = flags.high
      /\ Deallocating(flags') <=> Deallocating(flags)
      /\ ~Latched(flags) => RefBits(flags') = RefBits(flags) + 2
  BY <1>3, Plus2Facts
<1>5. TypeOK'
  BY <1>2, <1>4 DEF Inv, TypeOK, Acquire, Return, Ops
<1>6. CountExact'
  <2>1. CASE Latched(flags)
    BY <2>1 DEF CountExact, Latched, RefBits
  <2>2. CASE ~Latched(flags)
    <3>1. Cardinality(refs') = Cardinality(refs) + 1
      BY <1>2, AcquireFacts DEF Inv, Acquire
    <3>2. RefBits(flags) = 2 * Cardinality(refs)
      BY <2>2 DEF Inv, CountExact
    <3> QED
      BY <2>2, <3>1, <3>2, <1>4, RefsFinite DEF Inv, CountExact
  <2> QED BY <2>1, <2>2
<1>7. PhaseInv'
  BY <1>2 DEF Inv, PhaseInv, Acquire
<1> QED
  BY <1>1, <1>4, <1>5, <1>6, <1>7 DEF Inv, DeallocatingBitExact, _Block_isDeallocating, HighBitsKept

LEMMA IncrKeepsInv ==
  ASSUME Inv, NEW t \in Thread, IncrLatched(t) \/ IncrLoad(t) \/ IncrSwap(t)
  PROVE  Inv'
<1>1. CASE IncrLatched(t)
  BY <1>1, AcquireKeepsInv DEF IncrLatched, Loading
<1>2. CASE IncrLoad(t)
  BY <1>2, LoadKeepsInv DEF IncrLoad, Loading
<1>3. CASE IncrSwap(t)
  <2>1. ~Latched(flags)
    BY <1>3 DEF Inv, CallsInv, OldInv, IncrSwap, Swap
  <2> QED
    BY <1>3, <2>1, AcquireKeepsInv DEF IncrSwap, Swap
<1> QED BY <1>1, <1>2, <1>3

LEMMA TryKeepsInv ==
  ASSUME Inv, NEW t \in Thread,
         TryDeallocating(t) \/ TryLatched(t) \/ TryLoad(t) \/ TrySwap(t)
  PROVE  Inv'
<1>1. CASE TryDeallocating(t)
  <2>1. CallsInv' /\ NoUseAfterFree'
    BY <1>1, ReturnKeepsCalls DEF TryDeallocating, Loading
  <2> QED
    BY <1>1, <2>1 DEF TryDeallocating, Inv, TypeOK, Return, Ops, CountExact,
       DeallocatingBitExact, _Block_isDeallocating, HighBitsKept, PhaseInv
<1>2. CASE TryLatched(t)
  <2>1. phase = "live"
    BY <1>2 DEF TryLatched, Inv, DeallocatingBitExact, _Block_isDeallocating
  <2> QED
    BY <1>2, <2>1, AcquireKeepsInv DEF TryLatched, Loading
<1>3. CASE TryLoad(t)
  BY <1>3, LoadKeepsInv DEF TryLoad, Loading
<1>4. CASE TrySwap(t)
  <2>1. ~Latched(flags) /\ phase = "live"
    BY <1>4 DEF Inv, CallsInv, OldInv, TrySwap, Swap, DeallocatingBitExact, _Block_isDeallocating
  <2> QED
    BY <1>4, <2>1, AcquireKeepsInv DEF TrySwap, Swap
<1> QED BY <1>1, <1>2, <1>3, <1>4

\* A thread that releases owns what it releases, unless its dispose helper
\* releases once too often.
LEMMA ReleasedIsOwned ==
  ASSUME Inv, NEW t \in Thread, op[t] = "decr", ref[t] \notin refs
  PROVE  refs = {} /\ phase # "live" /\ refs \ {ref[t]} = refs
BY DEF Inv, CallsInv, CallInv

LEMMA DecrSwapKeepsInv ==
  ASSUME Inv, NEW t \in Thread, DecrSwap(t)
  PROVE  Inv'
<1>1. op[t] = "decr" /\ flags \in Word /\ flags' = Minus2(flags) /\ ~LastReference(flags)
  BY DEF DecrSwap, Swap, Inv, TypeOK
<1>2. ~Latched(flags) /\ RefBits(flags) # 0 /\ RefBits(flags) = 2 * Cardinality(refs)
  BY DEF DecrSwap, Swap, Inv, CallsInv, OldInv, CountExact
<1>3. ref[t] \in refs
  BY <1>1, <1>2, ReleasedIsOwned, RefsFinite DEF Inv
<1>4. CallsInv' /\ NoUseAfterFree'
  BY <1>1, ReturnKeepsCalls DEF DecrSwap
<1>5. /\ flags' \in Word
      /\ flags'.high = flags.high
      /\ Deallocating(flags') <=> Deallocating(flags)
      /\ RefBits(flags') = RefBits(flags) - 2
  BY <1>1, <1>2, Minus2Facts
<1>6. Cardinality(refs') = Cardinality(refs) - 1
  BY <1>3, DropFacts DEF DecrSwap, Drop, Inv
<1>7. TypeOK'
  BY <1>5 DEF DecrSwap, Inv, TypeOK, Return, Drop, Ops
<1>8. CountExact'
  BY <1>2, <1>5, <1>6, RefsFinite DEF Inv, CountExact
<1>9. PhaseInv'
  <2>1. phase = "live" => refs' # {}
    <3> SUFFICES ASSUME phase = "live" PROVE refs' # {}
      OBVIOUS
    <3>1. RefBits(flags) # 2
      BY <1>1, WordFacts DEF LastReference, Inv, DeallocatingBitExact, _Block_isDeallocating
    <3>2. Cardinality(refs) # 1
      BY <3>1, <1>2
    <3> QED
      BY <3>2, <1>3, DropFacts DEF DecrSwap, Drop, Inv
  <2> QED
    BY <2>1 DEF DecrSwap, Drop, Inv, PhaseInv
<1> QED
  BY <1>4, <1>5, <1>7, <1>8, <1>9 DEF DecrSwap, Inv, DeallocatingBitExact, _Block_isDeallocating, HighBitsKept

LEMMA DecrSwapLastKeepsInv ==
  ASSUME Inv, NEW t \in Thread, DecrSwapLast(t)
  PROVE  Inv' /\ refs' = {} /\ \A u \in Thread : op'[u] \in {"none", "tryIncr"}
<1>1. op[t] = "decr" /\ flags \in Word /\ flags' = Minus1(flags) /\ LastReference(flags)
  BY DEF DecrSwapLast, Swap, Inv, TypeOK
<1>2. phase = "live" /\ ~Latched(flags) /\ RefBits(flags) = 2
  BY <1>1, Minus1Facts DEF Inv, DeallocatingBitExact, _Block_isDeallocating
<1>3. Cardinality(refs) = 1
  BY <1>2, RefsFinite DEF Inv, CountExact
<1>4. ref[t] \in refs
  BY <1>1, <1>2, ReleasedIsOwned
<1>5. refs' = {} /\ refs = {ref[t]}
  BY <1>3, <1>4, DropFacts DEF DecrSwapLast, Drop, Inv
\* The other calls on the object: a copy or a release would own another reference.
<1>6. \A u \in Thread \ {t} : op[u] \in {"none", "tryIncr"}
  <2> SUFFICES ASSUME NEW u \in Thread \ {t}, op[u] \in {"incr", "decr"} PROVE FALSE
    BY DEF Inv, TypeOK, Ops
  <2>1. CallInv(u) /\ Distinct(u, t)
    BY DEF Inv, CallsInv
  <2> QED
    BY <2>1, <1>1, <1>2, <1>5 DEF CallInv, Distinct
<1>7. /\ op' = [op EXCEPT ![t] = "none"]
      /\ \A u \in Thread \ {t} :
           old'[u] = old[u] /\ ref'[u] = ref[u] /\ src'[u] = src[u]
      /\ old'[t] = NoWord
  BY DEF DecrSwapLast, Return, Inv, TypeOK
<1>8. op'[t] = "none" /\ \A u \in Thread \ {t} : op'[u] = op[u]
  BY <1>7 DEF Inv, TypeOK
<1>9. /\ flags' \in Word
      /\ RefBits(flags') = 0
      /\ Deallocating(flags')
      /\ flags'.high = flags.high
  BY <1>1, Minus1Facts
<1>10. TypeOK'
  BY <1>5, <1>9 DEF DecrSwapLast, Inv, TypeOK, Return, Ops, Phases
<1>11. CallsInv'
  <2>1. ASSUME NEW u \in Thread PROVE OldInv(u)' /\ CallInv(u)'
    <3>1. CASE u = t
      BY <3>1, <1>7, <1>8 DEF OldInv, CallInv
    <3>2. CASE u # t
      BY <3>2, <1>5, <1>6, <1>7, <1>8 DEF Inv, CallsInv, OldInv, CallInv, DecrSwapLast
    <3> QED BY <3>1, <3>2
  <2>2. ASSUME NEW u \in Thread, NEW v \in Thread PROVE Distinct(u, v)'
    BY <1>7, <1>8 DEF Inv, CallsInv, Distinct
  <2> QED BY <2>1, <2>2 DEF CallsInv
<1>12. CountExact' /\ DeallocatingBitExact' /\ HighBitsKept'
  BY <1>5, <1>9, FS_EmptySet DEF DecrSwapLast, Inv, CountExact, DeallocatingBitExact,
     _Block_isDeallocating, HighBitsKept
<1>13. PhaseInv' /\ NoUseAfterFree'
  BY <1>2, <1>5 DEF DecrSwapLast, Inv, PhaseInv, NoUseAfterFree
<1> QED
  BY <1>5, <1>6, <1>8, <1>10, <1>11, <1>12, <1>13 DEF Inv

LEMMA DecrKeepsInv ==
  ASSUME Inv, NEW t \in Thread,
         \/ DecrLatched(t) \/ DecrUnderflow(t) \/ DecrLoad(t)
         \/ DecrSwap(t) \/ DecrSwapLast(t)
  PROVE  Inv'
<1>1. CASE DecrLatched(t)
  <2>1. CallsInv' /\ NoUseAfterFree'
    BY <1>1, ReturnKeepsCalls DEF DecrLatched, Loading
  <2> QED
    BY <1>1, <2>1 DEF DecrLatched, Inv, TypeOK, Return, Drop, Ops, CountExact,
       DeallocatingBitExact, _Block_isDeallocating, HighBitsKept, PhaseInv
<1>2. CASE DecrUnderflow(t)
  <2>1. CallsInv' /\ NoUseAfterFree'
    BY <1>2, ReturnKeepsCalls DEF DecrUnderflow, Loading
  <2>2. ~Latched(flags)
    BY <1>2, MaskAssumption DEF DecrUnderflow, Latched
  <2>3. refs = {}
    BY <1>2, <2>2, RefsFinite DEF DecrUnderflow, Inv, CountExact
  <2>4. refs' = refs
    BY <1>2, <2>3 DEF DecrUnderflow, Drop
  <2> QED
    BY <1>2, <2>1, <2>4 DEF DecrUnderflow, Inv, TypeOK, Return, Ops, CountExact,
       DeallocatingBitExact, _Block_isDeallocating, HighBitsKept, PhaseInv
<1>3. CASE DecrLoad(t)
  BY <1>3, LoadKeepsInv DEF DecrLoad, Loading
<1>4. CASE DecrSwap(t)
  BY <1>4, DecrSwapKeepsInv
<1>5. CASE DecrSwapLast(t)
  BY <1>5, DecrSwapLastKeepsInv
<1> QED BY <1>1, <1>2, <1>3, <1>4, <1>5

LEMMA SwapFailsKeepsInv ==
  ASSUME Inv, NEW t \in Thread, SwapFails(t) PROVE Inv'
<1>1. TypeOK'
  BY DEF Inv, TypeOK, SwapFails
<1>2. \A u \in Thread : OldInv(u)'
  BY DEF Inv, TypeOK, CallsInv, OldInv, SwapFails
<1> QED
  BY <1>1, <1>2 DEF Inv, CallsInv, SwapFails, CountExact, DeallocatingBitExact,
     _Block_isDeallocating, HighBitsKept, PhaseInv, NoUseAfterFree, CallInv, Distinct,
     InDisposeHelper

LEMMA DisposalKeepsInv ==
  ASSUME Inv, NEW t \in Thread, DestructInstance(t) \/ Free(t) PROVE Inv'
<1>1. refs = {} /\ \A u \in Thread : op[u] = "none"
  <2>1. CASE DestructInstance(t)
    <3>1. refs = {}
      BY <2>1 DEF DestructInstance, InDisposeHelper, Inv, PhaseInv
    <3> QED
      BY <2>1, <3>1 DEF DestructInstance, InDisposeHelper, Inv, TypeOK, Ops, CallsInv, CallInv
  <2>2. CASE Free(t)
    BY <2>2 DEF Free, Inv, NoUseAfterFree
  <2> QED BY <2>1, <2>2
<1> QED
  BY <1>1 DEF DestructInstance, Free, InDisposeHelper, Inv, TypeOK, Phases, CountExact,
     DeallocatingBitExact, _Block_isDeallocating, HighBitsKept, PhaseInv, NoUseAfterFree,
     CallsInv, OldInv, CallInv, Distinct

LEMMA NextInv == Inv /\ [Next]_vars => Inv'
<1> SUFFICES ASSUME Inv, [Next]_vars PROVE Inv'
  OBVIOUS
<1>1. CASE UNCHANGED vars
  BY <1>1 DEF vars, Inv, TypeOK, CountExact, DeallocatingBitExact, _Block_isDeallocating,
     HighBitsKept, PhaseInv, CallsInv, OldInv, CallInv, Distinct, InDisposeHelper, NoUseAfterFree
<1>2. ASSUME NEW t \in Thread, Call(t) PROVE Inv'
  BY <1>2, CallCopyKeepsInv, CallTryRetainKeepsInv, CallReleaseKeepsInv DEF Call
<1>3. ASSUME NEW t \in Thread, Step(t) PROVE Inv'
  BY <1>3, IncrKeepsInv, TryKeepsInv, DecrKeepsInv, SwapFailsKeepsInv, DisposalKeepsInv DEF Step
<1> QED
  BY <1>1, <1>2, <1>3 DEF Next

-----------------------------------------------------------------------------
(* The theorems *)

\* Every reachable state satisfies the inductive invariant.
THEOREM Invariance == Spec => []Inv
BY InitInv, NextInv, PTL DEF Spec

\* The variables keep their types; in particular the count stays in its field.
THEOREM TypeCorrectness == Spec => []TypeOK
<1>1. Inv => TypeOK
  BY DEF Inv
<1> QED BY <1>1, Invariance, PTL

\* The count is the number of references for any number of threads: no
\* compare-and-swap of runtime.cpp loses an update, at any width of the field.
THEOREM CountIsExact == Spec => []CountExact
<1>1. Inv => CountExact
  BY DEF Inv
<1> QED BY <1>1, Invariance, PTL

\* BLOCK_DEALLOCATING says exactly whether _Block_release has begun disposal.
THEOREM DeallocatingBitIsExact == Spec => []DeallocatingBitExact
<1>1. Inv => DeallocatingBitExact
  BY DEF Inv
<1> QED BY <1>1, Invariance, PTL

\* The dispose helper and free() run once for a heap object.
THEOREM DisposedAtMostOnce == Spec => []DisposedOnce
<1>1. Inv => DisposedOnce
  BY DEF Inv, PhaseInv, DisposedOnce
<1> QED BY <1>1, Invariance, PTL

\* The arithmetic on the count never reaches the flag bits above it.
THEOREM HighBitsAreKept == Spec => []HighBitsKept
<1>1. Inv => HighBitsKept
  BY DEF Inv
<1> QED BY <1>1, Invariance, PTL

\* Memory is given back when no thread can still touch it.
THEOREM NoUseAfterFreeHolds == Spec => []NoUseAfterFree
<1>1. Inv => NoUseAfterFree
  BY DEF Inv
<1> QED BY <1>1, Invariance, PTL

\* A release that begins disposal was the last owner's.
THEOREM LastReferenceIsGone == Spec => LastReferenceGone
<1>1. Inv /\ [Next]_vars =>
        [disposals' # disposals =>
           refs' = {} /\ \A t \in Thread : op'[t] \in {"none", "tryIncr"}]_vars
  <2> SUFFICES ASSUME Inv, Next, disposals' # disposals
               PROVE  refs' = {} /\ \A t \in Thread : op'[t] \in {"none", "tryIncr"}
    BY DEF vars
  <2> PICK t \in Thread : Call(t) \/ Step(t)
    BY DEF Next
  <2>1. DecrSwapLast(t)
    BY DEF Call, CallCopy, CallTryRetain, CallRelease, Enter, Step, IncrLatched, IncrLoad,
       IncrSwap, TryDeallocating, TryLatched, TryLoad, TrySwap, DecrLatched, DecrUnderflow,
       DecrLoad, DecrSwap, SwapFails, DestructInstance, Free, Load
  <2> QED
    BY <2>1, DecrSwapLastKeepsInv
<1> QED
  BY <1>1, Invariance, PTL DEF Spec, LastReferenceGone

\* Nothing moves a latched count, and a live object with one is leaked.
THEOREM LatchedForever == Spec => LatchIsForever
<1>1. Inv /\ [Next]_vars =>
        [Latched(flags) => flags' = flags /\ (phase = "live" => phase' = "live")]_vars
  <2> SUFFICES ASSUME Inv, Next, Latched(flags)
               PROVE  flags' = flags /\ (phase = "live" => phase' = "live")
    OBVIOUS
  <2> PICK t \in Thread : Call(t) \/ Step(t)
    BY DEF Next
  <2>1. ~IncrSwap(t) /\ ~TrySwap(t) /\ ~DecrSwap(t) /\ ~DecrSwapLast(t)
    BY DEF Inv, CallsInv, OldInv, IncrSwap, TrySwap, DecrSwap, DecrSwapLast, Swap
  <2> QED
    BY <2>1 DEF Call, CallCopy, CallTryRetain, CallRelease, Enter, Step, IncrLatched, IncrLoad,
       TryDeallocating, TryLatched, TryLoad, DecrLatched, DecrUnderflow, DecrLoad,
       SwapFails, DestructInstance, Free, Load, InDisposeHelper
<1> QED
  BY <1>1, Invariance, PTL DEF Spec, LatchIsForever

\* _Block_tryRetain succeeds exactly on an object whose disposal has not begun.
THEOREM TryRetainIsExact == Spec => TryRetainExact
<1>1. Inv /\ [Next]_vars =>
        [\A t \in Thread :
           op[t] = "tryIncr" /\ op'[t] = "none" =>
             (ref[t] \in refs' <=> phase = "live")]_vars
  <2> SUFFICES ASSUME Inv, Next, NEW t \in Thread, op[t] = "tryIncr", op'[t] = "none"
               PROVE  ref[t] \in refs' <=> phase = "live"
    OBVIOUS
  <2> PICK u \in Thread : Call(u) \/ Step(u)
    BY DEF Next
  <2>1. ref[t] \notin refs
    BY DEF Inv, CallsInv, CallInv
  <2>2. u = t /\ ~Call(u)
    BY DEF Inv, TypeOK, Call, CallCopy, CallTryRetain, CallRelease, Enter, Step, Return,
       IncrLatched, IncrLoad, IncrSwap, TryDeallocating, TryLatched, TryLoad, TrySwap,
       DecrLatched, DecrUnderflow, DecrLoad, DecrSwap, DecrSwapLast, SwapFails,
       DestructInstance, Free, Load
  <2>3. TryDeallocating(t) \/ TryLatched(t) \/ TrySwap(t)
    BY <2>2 DEF Step, IncrLatched, IncrLoad, IncrSwap, TryLoad, DecrLatched, DecrUnderflow,
       DecrLoad, DecrSwap, DecrSwapLast, SwapFails, DestructInstance, Free, Load, Loading, Swap
  <2>4. CASE TryDeallocating(t)
    BY <2>1, <2>4 DEF TryDeallocating, Inv, DeallocatingBitExact, _Block_isDeallocating
  <2>5. CASE TryLatched(t)
    BY <2>5 DEF TryLatched, Acquire, Inv, DeallocatingBitExact, _Block_isDeallocating
  <2>6. CASE TrySwap(t)
    BY <2>6 DEF TrySwap, Swap, Acquire, Inv, CallsInv, OldInv, DeallocatingBitExact,
       _Block_isDeallocating
  <2> QED BY <2>3, <2>4, <2>5, <2>6
<1> QED
  BY <1>1, Invariance, PTL DEF Spec, TryRetainExact

-----------------------------------------------------------------------------
(* LatchingCount implements AtomicCount *)

\* The latch closes when the references reach half the mask.
LEMMA LatchLimit ==
  ASSUME NEW n \in Nat
  PROVE  2 * n = BLOCK_REFCOUNT_MASK <=> n = BLOCK_REFCOUNT_MASK \div 2
BY MaskAssumption

\* The instance's Cardinality is the Cardinality of this module.
LEMMA SameCardinality ==
  ASSUME NEW S
  PROVE  Atomic!Cardinality(S) = Cardinality(S)
BY Zenon DEF Atomic!Cardinality, Cardinality

LEMMA AbstractAcquire ==
  ASSUME Inv, Inv', NEW t \in Thread, Acquire(t), UNCHANGED phase,
         op[t] = "incr" \/ (op[t] = "tryIncr" /\ phase = "live"),
         \/ Latched(flags) /\ flags' = flags
         \/ ~Latched(flags) /\ RefBits(flags') = RefBits(flags) + 2
  PROVE  Atomic!Acquire(ref[t])
<1>1. ref[t] \notin refs /\ ref[t] \in (IF phase = "live" THEN Ref ELSE HelperRef)
  BY DEF Inv, CallsInv, CallInv
<1>2. phase \in {"live", "disposing"}
  BY DEF Inv, CallsInv, CallInv, InDisposeHelper
<1>3. Latched(flags)' <=> Latched(flags) \/ Atomic!Saturates(refs')
  <2>1. CASE Latched(flags)
    BY <2>1 DEF Latched, RefBits
  <2>2. CASE ~Latched(flags)
    <3>1. Cardinality(refs') = Cardinality(refs) + 1 /\ Cardinality(refs) \in Nat
      BY <1>1, AcquireFacts, RefsFinite DEF Inv, Acquire
    <3>2. RefBits(flags') = 2 * Cardinality(refs')
      BY <2>2, <3>1 DEF Inv, CountExact
    <3>3. Latched(flags)' <=> 2 * Cardinality(refs') = BLOCK_REFCOUNT_MASK
      BY <3>2 DEF Latched
    <3>4. Atomic!Saturates(refs') <=> 2 * Cardinality(refs') = BLOCK_REFCOUNT_MASK
      <4>1. Cardinality(refs') \in Nat
        BY <3>1
      <4>2. 2 * Cardinality(refs') = BLOCK_REFCOUNT_MASK
              <=> Cardinality(refs') = BLOCK_REFCOUNT_MASK \div 2
        BY <4>1, LatchLimit
      <4> QED
        BY <4>2, SameCardinality DEF Atomic!Saturates
    <3> QED
      BY <2>2, <3>3, <3>4
  <2> QED BY <2>1, <2>2
<1>4. Latched(flags)' = (Latched(flags) \/ Atomic!Saturates(refs'))
  BY <1>3, Zenon DEF Latched, Atomic!Saturates
<1> QED
  BY <1>1, <1>2, <1>4 DEF Atomic!Acquire, Acquire

LEMMA AbstractDecrSwap ==
  ASSUME Inv, Inv', NEW t \in Thread, DecrSwap(t)
  PROVE  Atomic!Drop(ref[t])
<1>1. op[t] = "decr" /\ flags \in Word /\ flags' = Minus2(flags)
  BY DEF DecrSwap, Swap, Inv, TypeOK
<1>2. ~Latched(flags) /\ RefBits(flags) # 0 /\ RefBits(flags) = 2 * Cardinality(refs)
  BY DEF DecrSwap, Swap, Inv, CallsInv, OldInv, CountExact
<1>3. ref[t] \in refs
  BY <1>1, <1>2, ReleasedIsOwned, RefsFinite DEF Inv
<1>4. ~Latched(flags)'
  BY <1>1, <1>2, Minus2Facts, WordFacts DEF Latched
<1>5. phase = "live" => refs' # {}
  BY <1>4 DEF DecrSwap, Inv, PhaseInv
<1>6. Latched(flags)' = Latched(flags)
  BY <1>2, <1>4, Zenon DEF Latched
<1>7. phase' = phase /\ refs' = refs \ {ref[t]}
  BY DEF DecrSwap, Drop
<1> QED
  BY <1>2, <1>3, <1>5, <1>6, <1>7 DEF Atomic!Drop

LEMMA AbstractInit == Init => Atomic!Init
<1> SUFFICES ASSUME Init PROVE Atomic!Init
  OBVIOUS
<1>1. refs \in {R \in SUBSET Ref : Cardinality(R) \in {1, 2}} /\ phase = "live"
  BY DEF Init
<1>2. refs \in {R \in SUBSET Ref : Atomic!Cardinality(R) \in {1, 2}}
  BY <1>1, SameCardinality
<1>3. Latched(flags) <=> 2 * Cardinality(refs) = BLOCK_REFCOUNT_MASK
  BY <1>1 DEF Init, Latched, RefBits
<1>4. Latched(flags) <=> Cardinality(refs) = BLOCK_REFCOUNT_MASK \div 2
  BY <1>1, <1>3, LatchLimit
<1>5. Latched(flags) = Atomic!Saturates(refs)
  BY <1>4, SameCardinality, Zenon DEF Latched, Atomic!Saturates
<1> QED
  BY <1>1, <1>2, <1>5 DEF Atomic!Init

\* A step that leaves references, latch and phase alone is a stutter.
LEMMA AbstractStutter ==
  ASSUME refs' = refs, phase' = phase, flags' = flags
  PROVE  UNCHANGED Atomic!vars
BY Zenon DEF Atomic!vars, Latched, RefBits

LEMMA AbstractStep ==
  ASSUME Inv, Inv', NEW t \in Thread, Step(t)
  PROVE  [Atomic!Next]_(Atomic!vars)
<1>a. ASSUME Atomic!Acquire(ref[t]) PROVE Atomic!Next
  BY <1>a DEF Atomic!Next, Atomic!Acquire
<1>d. ASSUME Atomic!Drop(ref[t]) PROVE Atomic!Next
  BY <1>d DEF Atomic!Next, Atomic!Drop, Inv, TypeOK
<1>1. CASE IncrLatched(t)
  BY <1>1, <1>a, AbstractAcquire DEF IncrLatched, Loading
<1>2. CASE IncrSwap(t)
  <2>1. op[t] = "incr" /\ ~Latched(flags) /\ flags \in Word /\ flags' = Plus2(flags)
    BY <1>2 DEF Inv, TypeOK, CallsInv, OldInv, IncrSwap, Swap
  <2> QED
    BY <1>2, <2>1, <1>a, Plus2Facts, AbstractAcquire DEF IncrSwap
<1>3. CASE TryLatched(t)
  BY <1>3, <1>a, AbstractAcquire DEF TryLatched, Loading, Inv, DeallocatingBitExact,
     _Block_isDeallocating
<1>4. CASE TrySwap(t)
  <2>1. /\ op[t] = "tryIncr" /\ ~Latched(flags) /\ phase = "live"
        /\ flags \in Word /\ flags' = Plus2(flags)
    BY <1>4 DEF Inv, TypeOK, CallsInv, OldInv, TrySwap, Swap, DeallocatingBitExact,
       _Block_isDeallocating
  <2> QED
    BY <1>4, <2>1, <1>a, Plus2Facts, AbstractAcquire DEF TrySwap
<1>5. CASE DecrLatched(t)
  <2>1. CASE ref[t] \in refs
    <3>1. Latched(flags)' = Latched(flags)
      BY <1>5, Zenon DEF DecrLatched, Latched, RefBits
    <3>2. Atomic!Drop(ref[t])
      BY <1>5, <2>1, <3>1 DEF Atomic!Drop, DecrLatched, Drop
    <3> QED BY <3>2, <1>d
  <2>2. CASE ref[t] \notin refs
    <3>1. refs' = refs
      BY <1>5, <2>2 DEF DecrLatched, Drop
    <3> QED
      BY <1>5, <3>1, AbstractStutter DEF DecrLatched
  <2> QED BY <2>1, <2>2
<1>6. CASE DecrUnderflow(t)
  <2>1. ~Latched(flags)
    BY <1>6, MaskAssumption DEF DecrUnderflow, Latched
  <2>2. refs = {}
    BY <1>6, <2>1, RefsFinite DEF DecrUnderflow, Inv, CountExact
  <2>3. refs' = refs
    BY <1>6, <2>2 DEF DecrUnderflow, Drop
  <2> QED
    BY <1>6, <2>3, AbstractStutter DEF DecrUnderflow
<1>7. CASE DecrSwap(t)
  BY <1>7, <1>d, AbstractDecrSwap
<1>8. CASE DecrSwapLast(t)
  <2>1. op[t] = "decr" /\ flags \in Word /\ flags' = Minus1(flags) /\ LastReference(flags)
    BY <1>8 DEF DecrSwapLast, Swap, Inv, TypeOK
  <2>2. /\ phase = "live" /\ ~Latched(flags) /\ RefBits(flags') = 0
    BY <2>1, Minus1Facts DEF Inv, DeallocatingBitExact, _Block_isDeallocating
  <2>3. ref[t] \in refs /\ refs' = {}
    BY <1>8, <2>1, <2>2, ReleasedIsOwned, DecrSwapLastKeepsInv
  <2>4. ~Latched(flags)'
    BY <2>2, MaskAssumption DEF Latched
  <2>5. Latched(flags)' = Latched(flags)
    BY <2>2, <2>4, Zenon DEF Latched
  <2>6. Atomic!Drop(ref[t])
    BY <1>8, <2>2, <2>3, <2>5 DEF Atomic!Drop, DecrSwapLast, Drop
  <2> QED BY <2>6, <1>d
<1>9. CASE DestructInstance(t)
  <2>1. refs = {} /\ phase = "disposing"
    BY <1>9 DEF DestructInstance, InDisposeHelper, Inv, PhaseInv
  <2>2. Latched(flags)' = Latched(flags)
    BY <1>9, Zenon DEF DestructInstance, Latched, RefBits
  <2> QED
    BY <1>9, <2>1, <2>2 DEF Atomic!Next, Atomic!Destruct, DestructInstance
<1>10. CASE Free(t)
  <2>1. Latched(flags)' = Latched(flags)
    BY <1>10, Zenon DEF Free, Latched, RefBits
  <2> QED
    BY <1>10, <2>1 DEF Atomic!Next, Atomic!Free, Free
<1>11. CASE IncrLoad(t) \/ TryDeallocating(t) \/ TryLoad(t) \/ DecrLoad(t) \/ SwapFails(t)
  BY <1>11, AbstractStutter DEF IncrLoad, TryDeallocating, TryLoad, DecrLoad, SwapFails, Load
<1> QED
  BY <1>1, <1>2, <1>3, <1>4, <1>5, <1>6, <1>7, <1>8, <1>9, <1>10, <1>11 DEF Step

\* The three loops, interleaved at their loads and compare-and-swaps, are an
\* atomic reference count: every step is one step of AtomicCount or none.
THEOREM Refinement == Spec => ImplementsAtomicCount
<1>1. Inv /\ Inv' /\ [Next]_vars => [Atomic!Next]_(Atomic!vars)
  <2> SUFFICES ASSUME Inv, Inv', [Next]_vars PROVE [Atomic!Next]_(Atomic!vars)
    OBVIOUS
  <2>1. CASE UNCHANGED vars
    BY <2>1, AbstractStutter DEF vars
  <2>2. ASSUME NEW t \in Thread, Call(t) PROVE UNCHANGED Atomic!vars
    BY <2>2, AbstractStutter DEF Call, CallCopy, CallTryRetain, CallRelease, Enter
  <2>3. ASSUME NEW t \in Thread, Step(t) PROVE [Atomic!Next]_(Atomic!vars)
    BY <2>3, AbstractStep
  <2> QED BY <2>1, <2>2, <2>3 DEF Next
<1> QED
  BY <1>1, AbstractInit, Invariance, PTL DEF Spec, Atomic!Spec, ImplementsAtomicCount

=============================================================================
