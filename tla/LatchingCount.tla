---------------------------- MODULE LatchingCount ----------------------------
(***************************************************************************)
(* The reference count in the low 16 bits of the flags word of a heap      *)
(* Block (Block_layout.flags) or of a heap __block variable                *)
(* (Block_byref.flags), and the three compare-and-swap loops of            *)
(* runtime.cpp that change it:                                             *)
(*   latching_incr_int                   _Block_copy, _Block_byref_copy    *)
(*   latching_incr_int_not_deallocating  _Block_tryRetain                  *)
(*   latching_decr_int_should_deallocate _Block_release, byref release     *)
(*                                                                         *)
(* One heap object is modelled, with any number of threads.  Each round of *)
(* a loop is two steps, the load of the word and the compare-and-swap; an  *)
(* early return is taken in the step of the load, since nothing shared is  *)
(* touched after it.                                                       *)
(*                                                                         *)
(* The callers' side is the ownership rule of Block.h: a copy is paired    *)
(* with a release.  "refs" holds the strong references the program owns;   *)
(* a caller releases a reference once, keeps the one it copies from until  *)
(* the copy has returned, and calls _Block_tryRetain only inside the weak  *)
(* subsystem's exclusion zone (Block_private.h).  While the dispose helper *)
(* runs it may still copy and release the dying object through the pointer *)
(* it was given, or release it once too often; what it took it gives back  *)
(* before it returns.                                                      *)
(***************************************************************************)
EXTENDS Integers, FiniteSets

CONSTANTS
  Thread,               \* threads of the program
  Ref,                  \* the program's variables that can own a reference
  HelperRef,            \* the same, for the local variables of its dispose helper
  BLOCK_REFCOUNT_MASK,  \* 0xfffe in Block_private.h; any even mask here
  HighBits,             \* the flag bits above the 16-bit field, as a number
  NoThread, NoRef, NoWord

ASSUME MaskAssumption ==
  /\ BLOCK_REFCOUNT_MASK \in Nat
  /\ BLOCK_REFCOUNT_MASK >= 4
  /\ BLOCK_REFCOUNT_MASK % 2 = 0

ASSUME HighBitsAssumption == HighBits \in Nat

ASSUME RefAssumption ==
  /\ IsFiniteSet(Ref) /\ IsFiniteSet(HelperRef)
  /\ Ref \cap HelperRef = {}
  /\ NoRef \notin Ref \cup HelperRef

ASSUME ThreadAssumption == NoThread \notin Thread

(***************************************************************************)
(* The flags word.  "low" is the field BLOCK_REFCOUNT_MASK |               *)
(* BLOCK_DEALLOCATING, "high" is everything above it, so that an addition  *)
(* that overflows the field shows up as a carry into the other flags.      *)
(***************************************************************************)
Word == [high : Int, low : 0 .. BLOCK_REFCOUNT_MASK + 1]

ASSUME NoWordAssumption == NoWord \notin Word

\* old_value & BLOCK_REFCOUNT_MASK
RefBits(w) == w.low - (w.low % 2)

\* old_value & BLOCK_DEALLOCATING
Deallocating(w) == w.low % 2 = 1

\* Mutant of Latched: the mask of the test includes BLOCK_DEALLOCATING.
LatchedAllOnes(w) == w.low = BLOCK_REFCOUNT_MASK + 1

Latched(w) == RefBits(w) = BLOCK_REFCOUNT_MASK

\* Mutant of Plus2: the field is widened over the flags above it.
Plus2Wide(w) == [w EXCEPT !.low = @ + 4]

\* old_value + 2
Plus2(w) ==
  IF w.low + 2 <= BLOCK_REFCOUNT_MASK + 1
  THEN [w EXCEPT !.low = @ + 2]
  ELSE [high |-> w.high + 1, low |-> w.low - BLOCK_REFCOUNT_MASK]

\* old_value - 2
Minus2(w) ==
  IF w.low >= 2
  THEN [w EXCEPT !.low = @ - 2]
  ELSE [high |-> w.high - 1, low |-> w.low + BLOCK_REFCOUNT_MASK]

VARIABLES
  flags,      \* the shared word
  op,         \* op[t]: the loop thread t is in, "none" outside
  old,        \* old[t]: old_value of the current round, NoWord before the load
  ref,        \* ref[t]: the reference the call creates or consumes
  src,        \* src[t]: the reference a copy is made from
  refs,       \* strong references owned by the program
  phase,      \* lifetime of the object
  disposer,   \* the thread that runs its disposal
  disposals   \* how often the release loop has returned should_deallocate

vars == <<flags, op, old, ref, src, refs, phase, disposer, disposals>>

Ops == {"none", "incr", "tryIncr", "decr"}
Phases == {"live", "disposing", "destructed", "freed"}

Releasing == {ref[t] : t \in {u \in Thread : op[u] = "decr"}}
Creating == {ref[t] : t \in {u \in Thread : op[u] \in {"incr", "tryIncr"}}}
Borrowed == {src[t] : t \in {u \in Thread : op[u] = "incr"}}

(***************************************************************************)
(* _Block_copy leaves a heap Block with one reference (flags |= 2),        *)
(* _Block_byref_copy leaves a byref with two (flags | 4).                  *)
(***************************************************************************)
Init ==
  /\ refs \in {R \in SUBSET Ref : Cardinality(R) \in {1, 2}}
  /\ flags = [high |-> HighBits, low |-> 2 * Cardinality(refs)]
  /\ op = [t \in Thread |-> "none"]
  /\ old = [t \in Thread |-> NoWord]
  /\ ref = [t \in Thread |-> NoRef]
  /\ src = [t \in Thread |-> NoRef]
  /\ phase = "live"
  /\ disposer = NoThread
  /\ disposals = 0

-----------------------------------------------------------------------------
(* Calls *)

Enter(t, o, r, s) ==
  /\ op[t] = "none"
  /\ op' = [op EXCEPT ![t] = o]
  /\ ref' = [ref EXCEPT ![t] = r]
  /\ src' = [src EXCEPT ![t] = s]
  /\ UNCHANGED <<flags, old, refs, phase, disposer, disposals>>

InDisposeHelper(t) == phase = "disposing" /\ disposer = t

CallCopy(t) ==
  \/ \E r \in Ref \ (refs \cup Creating), s \in (refs \cap Ref) \ Releasing :
       Enter(t, "incr", r, s)
  \/ \E r \in HelperRef \ (refs \cup Creating) :
       InDisposeHelper(t) /\ Enter(t, "incr", r, NoRef)

CallTryRetain(t) ==
  /\ phase \in {"live", "disposing"}
  /\ \E r \in Ref \ (refs \cup Creating) : Enter(t, "tryIncr", r, NoRef)

CallRelease(t) ==
  \/ \E r \in refs \ (Releasing \cup Borrowed) :
       /\ r \in HelperRef => InDisposeHelper(t)
       /\ Enter(t, "decr", r, NoRef)
  \/ /\ InDisposeHelper(t)          \* one release too many
     /\ refs = {}
     /\ Enter(t, "decr", NoRef, NoRef)

-----------------------------------------------------------------------------
(* The loops *)

Return(t) ==
  /\ op' = [op EXCEPT ![t] = "none"]
  /\ old' = [old EXCEPT ![t] = NoWord]
  /\ ref' = [ref EXCEPT ![t] = NoRef]
  /\ src' = [src EXCEPT ![t] = NoRef]

Loading(t, o) == op[t] = o /\ old[t] = NoWord

\* int32_t old_value = *where, when no early return applies
Load(t) ==
  /\ old' = [old EXCEPT ![t] = flags]
  /\ UNCHANGED <<flags, op, ref, src, refs, phase, disposer, disposals>>

\* Mutant of Swap: a plain store of the new value.
Store(t, o, new) ==
  /\ op[t] = o
  /\ old[t] # NoWord
  /\ flags' = new

\* OSAtomicCompareAndSwapInt(old_value, new, where) succeeds
Swap(t, o, new) ==
  /\ op[t] = o
  /\ old[t] # NoWord
  /\ flags = old[t]
  /\ flags' = new

\* Mutant of SwapFails: old_value is loaded once, above the loop.
SwapFailsForGood(t) ==
  /\ old[t] # NoWord
  /\ flags # old[t]
  /\ UNCHANGED vars

\* ... or fails, and the loop starts again
SwapFails(t) ==
  /\ old[t] # NoWord
  /\ flags # old[t]
  /\ old' = [old EXCEPT ![t] = NoWord]
  /\ UNCHANGED <<flags, op, ref, src, refs, phase, disposer, disposals>>

Acquire(t) == refs' = refs \cup {ref[t]}
Drop(t) == refs' = refs \ {ref[t]}

IncrLatched(t) ==
  /\ Loading(t, "incr")
  /\ Latched(flags)
  /\ Acquire(t)
  /\ Return(t)
  /\ UNCHANGED <<flags, phase, disposer, disposals>>

IncrLoad(t) ==
  /\ Loading(t, "incr")
  /\ ~Latched(flags)
  /\ Load(t)

IncrSwap(t) ==
  /\ Swap(t, "incr", Plus2(old[t]))
  /\ Acquire(t)
  /\ Return(t)
  /\ UNCHANGED <<phase, disposer, disposals>>

TryDeallocating(t) ==
  /\ Loading(t, "tryIncr")
  /\ Deallocating(flags)
  /\ Return(t)
  /\ UNCHANGED <<flags, refs, phase, disposer, disposals>>

TryLatched(t) ==
  /\ Loading(t, "tryIncr")
  /\ ~Deallocating(flags)
  /\ Latched(flags)
  /\ Acquire(t)
  /\ Return(t)
  /\ UNCHANGED <<flags, phase, disposer, disposals>>

\* Mutant of TryLoad: latching_incr_int, which ignores BLOCK_DEALLOCATING.
TryLoadDeallocating(t) ==
  /\ Loading(t, "tryIncr")
  /\ ~Latched(flags)
  /\ Load(t)

TryLoad(t) ==
  /\ Loading(t, "tryIncr")
  /\ ~Deallocating(flags)
  /\ ~Latched(flags)
  /\ Load(t)

TrySwap(t) ==
  /\ Swap(t, "tryIncr", Plus2(old[t]))
  /\ Acquire(t)
  /\ Return(t)
  /\ UNCHANGED <<phase, disposer, disposals>>

DecrLatched(t) ==
  /\ Loading(t, "decr")
  /\ Latched(flags)
  /\ Drop(t)
  /\ Return(t)
  /\ UNCHANGED <<flags, phase, disposer, disposals>>

DecrUnderflow(t) ==
  /\ Loading(t, "decr")
  /\ RefBits(flags) = 0
  /\ Drop(t)
  /\ Return(t)
  /\ UNCHANGED <<flags, phase, disposer, disposals>>

\* Mutant of DecrLoad: the "latched high" return is missing.
DecrLoadLatched(t) ==
  /\ Loading(t, "decr")
  /\ RefBits(flags) # 0
  /\ Load(t)

DecrLoad(t) ==
  /\ Loading(t, "decr")
  /\ ~Latched(flags)
  /\ RefBits(flags) # 0
  /\ Load(t)

\* Mutants of LastReference: the test leaves BLOCK_DEALLOCATING out of its
\* mask; the test takes the count after the subtraction for the one before.
LastReferenceAgain(w) == RefBits(w) = 2
LastReferenceMissed(w) == w.low = 0

\* (old_value & (BLOCK_REFCOUNT_MASK|BLOCK_DEALLOCATING)) == 2
LastReference(w) == w.low = 2

DecrSwap(t) ==
  /\ Swap(t, "decr", Minus2(old[t]))
  /\ ~LastReference(old[t])
  /\ Drop(t)
  /\ Return(t)
  /\ UNCHANGED <<phase, disposer, disposals>>

\* new_value = old_value - 1, which leaves BLOCK_DEALLOCATING alone
Minus1(w) == [w EXCEPT !.low = @ - 1]

\* ... and the caller goes on to dispose of the object
DecrSwapLast(t) ==
  /\ Swap(t, "decr", Minus1(old[t]))
  /\ LastReference(old[t])
  /\ Drop(t)
  /\ Return(t)
  /\ phase' = "disposing"
  /\ disposer' = t
  /\ disposals' = disposals + 1

(***************************************************************************)
(* What _Block_release does after should_deallocate: the dispose helper    *)
(* returns (having dropped what it took), _Block_destructInstance clears   *)
(* the weak references under the exclusion zone's lock, free().            *)
(***************************************************************************)
DestructInstance(t) ==
  /\ InDisposeHelper(t)
  /\ refs \cap HelperRef = {}
  /\ op[t] = "none"
  /\ \A u \in Thread : op[u] # "tryIncr"
  /\ phase' = "destructed"
  /\ UNCHANGED <<flags, op, old, ref, src, refs, disposer, disposals>>

Free(t) ==
  /\ phase = "destructed"
  /\ disposer = t
  /\ phase' = "freed"
  /\ UNCHANGED <<flags, op, old, ref, src, refs, disposer, disposals>>

Call(t) == CallCopy(t) \/ CallTryRetain(t) \/ CallRelease(t)

\* one step of the runtime on behalf of thread t
Step(t) ==
  \/ IncrLatched(t) \/ IncrLoad(t) \/ IncrSwap(t)
  \/ TryDeallocating(t) \/ TryLatched(t) \/ TryLoad(t) \/ TrySwap(t)
  \/ DecrLatched(t) \/ DecrUnderflow(t) \/ DecrLoad(t)
  \/ DecrSwap(t) \/ DecrSwapLast(t)
  \/ SwapFails(t)
  \/ DestructInstance(t) \/ Free(t)

Next == \E t \in Thread : Call(t) \/ Step(t)

Spec == Init /\ [][Next]_vars

(***************************************************************************)
(* A thread inside the runtime never blocks: it is running straight-line   *)
(* code and is eventually scheduled.  Nothing obliges a program to call.   *)
(***************************************************************************)
FairSpec == Spec /\ \A t \in Thread : WF_vars(Step(t))

-----------------------------------------------------------------------------
(* Properties *)

\* Every variable keeps its type; flags stays a word of its width, so no sum of
\* the three loops leaves the field.
TypeOK ==
  /\ flags \in Word
  /\ op \in [Thread -> Ops]
  /\ old \in [Thread -> Word \cup {NoWord}]
  /\ ref \in [Thread -> Ref \cup HelperRef \cup {NoRef}]
  /\ src \in [Thread -> Ref \cup {NoRef}]
  /\ refs \subseteq Ref \cup HelperRef
  /\ phase \in Phases
  /\ disposer \in Thread \cup {NoThread}
  /\ disposals \in Nat

\* No copy or release is ever lost: until the count latches, the field is
\* exactly twice the number of references the program owns (every CAS of
\* latching_incr_int and latching_decr_int_should_deallocate).
CountExact == ~Latched(flags) => RefBits(flags) = 2 * Cardinality(refs)

\* _Block_isDeallocating answers true from the release of the last reference
\* on and never before, whatever the dispose helper does to the count.
_Block_isDeallocating == Deallocating(flags)
DeallocatingBitExact == _Block_isDeallocating <=> phase # "live"

\* However the dispose helper copies and releases the dying object, once too
\* often included, _Block_release runs the helper and frees the memory once.
DisposedOnce == disposals <= 1

\* Counting never carries out of the field into BLOCK_NEEDS_FREE,
\* BLOCK_HAS_COPY_DISPOSE and the other flags that steer copy and release.
HighBitsKept == flags.high = HighBits

\* No thread owns the object, or is inside a call on it, once its weak
\* references are cleared and its memory is given back.
NoUseAfterFree ==
  phase \in {"destructed", "freed"} =>
    refs = {} /\ \A t \in Thread : op[t] = "none"

\* When latching_decr_int_should_deallocate answers true nobody owns a
\* reference any more, and the only calls under way are the weak subsystem's
\* tries, which the deallocating bit turns away.
LastReferenceGone ==
  [][disposals' # disposals =>
       refs' = {} /\ \A t \in Thread : op'[t] \in {"none", "tryIncr"}]_vars

\* Once latched high the word never changes again, and an object that latched
\* while alive is leaked: no release starts its disposal.
LatchIsForever ==
  [][Latched(flags) => flags' = flags /\ (phase = "live" => phase' = "live")]_vars

\* _Block_tryRetain racing the last release: it hands out a reference exactly
\* when the disposal had not begun at the step that decides it.
TryRetainExact ==
  [][\A t \in Thread :
       op[t] = "tryIncr" /\ op'[t] = "none" =>
         (ref[t] \in refs' <=> phase = "live")]_vars

Idle == \A t \in Thread : op[t] = "none"
SomeReturn == \E t \in Thread : op[t] # "none" /\ op'[t] = "none"

\* The loops take no lock: while some call is under way, calls keep returning,
\* so threads that fail their compare-and-swap do not fail each other forever.
LockFree == []<>Idle \/ []<><<SomeReturn>>_vars

\* Memory is given back: once the program has dropped every reference for
\* good, the object is freed, unless its count latched.
Reclaimed == <>[](refs = {} /\ Idle) => <>(phase = "freed" \/ Latched(flags))

(***************************************************************************)
(* The strengthening that makes the invariants above inductive: what the   *)
(* phases say of the references, and what every call under way may rely on *)
(* until its compare-and-swap.                                             *)
(***************************************************************************)
PhaseInv ==
  /\ phase = "live" =>
       /\ refs \subseteq Ref
       /\ ~Latched(flags) => refs # {}
       /\ disposals = 0
  /\ phase # "live" =>
       /\ refs \subseteq HelperRef
       /\ disposer \in Thread
       /\ disposals = 1

\* A round that got past the early returns has loaded a word they do not apply to.
OldInv(t) ==
  old[t] # NoWord =>
    /\ op[t] # "none"
    /\ ~Latched(old[t])
    /\ op[t] = "tryIncr" => ~Deallocating(old[t])
    /\ op[t] = "decr" => RefBits(old[t]) # 0

CallInv(t) ==
  /\ op[t] = "incr" =>
       /\ ref[t] \notin refs
       /\ phase = "live" => ref[t] \in Ref /\ src[t] \in refs
       /\ phase # "live" => ref[t] \in HelperRef /\ InDisposeHelper(t)
  /\ op[t] = "tryIncr" =>
       ref[t] \in Ref \ refs /\ phase \in {"live", "disposing"}
  /\ op[t] = "decr" =>
       /\ ref[t] \notin refs => ref[t] = NoRef /\ refs = {} /\ phase # "live"
       /\ phase # "live" => InDisposeHelper(t)

\* Two calls never create or consume the same reference, and nobody gives up
\* the reference another thread is copying from.
Distinct(t, u) ==
  t # u /\ op[t] # "none" /\ op[u] # "none" =>
    /\ ref[t] # ref[u]
    /\ op[t] = "incr" /\ op[u] = "decr" => src[t] # ref[u]

CallsInv ==
  \A t \in Thread :
    /\ OldInv(t)
    /\ CallInv(t)
    /\ \A u \in Thread : Distinct(t, u)

Inv ==
  /\ TypeOK
  /\ CountExact
  /\ DeallocatingBitExact
  /\ HighBitsKept
  /\ PhaseInv
  /\ CallsInv
  /\ NoUseAfterFree

Atomic ==
  INSTANCE AtomicCount WITH
    Limit <- BLOCK_REFCOUNT_MASK \div 2,
    saturated <- Latched(flags)

\* Load and compare-and-swap, round after round and in any interleaving, look
\* like the single steps of AtomicCount: each call that counts takes or drops
\* its reference at one instant between its beginning and its return.
ImplementsAtomicCount == Atomic!Spec

=============================================================================
