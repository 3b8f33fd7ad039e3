-------------------------- MODULE BlockPartsProofs --------------------------
(***************************************************************************)
(* Proofs about the parts of a Block that MCBlockParts puts together: the  *)
(* accessors' answers, for any Blocks a compiler emits; releases that      *)
(* reach the retainer, for any Blocks and any registrars; function         *)
(* pointers that authenticate wherever they are moved; and the words of a  *)
(* __block variable, of any size.  The variable that threads copy at once  *)
(* is in ByrefMoveProofs.                                                  *)
(***************************************************************************)
EXTENDS MCBlockParts, TLAPS

-----------------------------------------------------------------------------
(* BlockDescriptor *)

CompilerFlags ==
  {"HAS_COPY_DISPOSE", "HAS_CTOR", "IS_GLOBAL", "USE_STRET", "HAS_SIGNATURE", "HAS_EXTENDED_LAYOUT"}

\* The runtime adds its own flags to the compiler's and takes none away; the
\* helpers have run as far as the count says.
DescriptorInv ==
  /\ block \in EmittedType
  /\ \A f \in CompilerFlags : f \in flags <=> f \in block.flags
  /\ state \in {"emitted", "heap", "freed"}
  /\ count \in Nat
  /\ state = "freed" => count = 0
  /\ helped = IF state = "heap" /\ count > 0 /\ "HAS_COPY_DISPOSE" \in block.flags THEN 1 ELSE 0

\* The words of the four shapes of a descriptor.
LEMMA Words ==
  ASSUME block \in EmittedType
  PROVE  /\ Word(1) = block.size
         /\ "HAS_COPY_DISPOSE" \in block.flags => Word(2) = block.copy /\ Word(3) = block.dispose
         /\ "HAS_COPY_DISPOSE" \in block.flags /\ "HAS_SIGNATURE" \in block.flags =>
              Word(4) = block.signature /\ Word(5) = block.layout
         /\ "HAS_COPY_DISPOSE" \notin block.flags /\ "HAS_SIGNATURE" \in block.flags =>
              Word(2) = block.signature /\ Word(3) = block.layout
<1> DEFINE D == Descriptor
<1>1. CASE "HAS_COPY_DISPOSE" \in block.flags /\ "HAS_SIGNATURE" \in block.flags
  <2>1. D = <<0, block.size, block.copy, block.dispose, block.signature, block.layout>>
    <3>1. block.flags \cap {"HAS_COPY_DISPOSE", "HAS_SIGNATURE"} = {"HAS_COPY_DISPOSE", "HAS_SIGNATURE"}
      BY <1>1
    <3> QED
      BY <3>1 DEF Descriptor
  <2>2. Len(D) = 6 /\ D[2] = block.size /\ D[3] = block.copy /\ D[4] = block.dispose
          /\ D[5] = block.signature /\ D[6] = block.layout
    BY <2>1
  <2> QED
    BY <1>1, <2>2 DEF Word
<1>2. CASE "HAS_COPY_DISPOSE" \in block.flags /\ "HAS_SIGNATURE" \notin block.flags
  <2>1. D = <<0, block.size, block.copy, block.dispose>>
    <3>1. block.flags \cap {"HAS_COPY_DISPOSE", "HAS_SIGNATURE"} = {"HAS_COPY_DISPOSE"}
      BY <1>2
    <3> QED
      BY <3>1 DEF Descriptor
  <2>2. Len(D) = 4 /\ D[2] = block.size /\ D[3] = block.copy /\ D[4] = block.dispose
    BY <2>1
  <2> QED
    BY <1>2, <2>2 DEF Word
<1>3. CASE "HAS_COPY_DISPOSE" \notin block.flags /\ "HAS_SIGNATURE" \in block.flags
  <2>1. D = <<0, block.size, block.signature, block.layout>>
    <3>1. block.flags \cap {"HAS_COPY_DISPOSE", "HAS_SIGNATURE"} = {"HAS_SIGNATURE"}
      BY <1>3
    <3> QED
      BY <3>1 DEF Descriptor
  <2>2. Len(D) = 4 /\ D[2] = block.size /\ D[3] = block.signature /\ D[4] = block.layout
    BY <2>1
  <2> QED
    BY <1>3, <2>2 DEF Word
<1>4. CASE "HAS_COPY_DISPOSE" \notin block.flags /\ "HAS_SIGNATURE" \notin block.flags
  <2>1. D = <<0, block.size>>
    <3>1. block.flags \cap {"HAS_COPY_DISPOSE", "HAS_SIGNATURE"} = {}
      BY <1>4
    <3> QED
      BY <3>1 DEF Descriptor
  <2>2. Len(D) = 2 /\ D[2] = block.size
    BY <2>1
  <2> QED
    BY <1>4, <2>2 DEF Word
<1> QED
  BY <1>1, <1>2, <1>3, <1>4

\* NULL is no offset and no string.
LEMMA Null == NULL # 2 /\ NULL # 4 /\ NULL # "" /\ NULL # "signature" /\ NULL # "layout"
<1>1. 2 \in Nat /\ 4 \in Nat
  OBVIOUS
<1> QED
  BY <1>1, NullAssumption, Zenon

\* Where the parts of the descriptor are found, in terms of the Block's flags.
LEMMA Parts ==
  ASSUME DescriptorInv
  PROVE  /\ Block_descriptor_2 = IF "HAS_COPY_DISPOSE" \in block.flags THEN 2 ELSE NULL
         /\ Block_descriptor_3 =
              IF "HAS_SIGNATURE" \notin block.flags THEN NULL
              ELSE IF "HAS_COPY_DISPOSE" \in block.flags THEN 4 ELSE 2
BY DEF DescriptorInv, CompilerFlags, Block_descriptor_2, Block_descriptor_3, sizeof_descriptor_1,
       sizeof_descriptor_2

\* The Block as emitted.
LEMMA DescriptorInvInit == Init => DescriptorInv
BY EmittedAssumption DEF Init, DescriptorInv

\* Every step adds runtime flags only.
LEMMA DescriptorStep == DescriptorInv /\ [Next]_vars => DescriptorInv'
<1> SUFFICES ASSUME DescriptorInv, [Next]_vars PROVE DescriptorInv'
  OBVIOUS
<1>0. block' = block
  BY DEF Next, vars, CopyStack, CopyHeap, ReleaseShared, ReleaseLast, Free
<1>a. \A f \in CompilerFlags : f \in flags' <=> f \in block'.flags
  BY <1>0 DEF DescriptorInv, CompilerFlags, Next, vars, CopyStack, CopyHeap, ReleaseShared, ReleaseLast, Free
<1>b. (Block_descriptor_2 # NULL) <=> "HAS_COPY_DISPOSE" \in block.flags
  BY Parts, Null
<1>1. CASE CopyStack
  BY <1>0, <1>a, <1>b, <1>1 DEF DescriptorInv, CopyStack
<1>2. CASE CopyHeap
  BY <1>0, <1>a, <1>2 DEF DescriptorInv, CopyHeap
<1>3. CASE ReleaseShared
  BY <1>0, <1>a, <1>3 DEF DescriptorInv, ReleaseShared
<1>4. CASE ReleaseLast
  BY <1>0, <1>a, <1>b, <1>4 DEF DescriptorInv, ReleaseLast
<1>5. CASE Free
  BY <1>0, <1>a, <1>5 DEF DescriptorInv, Free
<1>6. CASE UNCHANGED vars
  BY <1>6 DEF DescriptorInv, vars
<1> QED
  BY <1>1, <1>2, <1>3, <1>4, <1>5, <1>6 DEF Next

\* The accessors' answers follow from the invariant.
LEMMA DescriptorPartsFound == DescriptorInv => PartsFound
<1> SUFFICES ASSUME DescriptorInv PROVE PartsFound
  OBVIOUS
<1>1. /\ "HAS_SIGNATURE" \in flags <=> "HAS_SIGNATURE" \in block.flags
      /\ "USE_STRET" \in flags <=> "USE_STRET" \in block.flags
  BY DEF DescriptorInv, CompilerFlags
<1>2. Block_signature = IF "HAS_SIGNATURE" \in block.flags THEN block.signature ELSE NULL
  BY Words, Parts, Null DEF DescriptorInv, Block_signature
<1>3. Block_use_stret <=> "HAS_SIGNATURE" \in block.flags /\ "USE_STRET" \in block.flags
  BY <1>1 DEF Block_use_stret
<1>4. block \in EmittedType
  BY DEF DescriptorInv
<1>5. "HAS_COPY_DISPOSE" \in block.flags =>
        Block_descriptor_2 = 2 /\ Word(2) = block.copy /\ Word(2 + 1) = block.dispose
  BY <1>4, Words, Parts
<1>6. "HAS_COPY_DISPOSE" \notin block.flags => Block_descriptor_2 = NULL
  BY Parts
<1>7. Block_descriptor_2 # NULL <=> "HAS_COPY_DISPOSE" \in block.flags
  BY <1>5, <1>6, Null
<1>8. Block_size = block.size
  BY <1>4, Words DEF Block_size
<1> QED
  BY <1>2, <1>3, <1>5, <1>7, <1>8 DEF PartsFound, Block_has_signature

\* So do those of the two layout accessors.
LEMMA DescriptorLayouts == DescriptorInv => LayoutsApart
<1> SUFFICES ASSUME DescriptorInv PROVE LayoutsApart
  OBVIOUS
<1>1. "HAS_EXTENDED_LAYOUT" \in flags <=> "HAS_EXTENDED_LAYOUT" \in block.flags
  BY DEF DescriptorInv, CompilerFlags
<1>2. ASSUME "HAS_SIGNATURE" \in block.flags
      PROVE  Block_descriptor_3 # NULL /\ Word(Block_descriptor_3 + 1) = block.layout
  <2>1. block \in EmittedType
    BY DEF DescriptorInv
  <2>2. CASE "HAS_COPY_DISPOSE" \in block.flags
    <3>1. Block_descriptor_3 = 4 /\ Word(4 + 1) = block.layout
      BY <1>2, <2>1, <2>2, Words, Parts
    <3> QED
      BY <3>1, Null
  <2>3. CASE "HAS_COPY_DISPOSE" \notin block.flags
    <3>1. Block_descriptor_3 = 2 /\ Word(2 + 1) = block.layout
      BY <1>2, <2>1, <2>3, Words, Parts
    <3> QED
      BY <3>1, Null
  <2> QED
    BY <2>2, <2>3
<1>3. "HAS_SIGNATURE" \notin block.flags => Block_descriptor_3 = NULL
  BY Parts
<1>4. Block_layout =
        IF "HAS_EXTENDED_LAYOUT" \in block.flags \/ "HAS_SIGNATURE" \notin block.flags
        THEN NULL ELSE block.layout
  BY <1>1, <1>2, <1>3 DEF Block_layout
<1>5. Block_extended_layout =
        IF "HAS_EXTENDED_LAYOUT" \notin block.flags \/ "HAS_SIGNATURE" \notin block.flags
        THEN NULL ELSE IF block.layout = NULL THEN "" ELSE block.layout
  BY <1>1, <1>2, <1>3 DEF Block_extended_layout
<1>6. block.layout \in {NULL, "layout"} /\ NULL # "" /\ NULL # "layout"
  BY Null DEF DescriptorInv, EmittedType
<1> QED
  BY <1>4, <1>5, <1>6 DEF LayoutsApart

\* On the stack, on the heap and while the Block dies, every accessor answers
\* what the compiler emitted and stays inside the descriptor.
THEOREM AccessorsAnswer == Spec => []AnswersAsEmitted
<1>1. Spec => []DescriptorInv
  BY DescriptorInvInit, DescriptorStep, PTL DEF Spec
<1>2. DescriptorInv => AnswersAsEmitted
  BY DescriptorPartsFound, DescriptorLayouts DEF AnswersAsEmitted
<1> QED
  BY <1>1, <1>2, PTL

\* A copied Block's helpers run once each, or neither exists.
THEOREM HelpersArePaired == Spec => []HelpersPair
<1>1. Spec => []DescriptorInv
  BY DescriptorInvInit, DescriptorStep, PTL DEF Spec
<1>2. DescriptorInv => HelpersPair
  BY DEF DescriptorInv, HelpersPair
<1> QED
  BY <1>1, <1>2, PTL

-----------------------------------------------------------------------------
(* ObjectCallbacks *)

\* As long as no two registrations overlap, what is stored so far is the
\* registrar's, and between them the callbacks are one registrar's.
OneAtATime ==
  /\ \A r, s \in Registrar : storing[r] # {} /\ storing[s] # {} => r = s
  /\ \A r \in Registrar : storing[r] # {} => \A c \in Callback \ storing[r] : hook[c] = r
  /\ ~Registering => \A c, d \in Callback : hook[c] = hook[d]

\* While Block k is undisturbed nobody but its retainer registers, and the
\* callbacks are the retainer's.
Undisturbed(k) ==
  /\ \A r \in Registrar : storing[r] # {} => r = retainer[k]
  /\ \A c \in Callback : hook[c] = retainer[k]

CallbacksInv ==
  /\ CallbacksTypeOK
  /\ ~mixed => OneAtATime
  /\ \A k \in Blocks : ~disturbed[k] /\ Holds(k) => Undisturbed(k)

\* The default callbacks, before any registration.
LEMMA CallbacksInvInit == CallbacksInit => CallbacksInv
<1> SUFFICES ASSUME CallbacksInit PROVE CallbacksInv
  OBVIOUS
<1>1. CallbacksTypeOK
  BY DEF CallbacksInit, CallbacksTypeOK
<1>2. OneAtATime
  BY DEF CallbacksInit, OneAtATime
<1>3. \A k \in Blocks : ~Holds(k)
  BY DEF CallbacksInit, Holds
<1> QED
  BY <1>1, <1>2, <1>3 DEF CallbacksInv

\* A call that begins disturbs the Blocks of other retainers.
LEMMA UseRR2Keeps == ASSUME NEW r \in Registrar, CallbacksInv, UseRR2(r) PROVE CallbacksInv'
<1>0. CallbacksTypeOK
  BY DEF CallbacksInv
<1>1. CallbacksTypeOK'
  <2>1. mixed' \in BOOLEAN /\ disturbed' \in [Blocks -> BOOLEAN]
    BY <1>0 DEF UseRR2, Registering, Holds, CallbacksTypeOK
  <2> QED
    BY <1>0, <2>1 DEF UseRR2, CallbacksTypeOK
<1>2. storing' = [storing EXCEPT ![r] = Callback] /\ UNCHANGED <<hook, phase, retainer>>
  BY DEF UseRR2
<1>3. ASSUME ~mixed' PROVE OneAtATime'
  <2>1. \A s \in Registrar : storing[s] = {}
    BY <1>3 DEF UseRR2, Registering
  <2>2. \A s \in Registrar : storing'[s] = IF s = r THEN Callback ELSE {}
    BY <1>0, <1>2, <2>1 DEF CallbacksTypeOK
  <2>3. Registering'
    BY <2>2 DEF Registering, Callback
  <2> QED
    BY <2>2, <2>3 DEF OneAtATime
<1>4. ASSUME NEW k \in Blocks, ~disturbed'[k], Holds(k)' PROVE Undisturbed(k)'
  <2>1. ~disturbed[k] /\ Holds(k) /\ retainer[k] = r
    BY <1>2, <1>4 DEF UseRR2, Holds
  <2>2. Undisturbed(k)
    BY <2>1 DEF CallbacksInv
  <2> QED
    BY <1>0, <1>2, <2>1, <2>2 DEF Undisturbed, CallbacksTypeOK
<1> QED
  BY <1>1, <1>3, <1>4 DEF CallbacksInv

\* One of the three stores: it changes nothing for an undisturbed Block, and the
\* last one leaves three equal callbacks.
LEMMA StoreKeeps ==
  ASSUME NEW r \in Registrar, NEW c \in Callback, CallbacksInv, Store(r, c)
  PROVE  CallbacksInv'
<1>0. CallbacksTypeOK
  BY DEF CallbacksInv
<1>1. CallbacksTypeOK'
  BY <1>0 DEF Store, CallbacksTypeOK
<1>2. /\ storing[r] # {} /\ UNCHANGED <<phase, retainer, mixed, disturbed>>
      /\ \A s \in Registrar : storing'[s] = IF s = r THEN storing[r] \ {c} ELSE storing[s]
      /\ \A d \in Callback : hook'[d] = IF d = c THEN r ELSE hook[d]
  BY <1>0 DEF Store, CallbacksTypeOK
<1>3. ASSUME ~mixed' PROVE OneAtATime'
  <2>1. OneAtATime
    BY <1>2, <1>3 DEF CallbacksInv
  <2>2. \A s \in Registrar : s # r => storing[s] = {} /\ storing'[s] = {}
    BY <1>2, <2>1 DEF OneAtATime
  <2>3. \A d \in Callback \ storing'[r] : hook'[d] = r
    BY <1>2, <2>1 DEF OneAtATime
  <2>4. ~Registering' => \A d \in Callback : hook'[d] = r
    BY <2>3 DEF Registering
  <2> QED
    BY <2>2, <2>3, <2>4 DEF OneAtATime
<1>4. ASSUME NEW k \in Blocks, ~disturbed'[k], Holds(k)' PROVE Undisturbed(k)'
  <2>1. Undisturbed(k)
    BY <1>2, <1>4 DEF CallbacksInv, Holds
  <2>2. retainer[k] = r
    BY <1>2, <2>1 DEF Undisturbed
  <2> QED
    BY <1>2, <2>1, <2>2 DEF Undisturbed
<1> QED
  BY <1>1, <1>3, <1>4 DEF CallbacksInv

\* A Block copied outside registrations, after one that met no other, has its
\* three callbacks from one registrar.
LEMMA AssignKeeps ==
  ASSUME NEW k \in Blocks, CallbacksInv, Assign(k)
  PROVE  CallbacksInv'
<1>0. CallbacksTypeOK
  BY DEF CallbacksInv
<1>1. CallbacksTypeOK'
  BY <1>0 DEF Assign, CallbacksTypeOK, Callback
<1>2. UNCHANGED <<hook, storing, mixed>>
  BY DEF Assign
<1>3. ASSUME ~mixed' PROVE OneAtATime'
  BY <1>2, <1>3 DEF CallbacksInv, OneAtATime, Registering
<1>4. ASSUME NEW j \in Blocks, ~disturbed'[j], Holds(j)' PROVE Undisturbed(j)'
  <2>1. CASE j = k
    <3>1. ~Registering /\ ~mixed /\ retainer'[k] = hook["retain"]
      BY <1>0, <1>4, <2>1 DEF Assign, CallbacksTypeOK
    <3>2. \A c \in Callback : hook[c] = hook["retain"]
      BY <3>1 DEF CallbacksInv, OneAtATime, Callback
    <3> QED
      BY <1>2, <2>1, <3>1, <3>2 DEF Undisturbed, Registering
  <2>2. CASE j # k
    <3>1. ~disturbed[j] /\ Holds(j) /\ retainer'[j] = retainer[j]
      BY <1>0, <1>4, <2>2 DEF Assign, Holds, CallbacksTypeOK
    <3>2. Undisturbed(j)
      BY <3>1 DEF CallbacksInv
    <3> QED
      BY <1>2, <3>1, <3>2 DEF Undisturbed
  <2> QED
    BY <2>1, <2>2
<1> QED
  BY <1>1, <1>3, <1>4 DEF CallbacksInv

\* The steps of a Block's end only read.
LEMMA EndKeeps ==
  ASSUME NEW k \in Blocks, CallbacksInv, Dispose(k) \/ DestructInstance(k) \/ FreeBlock(k)
  PROVE  CallbacksInv'
<1>0. CallbacksTypeOK
  BY DEF CallbacksInv
<1>1. CallbacksTypeOK'
  BY <1>0 DEF Dispose, DestructInstance, FreeBlock, CallbacksTypeOK
<1>2. UNCHANGED <<hook, storing, retainer, mixed, disturbed>>
  BY DEF Dispose, DestructInstance, FreeBlock
<1>3. \A j \in Blocks : Holds(j)' => Holds(j)
  BY <1>0 DEF Dispose, DestructInstance, FreeBlock, Holds, CallbacksTypeOK
<1>4. ~mixed' => OneAtATime'
  BY <1>2 DEF CallbacksInv, OneAtATime, Registering
<1>5. ASSUME NEW j \in Blocks, ~disturbed'[j], Holds(j)' PROVE Undisturbed(j)'
  <2>1. Undisturbed(j)
    BY <1>2, <1>3, <1>5 DEF CallbacksInv
  <2> QED
    BY <1>2, <2>1 DEF Undisturbed
<1> QED
  BY <1>1, <1>4, <1>5 DEF CallbacksInv

\* Every step.
LEMMA CallbacksStep == CallbacksInv /\ [CallbacksNext]_callbackVars => CallbacksInv'
<1> SUFFICES ASSUME CallbacksInv, [CallbacksNext]_callbackVars PROVE CallbacksInv'
  OBVIOUS
<1>1. ASSUME NEW r \in Registrar, UseRR2(r) PROVE CallbacksInv'
  BY <1>1, UseRR2Keeps
<1>2. ASSUME NEW r \in Registrar, NEW c \in Callback, Store(r, c) PROVE CallbacksInv'
  BY <1>2, StoreKeeps
<1>3. ASSUME NEW k \in Blocks, Assign(k) PROVE CallbacksInv'
  BY <1>3, AssignKeeps
<1>4. ASSUME NEW k \in Blocks, Dispose(k) \/ DestructInstance(k) \/ FreeBlock(k)
      PROVE CallbacksInv'
  BY <1>4, EndKeeps
<1>5. CASE UNCHANGED callbackVars
  BY <1>5 DEF callbackVars, CallbacksInv, CallbacksTypeOK, OneAtATime, Undisturbed, Registering, Holds
<1> QED
  BY <1>1, <1>2, <1>3, <1>4, <1>5 DEF CallbacksNext

\* What the invariant gives.
LEMMA CallbacksEnough == CallbacksInv => CallbacksTypeOK /\ ReleasedByRetainer /\ OneRegistrar
<1> SUFFICES ASSUME CallbacksInv PROVE CallbacksTypeOK /\ ReleasedByRetainer /\ OneRegistrar
  OBVIOUS
<1>1. ASSUME NEW k \in Blocks, ~disturbed[k], Holds(k)
      PROVE  hook["release"] = retainer[k] /\ hook["destructInstance"] = retainer[k]
  BY <1>1 DEF CallbacksInv, Undisturbed, Callback
<1>2. ReleasedByRetainer
  BY <1>1 DEF ReleasedByRetainer, Holds
<1>3. OneRegistrar
  BY DEF OneRegistrar, CallbacksInv, OneAtATime
<1> QED
  BY <1>2, <1>3 DEF CallbacksInv

\* Objects are released through whoever retained them and Blocks destructed by
\* the same, except Blocks that met another's call of _Block_use_RR2, or were
\* copied in the middle of a call or after two that overlapped.
THEOREM ReleasesReachRetainer == CallbacksSpec => []ReleasedByRetainer
<1>1. CallbacksSpec => []CallbacksInv
  BY CallbacksInvInit, CallbacksStep, PTL DEF CallbacksSpec
<1> QED
  BY <1>1, CallbacksEnough, PTL

\* After a registration that met no other the callbacks are one registrar's.
THEOREM CallbacksStayTogether == CallbacksSpec => []OneRegistrar
<1>1. CallbacksSpec => []CallbacksInv
  BY CallbacksInvInit, CallbacksStep, PTL DEF CallbacksSpec
<1> QED
  BY <1>1, CallbacksEnough, PTL

-----------------------------------------------------------------------------
(* PointerAuth *)

AuthTypeInv ==
  /\ bits \in [Place -> SignedPointer \cup {NullFn}]
  /\ live \subseteq Object
  /\ source \in [HeapBlock \cup HeapByref -> StackBlock \cup {NullFn}]
  /\ holds \in [Place -> Function \cup {NullFn}]

Sealed(f, p) == IF f = NullFn THEN NullFn ELSE Signed(f, "block", p)

\* the pointers that may be used are signed for the place they are in,
AllSealed == \A p \in Place : Copied(p[1]) => bits[p] = Sealed(holds[p], p)

\* and so is the pointer that is being copied.
SourceLive == \A h \in HeapBlock \cup HeapByref : source[h] # NullFn => source[h] \in live

AuthInv == AuthTypeInv /\ AllSealed /\ SourceLive

-----------------------------------------------------------------------------

\* A place is an object and one of its fields.
LEMMA Places ==
  /\ \A p \in Place : p[1] \in Object /\ p[2] \in Fields(p[1]) /\ p = <<p[1], p[2]>>
  /\ \A o \in Object : \A x \in Fields(o) : <<o, x>> \in Place
  BY DEF Place

\* A sealed pointer is a signed one or null.
LEMMA SealedType ==
  ASSUME NEW f \in Function \cup {NullFn}, NEW p \in Place
  PROVE  Sealed(f, p) \in SignedPointer \cup {NullFn}
  BY DEF Sealed, Signed, SignedPointer

\* A sealed pointer is null only for the null function, and is read and moved
\* as the function it stands for.
LEMMA SealedReads ==
  ASSUME NEW f \in Function \cup {NullFn}, NEW p \in Place, bits[p] = Sealed(f, p)
  PROVE  /\ completeReadFn(p) = Pointer(f)
         /\ \A q : prepareWrite(p, q) = Sealed(f, q)
<1>1. CASE f = NullFn
  BY <1>1 DEF Sealed, completeReadFn, prepareWrite, Pointer
<1>2. CASE f # NullFn
  <2>1. f \in Function /\ bits[p] = Signed(f, "block", p)
    BY <1>2 DEF Sealed
  <2>2. bits[p] \in SignedPointer
    BY <2>1 DEF Signed, SignedPointer
  <2>3. bits[p] # NullFn
    BY <2>2, NullFnAssumption
  <2>4. bits[p].fn = f
    BY <2>1 DEF Signed
  <2> QED
    BY <1>2, <2>1, <2>3, <2>4
    DEF completeReadFn, prepareWrite, ptrauth_auth_and_resign, Pointer, Sealed
<1> QED
  BY <1>1, <1>2

\* A function stored at a place is sealed there.
LEMMA StoredSealed ==
  ASSUME NEW f \in Function \cup {NullFn}, NEW p
  PROVE  prepareWriteFn(f, p) = Sealed(f, p)
  BY DEF prepareWriteFn, ptrauth_auth_and_resign, Pointer, Sealed, Signed

\* The program starts with null descriptors and nothing else.
LEMMA AuthInvInit == AuthInit => AuthInv
  BY DEF AuthInit, AuthInv, AuthTypeInv, AllSealed, SourceLive, Sealed, Object, Static

-----------------------------------------------------------------------------

\* A stack object comes to life with its pointers sealed by the compiler.
LEMMA EmitInv ==
  ASSUME AuthInv, NEW o \in Object, NEW f \in Function, Emit(o, f)
  PROVE  AuthInv'
<1>1. /\ bits' = [p \in Place |-> IF p[1] = o THEN Signed(f, "block", p) ELSE bits[p]]
      /\ holds' = [p \in Place |-> IF p[1] = o THEN f ELSE holds[p]]
      /\ live' = live \cup {o}
      /\ source' = source
  BY DEF Emit
<1>2. f # NullFn
  BY FunctionAssumption
<1>3. \A p \in Place : Signed(f, "block", p) \in SignedPointer
  BY DEF Signed, SignedPointer
<1>4. AuthTypeInv'
  BY <1>1, <1>3 DEF AuthInv, AuthTypeInv
<1>5. AllSealed'
  BY <1>1, <1>2 DEF AuthInv, AllSealed, Sealed, Copied
<1>6. SourceLive'
  BY <1>1 DEF AuthInv, SourceLive
<1> QED
  BY <1>4, <1>5, <1>6 DEF AuthInv

\* memmove: until it is signed again the copy does not count as made.
LEMMA MoveBlockInv ==
  ASSUME AuthInv, NEW s \in Object, NEW h \in Object, MoveBlock(s, h)
  PROVE  AuthInv'
<1>1. /\ s \in StackBlock /\ s \in live /\ h \in HeapBlock
      /\ live' = live \cup {h}
      /\ source' = [source EXCEPT ![h] = s]
      /\ bits' = [bits EXCEPT ![<<h, "invoke">>] = bits[<<s, "invoke">>]]
      /\ holds' = holds
  BY DEF MoveBlock
<1>2. <<h, "invoke">> \in Place /\ <<s, "invoke">> \in Place
  BY <1>1, Places, ObjectsAssumption DEF Fields
<1>3. s # NullFn
  BY <1>1, ObjectsAssumption
<1>4. AuthTypeInv'
  BY <1>1, <1>2 DEF AuthInv, AuthTypeInv
<1>5. AllSealed'
  <2>1. \A p \in Place : Copied(p[1])' => Copied(p[1]) /\ p[1] # h
    BY <1>1, <1>3 DEF Copied, AuthInv, AuthTypeInv
  <2>2. \A p \in Place : p[1] # h => bits'[p] = bits[p]
    BY <1>1, <1>2 DEF AuthInv, AuthTypeInv
  <2> QED
    BY <1>1, <2>1, <2>2 DEF AuthInv, AllSealed
<1>6. SourceLive'
  BY <1>1 DEF AuthInv, SourceLive, AuthTypeInv
<1> QED
  BY <1>4, <1>5, <1>6 DEF AuthInv

\* The source is still there, and authenticates.
LEMMA ResignInvokeInv ==
  ASSUME AuthInv, NEW h \in HeapBlock, ResignInvoke(h)
  PROVE  AuthInv'
<1> DEFINE from == <<source[h], "invoke">>
           to == <<h, "invoke">>
<1>1. /\ source[h] # NullFn
      /\ bits' = [bits EXCEPT ![to] = prepareWrite(from, to)]
      /\ holds' = [holds EXCEPT ![to] = holds[from]]
      /\ source' = [source EXCEPT ![h] = NullFn]
      /\ live' = live
  BY DEF ResignInvoke
<1>2. source[h] \in StackBlock /\ source[h] \in live
  BY <1>1 DEF AuthInv, AuthTypeInv, SourceLive
<1>3. from \in Place /\ to \in Place
  BY <1>2, Places, ObjectsAssumption DEF Fields, Object, Static
<1>4. Copied(source[h])
  BY <1>2, ObjectsAssumption DEF Copied, AuthInv, AuthTypeInv
<1>5. holds[from] \in Function \cup {NullFn} /\ bits[from] = Sealed(holds[from], from)
  BY <1>3, <1>4 DEF AuthInv, AuthTypeInv, AllSealed
<1>6. prepareWrite(from, to) = Sealed(holds[from], to)
  BY <1>3, <1>5, SealedReads
<1>7. Sealed(holds[from], to) \in SignedPointer \cup {NullFn}
  BY <1>3, <1>5, SealedType
<1>8. AuthTypeInv'
  <2> HIDE DEF from, to
  <2> QED
    BY <1>1, <1>3, <1>5, <1>6, <1>7 DEF AuthInv, AuthTypeInv
<1>9. AllSealed'
  <2>1. \A p \in Place : p[1] # h /\ Copied(p[1])' => Copied(p[1])
    BY <1>1 DEF Copied, AuthInv, AuthTypeInv
  <2>2. \A p \in Place : p[1] = h => p = to
    BY Places, ObjectsAssumption DEF Fields
  <2>3. bits'[to] = Sealed(holds'[to], to)
    BY <1>1, <1>3, <1>6 DEF AuthInv, AuthTypeInv
  <2>4. \A p \in Place : p[1] # h => bits'[p] = bits[p] /\ holds'[p] = holds[p]
    BY <1>1, <1>3 DEF AuthInv, AuthTypeInv
  <2> QED
    BY <2>1, <2>2, <2>3, <2>4 DEF AuthInv, AllSealed
<1>10. SourceLive'
  BY <1>1 DEF AuthInv, SourceLive, AuthTypeInv
<1> QED
  BY <1>8, <1>9, <1>10 DEF AuthInv

\* Each helper of a __block variable is signed for its copy.
LEMMA CopyHelperPointersInv ==
  ASSUME AuthInv, NEW s \in Object, NEW h \in Object, CopyHelperPointers(s, h)
  PROVE  AuthInv'
<1>1. /\ s \in StackByref /\ s \in live /\ h \in HeapByref
      /\ live' = live \cup {h}
      /\ bits' = [p \in Place |-> IF p[1] = h THEN prepareWrite(<<s, p[2]>>, p) ELSE bits[p]]
      /\ holds' = [p \in Place |-> IF p[1] = h THEN holds[<<s, p[2]>>] ELSE holds[p]]
      /\ source' = source
  BY DEF CopyHelperPointers
<1>2. Copied(s)
  BY <1>1, ObjectsAssumption DEF Copied, AuthInv, AuthTypeInv
<1>3. ASSUME NEW p \in Place, p[1] = h
      PROVE  /\ holds[<<s, p[2]>>] \in Function \cup {NullFn}
             /\ prepareWrite(<<s, p[2]>>, p) = Sealed(holds[<<s, p[2]>>], p)
  <2> DEFINE from == <<s, p[2]>>
  <2>1. from \in Place
    BY <1>1, <1>3, Places, ObjectsAssumption DEF Fields
  <2>2. holds[from] \in Function \cup {NullFn} /\ bits[from] = Sealed(holds[from], from)
    BY <1>2, <2>1 DEF AuthInv, AuthTypeInv, AllSealed
  <2> QED
    BY <2>1, <2>2, SealedReads
<1>4. \A p \in Place : p[1] = h => prepareWrite(<<s, p[2]>>, p) \in SignedPointer \cup {NullFn}
  BY <1>3, SealedType
<1>5. AuthTypeInv'
  BY <1>1, <1>3, <1>4 DEF AuthInv, AuthTypeInv
<1>6. AllSealed'
  BY <1>1, <1>3 DEF AuthInv, AllSealed, Copied
<1>7. SourceLive'
  BY <1>1 DEF AuthInv, SourceLive
<1> QED
  BY <1>5, <1>6, <1>7 DEF AuthInv

\* The setters sign for the field they store to.
LEMMA SetFnInv ==
  ASSUME AuthInv, NEW p \in Place, NEW f \in Function \cup {NullFn}, SetFn(p, f)
  PROVE  AuthInv'
<1>1. prepareWriteFn(f, p) = Sealed(f, p)
  BY StoredSealed
<1>2. Sealed(f, p) \in SignedPointer \cup {NullFn}
  BY SealedType
<1>3. /\ bits' = [bits EXCEPT ![p] = Sealed(f, p)]
      /\ holds' = [holds EXCEPT ![p] = f]
      /\ live' = live /\ source' = source
  BY <1>1 DEF SetFn
<1>4. AuthTypeInv'
  BY <1>2, <1>3 DEF AuthInv, AuthTypeInv
<1>5. AllSealed'
  BY <1>3 DEF AuthInv, AuthTypeInv, AllSealed, Copied
<1>6. SourceLive'
  BY <1>3 DEF AuthInv, SourceLive
<1> QED
  BY <1>4, <1>5, <1>6 DEF AuthInv

\* What is freed is not being copied.
LEMMA FreeInv ==
  ASSUME AuthInv, NEW o \in Object, GiveBack(o)
  PROVE  AuthInv'
  BY DEF GiveBack, AuthInv, AuthTypeInv, AllSealed, SourceLive, Copied

\* Every step of the program keeps the invariant.
LEMMA AuthStep == AuthInv /\ [AuthNext]_authVars => AuthInv'
<1> SUFFICES ASSUME AuthInv, [AuthNext]_authVars PROVE AuthInv'
  OBVIOUS
<1>1. CASE UNCHANGED authVars
  BY <1>1 DEF authVars, AuthInv, AuthTypeInv, AllSealed, SourceLive, Copied
<1>2. ASSUME NEW o \in Object, NEW f \in Function, Emit(o, f) PROVE AuthInv'
  BY <1>2, EmitInv
<1>3. ASSUME NEW s \in Object, NEW h \in Object, MoveBlock(s, h) PROVE AuthInv'
  BY <1>3, MoveBlockInv
<1>4. ASSUME NEW s \in Object, NEW h \in Object, CopyHelperPointers(s, h) PROVE AuthInv'
  BY <1>4, CopyHelperPointersInv
<1>5. ASSUME NEW h \in HeapBlock, ResignInvoke(h) PROVE AuthInv'
  BY <1>5, ResignInvokeInv
<1>6. ASSUME NEW p \in Place, NEW f \in Function \cup {NullFn}, SetFn(p, f) PROVE AuthInv'
  BY <1>6, SetFnInv
<1>7. ASSUME NEW o \in Object, GiveBack(o) PROVE AuthInv'
  BY <1>7, FreeInv
<1> QED
  BY <1>1, <1>2, <1>3, <1>4, <1>5, <1>6, <1>7 DEF AuthNext

\* A function pointer that may be used is, where it is stored, the function it
\* stands for: whatever Blocks and __block variables were copied and freed.
THEOREM PointersAuthenticate == AuthSpec => []Authenticates
<1>1. AuthInv => Authenticates
  BY SealedReads DEF AuthInv, AuthTypeInv, AllSealed, Authenticates
<1> QED
  BY <1>1, AuthInvInit, AuthStep, PTL DEF AuthSpec

\* The runtime never authenticates a pointer where it was not signed.
THEOREM NoPointerTraps == AuthSpec => []NothingTraps
<1>1. AuthInv => NothingTraps
  BY FunctionAssumption DEF AuthInv, AuthTypeInv, NothingTraps, SignedPointer
<1> QED
  BY <1>1, AuthInvInit, AuthStep, PTL DEF AuthSpec

-----------------------------------------------------------------------------
(* ByrefLayout *)

\* What is in the copy once _Block_byref_copy has come as far as each "pc": all
\* words of the variable's own, none beyond, and in "held" every one moved.
ByrefInv ==
  /\ src \in Byref!EmittedByrefs
  /\ copying \in {"malloc", "helpers", "layout", "keep", "memmove", "held", "destroy", "freed"}
  /\ copying \in {"helpers", "layout", "keep"} => src.helpers
  /\ copying = "memmove" => ~src.helpers
  /\ copying \notin {"malloc", "freed"} =>
       /\ DOMAIN copy = 0 .. Byref!Size - 1
       /\ \A n \in DOMAIN copy : copy[n] \in {<<"word", n>>, <<"header", n>>, Garbage}
  /\ copying \in {"layout", "keep", "held", "destroy"} /\ src.helpers =>
       copy[3] = <<"word", 3>> /\ copy[4] = <<"word", 4>>
  /\ copying = "keep" /\ Byref!HasLayout => copy[5] = <<"word", 5>>
  /\ copying = "held" => \A n \in 3 .. Byref!Size - 1 : copy[n] = <<"word", n>>
  /\ copying = "held" /\ src.helpers => called = <<"word", 3>>
  /\ copying = "destroy" /\ src.helpers => called = <<"word", 4>>

\* The variable comes after the header and whatever parts there are.
LEMMA Lengths ==
  ASSUME src \in Byref!EmittedByrefs
  PROVE  /\ src.helpers \in BOOLEAN /\ src.words \in Nat \ {0} /\ Byref!Size \in Nat
         /\ Byref!VariableAt =
              IF src.helpers THEN IF Byref!HasLayout THEN 6 ELSE 5
              ELSE IF Byref!HasLayout THEN 4 ELSE 3
         /\ Byref!Size = Byref!VariableAt + src.words
<1>1. src.helpers \in BOOLEAN /\ src.words \in Nat \ {0}
  BY DEF Byref!EmittedByrefs
<1>2. Byref!VariableAt =
        IF src.helpers THEN IF Byref!HasLayout THEN 6 ELSE 5
        ELSE IF Byref!HasLayout THEN 4 ELSE 3
  BY <1>1 DEF Byref!VariableAt, Byref!sizeof_byref
<1> QED
  BY <1>1, <1>2 DEF Byref!Size

\* Moving words of the variable's own fills them in and leaves the others.
LEMMA MovedWords ==
  ASSUME Byref!Size \in Nat, DOMAIN copy = 0 .. Byref!Size - 1,
         \A n \in DOMAIN copy : copy[n] \in {<<"word", n>>, <<"header", n>>, Garbage},
         NEW ns \in SUBSET (0 .. Byref!Size - 1), copy' = Byref!Moved(ns)
  PROVE  /\ DOMAIN copy' = 0 .. Byref!Size - 1
         /\ \A n \in DOMAIN copy' : copy'[n] \in {<<"word", n>>, <<"header", n>>, Garbage}
         /\ \A n \in ns : copy'[n] = <<"word", n>>
         /\ \A n \in (0 .. Byref!Size - 1) \ ns : copy'[n] = copy[n]
<1>1. DOMAIN copy \cup ns = 0 .. Byref!Size - 1
  OBVIOUS
<1>2. \A n \in 0 .. Byref!Size - 1 : Byref!Word(n) = <<"word", n>>
  BY DEF Byref!Word
<1>3. copy' = [n \in 0 .. Byref!Size - 1 |-> IF n \in ns THEN Byref!Word(n) ELSE copy[n]]
  BY <1>1 DEF Byref!Moved
<1> QED
  BY <1>2, <1>3

LEMMA ByrefStep == ByrefInv /\ [Byref!Next]_byrefVars => ByrefInv'
<1> SUFFICES ASSUME ByrefInv, [Byref!Next]_byrefVars PROVE ByrefInv'
  OBVIOUS
<1>0. src \in Byref!EmittedByrefs
  BY DEF ByrefInv
<1>1. ASSUME src' = src PROVE Byref!Size' = Byref!Size /\ Byref!HasLayout' = Byref!HasLayout
  BY <1>1 DEF Byref!Size, Byref!VariableAt, Byref!HasLayout
<1>2. CASE Byref!Header
  <2>1. /\ src' = src /\ copying' = (IF src.helpers THEN "helpers" ELSE "memmove")
        /\ DOMAIN copy' = 0 .. Byref!Size - 1
        /\ \A n \in DOMAIN copy' : copy'[n] \in {<<"header", n>>, Garbage}
    BY <1>2 DEF Byref!Header
  <2> QED
    BY <1>0, <1>1, <2>1 DEF ByrefInv
<1>3. CASE Byref!CopyHelpers
  <2>1. /\ src' = src /\ copying = "helpers" /\ copying' = "layout"
        /\ copy' = Byref!Moved({3, 4})
    BY <1>3 DEF Byref!CopyHelpers, Byref!Byref2, Byref!sizeof_byref
  <2>2. {3, 4} \subseteq 0 .. Byref!Size - 1
    BY <1>0, <2>1, Lengths DEF ByrefInv
  <2>3. /\ DOMAIN copy' = 0 .. Byref!Size - 1
        /\ \A n \in DOMAIN copy' : copy'[n] \in {<<"word", n>>, <<"header", n>>, Garbage}
        /\ copy'[3] = <<"word", 3>> /\ copy'[4] = <<"word", 4>>
    BY <1>0, <2>1, <2>2, Lengths, MovedWords DEF ByrefInv
  <2> QED
    BY <1>0, <1>1, <2>1, <2>3 DEF ByrefInv
<1>4. CASE Byref!CopyLayout
  <2>1. /\ src' = src /\ copying = "layout" /\ copying' = "keep"
        /\ copy' = IF Byref!TestsLayout THEN Byref!Moved({5}) ELSE copy
    BY <1>4 DEF Byref!CopyLayout, Byref!Byref2, Byref!sizeof_byref
  <2>2. {5} \subseteq 0 .. Byref!Size - 1
    BY <1>0, <2>1, Lengths DEF ByrefInv
  <2>3. Byref!HasLayout => Byref!TestsLayout
    BY DEF Byref!HasLayout, Byref!TestsLayout, Byref!BLOCK_BYREF_LAYOUT_EXTENDED
  <2>4. /\ DOMAIN copy' = 0 .. Byref!Size - 1
        /\ \A n \in DOMAIN copy' : copy'[n] \in {<<"word", n>>, <<"header", n>>, Garbage}
        /\ copy'[3] = <<"word", 3>> /\ copy'[4] = <<"word", 4>>
        /\ Byref!HasLayout => copy'[5] = <<"word", 5>>
    <3>1. CASE Byref!TestsLayout
      BY <1>0, <2>1, <2>2, <3>1, Lengths, MovedWords DEF ByrefInv
    <3>2. CASE ~Byref!TestsLayout
      BY <2>1, <2>3, <3>2 DEF ByrefInv
    <3> QED
      BY <3>1, <3>2
  <2> QED
    BY <1>0, <1>1, <2>1, <2>4 DEF ByrefInv
<1>5. CASE Byref!Keep
  <2>1. /\ src' = src /\ copying = "keep" /\ copying' = "held" /\ src.helpers
        /\ called' = Byref!Word(3) /\ copy' = Byref!Moved(Byref!VariableAt .. Byref!Size - 1)
    BY <1>5 DEF Byref!Keep, Byref!Byref2, Byref!sizeof_byref, ByrefInv
  <2>2. Byref!VariableAt = IF Byref!HasLayout THEN 6 ELSE 5
    BY <1>0, <2>1, Lengths
  <2>3. /\ DOMAIN copy' = 0 .. Byref!Size - 1
        /\ \A n \in DOMAIN copy' : copy'[n] \in {<<"word", n>>, <<"header", n>>, Garbage}
        /\ \A n \in Byref!VariableAt .. Byref!Size - 1 : copy'[n] = <<"word", n>>
        /\ \A n \in (0 .. Byref!Size - 1) \ (Byref!VariableAt .. Byref!Size - 1) : copy'[n] = copy[n]
    <3>1. Byref!VariableAt .. Byref!Size - 1 \subseteq 0 .. Byref!Size - 1
      BY <2>2
    <3> QED
      BY <1>0, <2>1, <3>1, Lengths, MovedWords DEF ByrefInv
  <2>4. Byref!Size \in Nat /\ Byref!Size > Byref!VariableAt
    BY <1>0, <2>2, Lengths
  <2>5. copy'[3] = <<"word", 3>> /\ copy'[4] = <<"word", 4>>
    BY <2>1, <2>2, <2>3, <2>4 DEF ByrefInv
  <2>6. Byref!HasLayout => copy'[5] = <<"word", 5>>
    BY <2>1, <2>2, <2>3, <2>4 DEF ByrefInv
  <2>7. \A n \in 3 .. Byref!Size - 1 : copy'[n] = <<"word", n>>
    BY <2>2, <2>3, <2>4, <2>5, <2>6
  <2>8. called' = <<"word", 3>>
    BY <2>1, <2>2, <2>4 DEF Byref!Word
  <2> QED
    BY <1>0, <1>1, <2>1, <2>3, <2>5, <2>7, <2>8 DEF ByrefInv
<1>6. CASE Byref!Memmove
  <2>1. /\ src' = src /\ copying = "memmove" /\ copying' = "held" /\ ~src.helpers
        /\ copy' = Byref!Moved(3 .. Byref!Size - 1)
    BY <1>6 DEF Byref!Memmove, Byref!sizeof_byref, ByrefInv
  <2>2. 3 .. Byref!Size - 1 \subseteq 0 .. Byref!Size - 1
    OBVIOUS
  <2>3. /\ DOMAIN copy' = 0 .. Byref!Size - 1
        /\ \A n \in DOMAIN copy' : copy'[n] \in {<<"word", n>>, <<"header", n>>, Garbage}
        /\ \A n \in 3 .. Byref!Size - 1 : copy'[n] = <<"word", n>>
    BY <1>0, <2>1, <2>2, Lengths, MovedWords DEF ByrefInv
  <2> QED
    BY <1>0, <1>1, <2>1, <2>3 DEF ByrefInv
<1>7. CASE Byref!Destroy
  <2>1. /\ src' = src /\ copy' = copy /\ copying = "held" /\ copying' = "destroy"
        /\ src.helpers => called' = copy[4]
    BY <1>7 DEF Byref!Destroy, Byref!Byref2, Byref!sizeof_byref
  <2> QED
    BY <1>0, <1>1, <2>1 DEF ByrefInv
<1>8. CASE Byref!Free
  <2>1. src' = src /\ copying' = "freed"
    BY <1>8 DEF Byref!Free
  <2> QED
    BY <1>0, <2>1 DEF ByrefInv
<1>9. CASE UNCHANGED byrefVars
  BY <1>1, <1>9 DEF byrefVars, ByrefInv
<1> QED
  BY <1>2, <1>3, <1>4, <1>5, <1>6, <1>7, <1>8, <1>9 DEF Byref!Next

\* No word of the copy is one from beyond the variable.
LEMMA ByrefEnough == ByrefInv => CopyComplete
<1> SUFFICES ASSUME ByrefInv PROVE CopyComplete
  OBVIOUS
<1>1. Byref!Size \in Nat /\ Byref!Size - 1 <= MaxWords + 5
  BY WordsAssumption, Lengths DEF ByrefInv, Byref!EmittedByrefs
<1>2. ASSUME NEW n \in 0 .. Byref!Size - 1 PROVE Garbage # <<"beyond", n>>
  <2>1. n \in 0 .. MaxWords + 6
    BY <1>1, WordsAssumption
  <2>2. <<"beyond", n>> \in {"word", "header", "beyond"} \X (0 .. MaxWords + 6)
    BY <2>1
  <2> QED
    BY <2>2, WordsAssumption, Zenon
<1>3. Byref!WithinSize
  BY <1>2 DEF ByrefInv, Byref!WithinSize
<1> QED
  BY <1>3 DEF ByrefInv, CopyComplete, Byref!CopyComplete, Byref!HelpersArePartners,
              Byref!sizeof_byref, Byref!Byref2

-----------------------------------------------------------------------------
(* The parts together *)

\* Each part runs as if it were alone.
LEMMA PartsApart ==
  /\ PartsSpec => Spec /\ CallbacksSpec /\ AuthSpec /\ MoveSpec
  /\ PartsSpec => Byref!Init /\ [][Byref!Next]_byrefVars
<1>1. PartsInit => Init /\ CallbacksInit /\ AuthInit /\ MoveInit /\ Byref!Init
  BY DEF PartsInit
<1>2. [PartsNext]_partsVars =>
        /\ [Next]_vars /\ [CallbacksNext]_callbackVars /\ [AuthNext]_authVars
        /\ [MoveNext]_moveVars /\ [Byref!Next]_byrefVars
  BY DEF PartsNext, partsVars
<1> QED
  BY <1>1, <1>2, PTL DEF PartsSpec, Spec, CallbacksSpec, AuthSpec, MoveSpec

\* Whatever parts a __block variable has and however long it is, its heap copy
\* holds each of its words and none beyond, and is destroyed by the helper that
\* came with the one that copied it -- although _Block_byref_copy looks for the
\* layout with a test that other kinds of layout pass as well.
THEOREM ByrefCopyIsComplete == PartsSpec => []CopyComplete
<1>1. Byref!Init => ByrefInv
  BY DEF Byref!Init, ByrefInv
<1>2. Byref!Init /\ [][Byref!Next]_byrefVars => []ByrefInv
  BY <1>1, ByrefStep, PTL
<1> QED
  BY <1>2, PartsApart, ByrefEnough, PTL

=============================================================================
