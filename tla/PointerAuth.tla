----------------------------- MODULE PointerAuth -----------------------------
(* The function pointers of Blocks, descriptors and __block variables on a    *)
(* machine with pointer authentication: Block_private.h signs each with the   *)
(* address it is stored at, so that moving its bits is not enough.            *)
EXTENDS FiniteSets

CONSTANTS
  StackBlock, HeapBlock, StackByref, HeapByref, DescriptorPart,  \* addresses
  Function,
  NullFn, Trap   \* Trap: what is left of a pointer that did not authenticate

\* A Block is a Block and a __block variable is one, wherever it is stored.
ASSUME ObjectsAssumption ==
  /\ \A kind \in {StackByref, HeapByref, DescriptorPart} : kind \cap (StackBlock \cup HeapBlock) = {}
  /\ (StackByref \cup HeapByref) \cap DescriptorPart = {}
  /\ StackBlock \cap HeapBlock = {} /\ StackByref \cap HeapByref = {}
  /\ NullFn \notin StackBlock

ASSUME FunctionAssumption == NullFn \notin Function /\ Trap \notin Function

Static == StackBlock \cup StackByref \cup DescriptorPart
Object == Static \cup HeapBlock \cup HeapByref

Fields(o) ==
  IF o \in DescriptorPart THEN {"copy", "dispose"}
  ELSE IF o \in StackByref \cup HeapByref THEN {"byref_keep", "byref_destroy"}
  ELSE {"invoke"}

Place == UNION {{o} \X Fields(o) : o \in Object}

SignedPointer == [fn : Function, key : {"block"}, at : Place]

\* a null pointer is no signed one
ASSUME NullFnAssumption == NullFn \notin SignedPointer

VARIABLES
  bits,     \* bits[p]: the signed pointer in memory, also where nothing lives
  live,     \* objects that exist
  source,   \* source[o]: what heap object o is being copied from, or NullFn
  holds     \* holds[p]: the function the program means to have at p

authVars == <<bits, live, source, holds>>

\* A function pointer is signed by a key together with an address; C's own
\* function pointers are signed without an address (0).
Signed(fn, key, at) == [fn |-> fn, key |-> key, at |-> at]
Pointer(fn) == IF fn = NullFn THEN NullFn ELSE Signed(fn, "function", 0)

ptrauth_auth_and_resign(value, oldKey, oldAt, key, at) ==
  IF value = Signed(value.fn, oldKey, oldAt) THEN Signed(value.fn, key, at)
  ELSE Signed(Trap, key, at)

\* operator = (Fn), and _Block_set_function_pointer
prepareWriteFn(fn, p) ==
  IF fn = NullFn THEN NullFn
  ELSE ptrauth_auth_and_resign(Pointer(fn), "function", 0, "block", p)

\* operator = (const StorageSignedFunctionPointer &)
prepareWrite(other, p) ==
  IF bits[other] = NullFn THEN NullFn
  ELSE ptrauth_auth_and_resign(bits[other], "block", other, "block", p)

\* operator Fn, and _Block_get_function_pointer
completeReadFn(p) ==
  IF bits[p] = NullFn THEN NullFn
  ELSE ptrauth_auth_and_resign(bits[p], "block", p, "function", 0)

AuthInit ==
  /\ bits = [p \in Place |-> NullFn]
  /\ live = DescriptorPart
  /\ source = [o \in HeapBlock \cup HeapByref |-> NullFn]
  /\ holds = bits

\* The function that declares o begins: compiled code fills o in.
Emit(o, f) ==
  /\ o \in StackBlock \cup StackByref
  /\ o \notin live
  /\ live' = live \cup {o}
  /\ LET stored(old, new) == [p \in Place |-> IF p[1] = o THEN new[p] ELSE old[p]] IN
       /\ bits' = stored(bits, [p \in Place |-> Signed(f, "block", p)])
       /\ holds' = stored(holds, [p \in Place |-> f])
  /\ UNCHANGED source

\* _Block_copy: malloc and memmove. "bitcopy first"
MoveBlock(s, h) ==
  /\ s \in StackBlock \cap live
  /\ h \in HeapBlock \ live
  /\ live' = live \cup {h}
  /\ source' = [source EXCEPT ![h] = s]
  /\ bits' = [bits EXCEPT ![<<h, "invoke">>] = bits[<<s, "invoke">>]]
  /\ UNCHANGED holds

\* Mutant of ResignInvoke: the bits that memmove left are taken to do.
ResignNothing(h) ==
  /\ h \in HeapBlock
  /\ source[h] # NullFn
  /\ holds' = [holds EXCEPT ![<<h, "invoke">>] = holds[<<source[h], "invoke">>]]
  /\ source' = [source EXCEPT ![h] = NullFn]
  /\ UNCHANGED <<bits, live>>

\* "Resign the invoke pointer as it uses address authentication."
ResignInvoke(h) ==
  /\ h \in HeapBlock
  /\ source[h] # NullFn
  /\ LET from == <<source[h], "invoke">> IN
       /\ bits' = [bits EXCEPT ![<<h, "invoke">>] = prepareWrite(from, <<h, "invoke">>)]
       /\ holds' = [holds EXCEPT ![<<h, "invoke">>] = holds[from]]
  /\ source' = [source EXCEPT ![h] = NullFn]
  /\ UNCHANGED live

\* _Block_byref_copy: malloc, and each helper assigned to the copy
CopyHelperPointers(s, h) ==
  /\ s \in StackByref \cap live
  /\ h \in HeapByref \ live
  /\ live' = live \cup {h}
  /\ bits' = [p \in Place |-> IF p[1] = h THEN prepareWrite(<<s, p[2]>>, p) ELSE bits[p]]
  /\ holds' = [p \in Place |-> IF p[1] = h THEN holds[<<s, p[2]>>] ELSE holds[p]]
  /\ UNCHANGED source

Copied(o) == o \in live /\ (o \in DOMAIN source => source[o] = NullFn)

\* _Block_set_invoke_fn, _Block_set_copy_fn, _Block_set_dispose_fn
SetFn(p, f) ==
  /\ Copied(p[1])
  /\ p[2] \in {"invoke", "copy", "dispose"}
  /\ bits' = [bits EXCEPT ![p] = prepareWriteFn(f, p)]
  /\ holds' = [holds EXCEPT ![p] = f]
  /\ UNCHANGED <<live, source>>

\* Memory is given back with its bits in it, that of a stack frame once no
\* copy of it is under way.
GiveBack(o) ==
  /\ Copied(o)
  /\ o \notin DescriptorPart
  /\ \A h \in DOMAIN source : source[h] # o
  /\ live' = live \ {o}
  /\ UNCHANGED <<bits, source, holds>>

AuthNext ==
  \/ \E o \in Object, f \in Function : Emit(o, f)
  \/ \E s, h \in Object : MoveBlock(s, h) \/ CopyHelperPointers(s, h)
  \/ \E h \in HeapBlock : ResignInvoke(h)
  \/ \E p \in Place, f \in Function \cup {NullFn} : SetFn(p, f)
  \/ \E o \in Object : GiveBack(o)

AuthSpec == AuthInit /\ [][AuthNext]_authVars

\* Every function pointer of a Block, a descriptor or a __block variable that
\* may be used authenticates where it is stored, as the function it stands for,
\* after any copies, frees and reuses of memory; a null one stays null.
Authenticates ==
  \A p \in Place : Copied(p[1]) => completeReadFn(p) = Pointer(holds[p])

\* No copy or store ever authenticates a pointer against an address at which
\* it was not signed.
NothingTraps == \A p \in Place : bits[p] # NullFn => bits[p].fn # Trap
=============================================================================
