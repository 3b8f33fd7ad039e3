----------------------------- MODULE BlockRuntime -----------------------------
(***************************************************************************)
(* _Block_copy, _Block_release and what they call -- the copy and dispose  *)
(* helpers, _Block_object_assign, _Block_object_dispose, _Block_byref_copy *)
(* and _Block_byref_release -- run by several threads over one memory of   *)
(* Blocks and __block variables.                                           *)
(*                                                                         *)
(* One function of the program declares the __block variables Byref and    *)
(* the Block literals Literal; its thread is Main.  Blocks that were       *)
(* copied to the heap are held in variables Var, which any thread may      *)
(* copy, release, or invoke.  An invoked Block can write the __block       *)
(* variables it captured and copy a Block literal of its own that captures *)
(* the same fields (its literal is the thread's Inner cell).               *)
(*                                                                         *)
(* The runtime is recursive (a copy helper copies captured Blocks and      *)
(* __block variables), so each thread has a stack of frames, one per call  *)
(* of the runtime; a step is one access to shared memory.  A count changes *)
(* in one step: LatchingCount implements that, and is where the count      *)
(* latches and threads fail their compare-and-swap.  Here it is a number   *)
(* of references far below the latch.                                      *)
(***************************************************************************)
EXTENDS Integers, Sequences, FiniteSets, FieldFlags

CONSTANTS
  Thread, Main,
  Byref,            \* the declaring function's __block variables (addresses)
  Literal,          \* its Block literals (addresses)
  Inner,            \* Inner[t]: address of a Block literal of a body run by t
  GlobalBlock,      \* a Block without captures, in the data segment
  Object,           \* Objective-C objects
  Var,              \* variables that own a copied Block
  HeapSize,         \* malloc's addresses are 1 .. HeapSize
  Captures,         \* Captures[l]: the fields of literal l, [flags, of] each
  SharedFrame,      \* TRUE: other threads invoke the literals (dispatch_apply)
  MallocFails,      \* TRUE: malloc of a Block may return NULL
  NULL, Garbage

Heap == 1 .. HeapSize
Inners == {Inner[t] : t \in Thread}
Stack == Byref \cup Literal \cup Inners
Addr == Heap \cup Stack \cup {GlobalBlock}
Value == {0, 1}

Pointer == Addr \cup Object \cup {NULL}

ASSUME ProgramAssumption ==
  /\ Main \in Thread
  /\ IsFiniteSet(Thread) /\ IsFiniteSet(Byref) /\ IsFiniteSet(Var) /\ HeapSize \in Nat
  /\ \A l \in Literal : Captures[l] \in Seq([flags : SUBSET Bit, of : Pointer])

\* Addresses of different things differ.
ASSUME AddressAssumption ==
  /\ Heap \cap (Stack \cup Object \cup {GlobalBlock, NULL}) = {}
  /\ Byref \cap (Literal \cup Inners \cup Object \cup {GlobalBlock, NULL}) = {}
  /\ Literal \cap (Inners \cup Object \cup {GlobalBlock, NULL}) = {}
  /\ Inners \cap (Object \cup {GlobalBlock, NULL}) = {}
  /\ Object \cap {GlobalBlock, NULL} = {} /\ GlobalBlock # NULL
  /\ \A t, u \in Thread : Inner[t] = Inner[u] => t = u

VARIABLES
  mem,      \* mem[a]: the cell at address a
  var,      \* var[v]: the Block v owns, or NULL
  stack,    \* stack[t]: frames of the calls t is in, innermost first
  busy,     \* busy[t]: the variables t's current operation reads or will set
  scope,    \* the declaring function: "open", "closing", "closed"
  retains,  \* retains[o]: retains minus releases through the callbacks
  written   \* written[b]: the value the program last gave __block variable b

vars == <<mem, var, stack, busy, scope, retains, written>>

FreeCell == [kind |-> "free"]
HeapFree == {a \in Heap : mem[a].kind = "free"}

\* Block_layout: "where" is what BLOCK_NEEDS_FREE and BLOCK_IS_GLOBAL say,
\* "lit" the descriptor, "fields" the captured variables that need help.
Block(where, isa, count, lit, fields) ==
  [kind |-> "block", where |-> where, isa |-> isa, count |-> count, dying |-> FALSE,
   lit |-> lit, fields |-> fields]

ByrefCell(where, count, fwd, of, val) ==
  [kind |-> "byref", where |-> where, count |-> count, dying |-> FALSE,
   forwarding |-> fwd, of |-> of, val |-> val]

Init ==
  /\ mem = [a \in Addr |->
       IF a \in Literal
         THEN Block("stack", "stack", 0, a, [i \in DOMAIN Captures[a] |-> Captures[a][i].of])
       ELSE IF a \in Byref THEN ByrefCell("stack", 0, a, a, 0)
       ELSE IF a = GlobalBlock THEN Block("global", "global", 0, a, <<>>)
       ELSE FreeCell]
  /\ var = [v \in Var |-> NULL]
  /\ stack = [t \in Thread |-> <<>>]
  /\ busy = [t \in Thread |-> {}]
  /\ scope = "open"
  /\ retains = [o \in Object |-> 0]
  /\ written = [b \in Byref |-> 0]

-----------------------------------------------------------------------------
(* Frames *)

CopyFrame(arg, dest) == [fn |-> "copy", arg |-> arg, dest |-> dest]
CopyHelperFrame(result, arg, i, dest) ==
  [fn |-> "copyHelper", result |-> result, arg |-> arg, i |-> i, dest |-> dest]
ByrefCopyFrame(arg, dest, pc, copy) ==
  [fn |-> "byrefCopy", arg |-> arg, dest |-> dest, pc |-> pc, copy |-> copy]
ReleaseFrame(arg) == [fn |-> "release", arg |-> arg]
DisposeHelperFrame(arg, i) == [fn |-> "disposeHelper", arg |-> arg, i |-> i]
ByrefReleaseFrame(arg, pc) == [fn |-> "byrefRelease", arg |-> arg, pc |-> pc]

In(t, fn) == stack[t] # <<>> /\ Head(stack[t]).fn = fn
InAt(t, fn, pc) == In(t, fn) /\ Head(stack[t]).pc = pc
Idle(t) == stack[t] = <<>>

\* The frames on top of t's frame are replaced by "fs".
Continue(t, fs) == stack' = [stack EXCEPT ![t] = fs \o Tail(@)]

\* The destination of a result: a variable, or field i of the Block at a.
ToVar(v) == [var |-> v]
ToField(a, i) == [block |-> a, field |-> i]
IsVar(dest) == "var" \in DOMAIN dest

\* The current call returns; "m" is the memory it leaves.  When it was the
\* thread's outermost call, the body's own literal goes out of scope.
ReturnFrom(t, m) ==
  LET last == Len(stack[t]) = 1 IN
  /\ Continue(t, <<>>)
  /\ busy' = IF last THEN [busy EXCEPT ![t] = {}] ELSE busy
  /\ mem' = IF last THEN [m EXCEPT ![Inner[t]] = FreeCell] ELSE m

\* ... and its result is stored where the caller wants it (*dest = ...).
Return(t, m, dest, p) ==
  IF IsVar(dest)
  THEN ReturnFrom(t, m) /\ var' = [var EXCEPT ![dest.var] = p]
  ELSE ReturnFrom(t, [m EXCEPT ![dest.block].fields[dest.field] = p]) /\ UNCHANGED var

\* malloc hands out the lowest free address, so memory is reused at once.
Malloc == CHOOSE a \in HeapFree : \A b \in HeapFree : a <= b

FlagsOf(block, i) == Captures[block.lit][i].flags

-----------------------------------------------------------------------------
(* _Block_copy *)

CopyNull(t) ==
  LET f == Head(stack[t]) IN
  /\ In(t, "copy")
  /\ f.arg = NULL
  /\ Return(t, mem, f.dest, NULL)
  /\ UNCHANGED <<scope, retains, written>>

\* Mutant of CopyHeap: the increment is missing.
CopyHeapUncounted(t) ==
  LET f == Head(stack[t]) IN
  /\ In(t, "copy")
  /\ f.arg # NULL
  /\ mem[f.arg].where = "heap"
  /\ Return(t, mem, f.dest, f.arg)
  /\ UNCHANGED <<scope, retains, written>>

CopyHeap(t) ==
  LET f == Head(stack[t]) IN
  /\ In(t, "copy")
  /\ f.arg # NULL
  /\ mem[f.arg].where = "heap"
  /\ Return(t, [mem EXCEPT ![f.arg].count = @ + 1], f.dest, f.arg)
  /\ UNCHANGED <<scope, retains, written>>

CopyGlobal(t) ==
  LET f == Head(stack[t]) IN
  /\ In(t, "copy")
  /\ f.arg # NULL
  /\ mem[f.arg].where = "global"
  /\ Return(t, mem, f.dest, f.arg)
  /\ UNCHANGED <<scope, retains, written>>

CopyStackFails(t) ==
  LET f == Head(stack[t]) IN
  /\ In(t, "copy")
  /\ MallocFails
  /\ f.arg # NULL
  /\ mem[f.arg].where = "stack"
  /\ Return(t, mem, f.dest, NULL)
  /\ UNCHANGED <<scope, retains, written>>

\* Mutant of CopyStack: isa is set first, with the flags.
CopyStackIsaFirst(t) ==
  LET f == Head(stack[t]) IN
  /\ In(t, "copy")
  /\ f.arg # NULL
  /\ mem[f.arg].where = "stack"
  /\ HeapFree # {}
  /\ mem' = [mem EXCEPT ![Malloc] =
       [mem[f.arg] EXCEPT !.where = "heap", !.count = 1, !.isa = "malloc"]]
  /\ Continue(t, <<CopyHelperFrame(Malloc, f.arg, 1, f.dest)>>)
  /\ UNCHANGED <<var, busy, scope, retains, written>>

\* malloc, memmove and the flags of the copy, which nobody else can see yet
CopyStack(t) ==
  LET f == Head(stack[t]) IN
  /\ In(t, "copy")
  /\ f.arg # NULL
  /\ mem[f.arg].where = "stack"
  /\ HeapFree # {}
  /\ mem' = [mem EXCEPT ![Malloc] = [mem[f.arg] EXCEPT !.where = "heap", !.count = 1]]
  /\ Continue(t, <<CopyHelperFrame(Malloc, f.arg, 1, f.dest)>>)
  /\ UNCHANGED <<var, busy, scope, retains, written>>

\* Mutant of AssignInPlace: the object is stored and not retained.
AssignUnretained(t) ==
  LET f == Head(stack[t])
      src == mem[f.arg] IN
  /\ In(t, "copyHelper")
  /\ f.i <= Len(src.fields)
  /\ AssignKind(FlagsOf(src, f.i)) \notin {"block", "byref"}
  /\ Continue(t, <<[f EXCEPT !.i = @ + 1]>>)
  /\ UNCHANGED <<mem, var, busy, scope, retains, written>>

\* The copy helper calls _Block_object_assign for field i: an object is
\* retained, and its pointer stored over the same one, which memmove copied;
\* with any other flags the field stays as memmove left it;
AssignInPlace(t) ==
  LET f == Head(stack[t])
      src == mem[f.arg]
      kind == AssignKind(FlagsOf(src, f.i)) IN
  /\ In(t, "copyHelper")
  /\ f.i <= Len(src.fields)
  /\ kind \notin {"block", "byref"}
  /\ retains' = IF kind = "object" THEN [retains EXCEPT ![src.fields[f.i]] = @ + 1] ELSE retains
  /\ Continue(t, <<[f EXCEPT !.i = @ + 1]>>)
  /\ UNCHANGED <<mem, var, busy, scope, written>>

\* a Block or a __block variable is copied into the field.
AssignBlockOrByref(t) ==
  LET f == Head(stack[t])
      src == mem[f.arg]
      dest == ToField(f.result, f.i)
      call == [block |-> CopyFrame(src.fields[f.i], dest),
               byref |-> ByrefCopyFrame(src.fields[f.i], dest, "check", NULL)] IN
  /\ In(t, "copyHelper")
  /\ f.i <= Len(src.fields)
  /\ AssignKind(FlagsOf(src, f.i)) \in {"block", "byref"}
  /\ Continue(t, <<call[AssignKind(FlagsOf(src, f.i))], [f EXCEPT !.i = @ + 1]>>)
  /\ UNCHANGED <<mem, var, busy, scope, retains, written>>

\* The copy helper has returned: isa is set last.
CopyDone(t) ==
  LET f == Head(stack[t]) IN
  /\ In(t, "copyHelper")
  /\ f.i > Len(mem[f.arg].fields)
  /\ Return(t, [mem EXCEPT ![f.result].isa = "malloc"], f.dest, f.result)
  /\ UNCHANGED <<scope, retains, written>>

-----------------------------------------------------------------------------
(* _Block_byref_copy *)

\* Mutants of ByrefCopyFirst: the copy starts with a reference for the caller
\* only (the "| 4" is a 2);
ByrefCopyForCallerOnly(t) ==
  LET f == Head(stack[t])
      src == mem[f.arg] IN
  /\ InAt(t, "byrefCopy", "check")
  /\ mem[src.forwarding].count = 0
  /\ HeapFree # {}
  /\ mem' = [mem EXCEPT ![Malloc] = ByrefCell("heap", 1, Malloc, src.of, Garbage)]
  /\ Continue(t, <<[f EXCEPT !.pc = "publish", !.copy = Malloc]>>)
  /\ UNCHANGED <<var, busy, scope, retains, written>>

\* the count is looked for in src, not in src->forwarding.
ByrefCopyNotForwarded(t) ==
  LET f == Head(stack[t])
      src == mem[f.arg] IN
  /\ InAt(t, "byrefCopy", "check")
  /\ src.count = 0
  /\ HeapFree # {}
  /\ mem' = [mem EXCEPT ![Malloc] = ByrefCell("heap", 2, Malloc, src.of, Garbage)]
  /\ Continue(t, <<[f EXCEPT !.pc = "publish", !.copy = Malloc]>>)
  /\ UNCHANGED <<var, busy, scope, retains, written>>

\* "src points to stack": the copy has one reference for the caller and one
\* for the stack, and forwards to itself.
ByrefCopyFirst(t) ==
  LET f == Head(stack[t])
      src == mem[f.arg] IN
  /\ InAt(t, "byrefCopy", "check")
  /\ mem[src.forwarding].count = 0
  /\ HeapFree # {}
  /\ mem' = [mem EXCEPT ![Malloc] = ByrefCell("heap", 2, Malloc, src.of, Garbage)]
  /\ Continue(t, <<[f EXCEPT !.pc = "publish", !.copy = Malloc]>>)
  /\ UNCHANGED <<var, busy, scope, retains, written>>

\* Mutant of ByrefCopyAgain: waits for src itself to be on the heap.
ByrefCopyWaits(t) ==
  LET f == Head(stack[t])
      src == mem[f.arg] IN
  /\ InAt(t, "byrefCopy", "check")
  /\ mem[src.forwarding].count # 0
  /\ src.where = "heap"
  /\ Continue(t, <<[f EXCEPT !.pc = "increment"]>>)
  /\ UNCHANGED <<mem, var, busy, scope, retains, written>>

\* "already copied to heap"
ByrefCopyAgain(t) ==
  LET f == Head(stack[t])
      src == mem[f.arg] IN
  /\ InAt(t, "byrefCopy", "check")
  /\ mem[src.forwarding].count # 0
  /\ Continue(t, <<[f EXCEPT !.pc =
       IF mem[src.forwarding].where = "heap" THEN "increment" ELSE "return"]>>)
  /\ UNCHANGED <<mem, var, busy, scope, retains, written>>

\* Mutant of ByrefPublish: only the heap copy is patched.
ByrefPublishHeapOnly(t) ==
  LET f == Head(stack[t]) IN
  /\ InAt(t, "byrefCopy", "publish")
  /\ Continue(t, <<[f EXCEPT !.pc = "payload"]>>)
  /\ UNCHANGED <<mem, var, busy, scope, retains, written>>

\* "patch stack to point to heap copy"
ByrefPublish(t) ==
  LET f == Head(stack[t]) IN
  /\ InAt(t, "byrefCopy", "publish")
  /\ mem' = [mem EXCEPT ![f.arg].forwarding = f.copy]
  /\ Continue(t, <<[f EXCEPT !.pc = "payload"]>>)
  /\ UNCHANGED <<var, busy, scope, retains, written>>

\* Mutant of ByrefPayload: a variable without helpers is not moved.
ByrefPayloadMissing(t) ==
  LET f == Head(stack[t]) IN
  /\ InAt(t, "byrefCopy", "payload")
  /\ Continue(t, <<[f EXCEPT !.pc = "return"]>>)
  /\ UNCHANGED <<mem, var, busy, scope, retains, written>>

\* memmove of the variable, or its byref_keep helper
ByrefPayload(t) ==
  LET f == Head(stack[t]) IN
  /\ InAt(t, "byrefCopy", "payload")
  /\ mem' = [mem EXCEPT ![f.copy].val = mem[f.arg].val]
  /\ Continue(t, <<[f EXCEPT !.pc = "return"]>>)
  /\ UNCHANGED <<var, busy, scope, retains, written>>

ByrefIncrement(t) ==
  LET f == Head(stack[t]) IN
  /\ InAt(t, "byrefCopy", "increment")
  /\ mem' = [mem EXCEPT ![mem[f.arg].forwarding].count = @ + 1]
  /\ Continue(t, <<[f EXCEPT !.pc = "return"]>>)
  /\ UNCHANGED <<var, busy, scope, retains, written>>

\* return src->forwarding, read once more
ByrefCopyReturn(t) ==
  LET f == Head(stack[t]) IN
  /\ InAt(t, "byrefCopy", "return")
  /\ Return(t, mem, f.dest, mem[f.arg].forwarding)
  /\ UNCHANGED <<scope, retains, written>>

-----------------------------------------------------------------------------
(* _Block_release *)

ReleaseNothing(t) ==
  LET f == Head(stack[t]) IN
  /\ In(t, "release")
  /\ f.arg # NULL => mem[f.arg].where # "heap"
  /\ ReturnFrom(t, mem)
  /\ UNCHANGED <<var, scope, retains, written>>

\* latching_decr_int_should_deallocate answers false
ReleaseShared(t) ==
  LET f == Head(stack[t]) IN
  /\ In(t, "release")
  /\ f.arg # NULL
  /\ mem[f.arg].where = "heap"
  /\ mem[f.arg].count # 1 \/ mem[f.arg].dying
  /\ ReturnFrom(t, [mem EXCEPT ![f.arg].count = IF @ = 0 THEN 0 ELSE @ - 1])
  /\ UNCHANGED <<var, scope, retains, written>>

ReleaseLast(t) ==
  LET f == Head(stack[t]) IN
  /\ In(t, "release")
  /\ f.arg # NULL
  /\ mem[f.arg].where = "heap"
  /\ mem[f.arg].count = 1 /\ ~mem[f.arg].dying
  /\ mem' = [mem EXCEPT ![f.arg].count = 0, ![f.arg].dying = TRUE]
  /\ Continue(t, <<DisposeHelperFrame(f.arg, 1)>>)
  /\ UNCHANGED <<var, busy, scope, retains, written>>

\* The dispose helper calls _Block_object_dispose for field i,
DisposeInPlace(t) ==
  LET f == Head(stack[t])
      blk == mem[f.arg]
      kind == DisposeKind(FlagsOf(blk, f.i)) IN
  /\ In(t, "disposeHelper")
  /\ f.i <= Len(blk.fields)
  /\ kind \notin {"block", "byref"}
  /\ retains' = IF kind = "object" THEN [retains EXCEPT ![blk.fields[f.i]] = @ - 1] ELSE retains
  /\ Continue(t, <<[f EXCEPT !.i = @ + 1]>>)
  /\ UNCHANGED <<mem, var, busy, scope, written>>

DisposeBlockOrByref(t) ==
  LET f == Head(stack[t])
      blk == mem[f.arg]
      call == [block |-> ReleaseFrame(blk.fields[f.i]),
               byref |-> ByrefReleaseFrame(blk.fields[f.i], "load")] IN
  /\ In(t, "disposeHelper")
  /\ f.i <= Len(blk.fields)
  /\ DisposeKind(FlagsOf(blk, f.i)) \in {"block", "byref"}
  /\ Continue(t, <<call[DisposeKind(FlagsOf(blk, f.i))], [f EXCEPT !.i = @ + 1]>>)
  /\ UNCHANGED <<mem, var, busy, scope, retains, written>>

\* and then come _Block_destructInstance and free.
ReleaseDone(t) ==
  LET f == Head(stack[t]) IN
  /\ In(t, "disposeHelper")
  /\ f.i > Len(mem[f.arg].fields)
  /\ ReturnFrom(t, [mem EXCEPT ![f.arg] = FreeCell])
  /\ UNCHANGED <<var, scope, retains, written>>

-----------------------------------------------------------------------------
(* _Block_byref_release *)

\* Mutant of ByrefReleaseLoad: forwarding is not followed.
ByrefReleaseNotForwarded(t) ==
  LET f == Head(stack[t]) IN
  /\ InAt(t, "byrefRelease", "load")
  /\ IF mem[f.arg].where = "heap"
     THEN Continue(t, <<ByrefReleaseFrame(f.arg, "decrement")>>) /\ UNCHANGED <<mem, busy>>
     ELSE ReturnFrom(t, mem)
  /\ UNCHANGED <<var, scope, retains, written>>

\* byref = byref->forwarding; a variable that never left the stack stays
ByrefReleaseLoad(t) ==
  LET f == Head(stack[t])
      byref == mem[f.arg].forwarding IN
  /\ InAt(t, "byrefRelease", "load")
  /\ IF mem[byref].where = "heap"
     THEN Continue(t, <<ByrefReleaseFrame(byref, "decrement")>>) /\ UNCHANGED <<mem, busy>>
     ELSE ReturnFrom(t, mem)
  /\ UNCHANGED <<var, scope, retains, written>>

ByrefReleaseShared(t) ==
  LET f == Head(stack[t]) IN
  /\ InAt(t, "byrefRelease", "decrement")
  /\ mem[f.arg].count # 1 \/ mem[f.arg].dying
  /\ ReturnFrom(t, [mem EXCEPT ![f.arg].count = IF @ = 0 THEN 0 ELSE @ - 1])
  /\ UNCHANGED <<var, scope, retains, written>>

ByrefReleaseLast(t) ==
  LET f == Head(stack[t]) IN
  /\ InAt(t, "byrefRelease", "decrement")
  /\ mem[f.arg].count = 1 /\ ~mem[f.arg].dying
  /\ mem' = [mem EXCEPT ![f.arg].count = 0, ![f.arg].dying = TRUE]
  /\ Continue(t, <<[f EXCEPT !.pc = "free"]>>)
  /\ UNCHANGED <<var, busy, scope, retains, written>>

\* byref_destroy, which has nothing to give back, and free
ByrefReleaseDone(t) ==
  LET f == Head(stack[t]) IN
  /\ InAt(t, "byrefRelease", "free")
  /\ ReturnFrom(t, [mem EXCEPT ![f.arg] = FreeCell])
  /\ UNCHANGED <<var, scope, retains, written>>

-----------------------------------------------------------------------------
(* The program *)

InFrame(t) == scope = "open" /\ (t = Main \/ SharedFrame)

\* the Blocks thread t can name: the literals, and what the variables own
Source(t) ==
  [block : IF InFrame(t) THEN Literal ELSE {}, reads : {{}}]
    \cup {[block |-> var[v], reads |-> {v}] : v \in {u \in Var : var[u] # NULL}}

EmptyVars == {v \in Var : var[v] = NULL /\ \A t \in Thread : v \notin busy[t]}

Call(t, frames, used) ==
  /\ Idle(t)
  /\ stack' = [stack EXCEPT ![t] = frames]
  /\ busy' = [busy EXCEPT ![t] = used]

\* v = Block_copy(block);
CopyBlock(t) ==
  /\ \E s \in Source(t), v \in EmptyVars :
       Call(t, <<CopyFrame(s.block, ToVar(v))>>, s.reads \cup {v})
  /\ UNCHANGED <<mem, var, scope, retains, written>>

\* block() runs v = Block_copy(^{...}), which captures what block captured
CopyNested(t) ==
  /\ \E s \in Source(t), v \in EmptyVars :
       /\ mem[s.block].where # "global"
       /\ mem' = [mem EXCEPT ![Inner[t]] =
            Block("stack", "stack", 0, mem[s.block].lit, mem[s.block].fields)]
       /\ Call(t, <<CopyFrame(Inner[t], ToVar(v))>>, s.reads \cup {v})
  /\ UNCHANGED <<var, scope, retains, written>>

\* The __block variable at p is given another value: p->forwarding->x = ...
Write(p) ==
  LET b == mem[p].of
      value == 1 - written[b] IN
  /\ mem' = [mem EXCEPT ![mem[p].forwarding].val = value]
  /\ written' = [written EXCEPT ![b] = value]

\* the indices of a Block's fields that are __block variables
ByrefFields(block) ==
  {i \in DOMAIN block.fields :
     FlagsOf(block, i) \cap BLOCK_FIELD_IS_BYREF # {} /\ block.fields[i] # NULL}

\* in the declaring function, or in the body of a Block
WriteVariable(t) ==
  /\ Idle(t)
  /\ \/ InFrame(t) /\ t = Main /\ \E b \in Byref : Write(b)
     \/ \E s \in Source(t) : \E i \in ByrefFields(mem[s.block]) : Write(mem[s.block].fields[i])
  /\ UNCHANGED <<var, stack, busy, scope, retains>>

\* Block_release(v), once, when no operation under way uses v
DropBlock(t) ==
  /\ \E v \in Var :
       /\ var[v] # NULL
       /\ \A u \in Thread : v \notin busy[u]
       /\ var' = [var EXCEPT ![v] = NULL]
       /\ Call(t, <<ReleaseFrame(var[v])>>, {})
  /\ UNCHANGED <<mem, scope, retains, written>>

\* The end of the scope: _Block_object_dispose(&b, BLOCK_FIELD_IS_BYREF) for
\* each variable.  dispatch_apply has returned by then.
CloseScope ==
  /\ scope = "open"
  /\ SharedFrame => \A t \in Thread : Idle(t)
  /\ scope' = "closing"
  /\ \E order \in [1 .. Cardinality(Byref) -> Byref] :
       /\ Byref = {order[k] : k \in DOMAIN order}
       /\ Call(Main, [k \in DOMAIN order |-> ByrefReleaseFrame(order[k], "load")], {})
  /\ UNCHANGED <<mem, var, retains, written>>

\* the function returns, and its stack memory with it
LeaveFrame ==
  /\ scope = "closing"
  /\ Idle(Main)
  /\ scope' = "closed"
  /\ mem' = [a \in Addr |-> IF a \in Byref \cup Literal THEN FreeCell ELSE mem[a]]
  /\ UNCHANGED <<var, stack, busy, retains, written>>

RuntimeStep(t) ==
  \/ CopyNull(t) \/ CopyHeap(t) \/ CopyGlobal(t) \/ CopyStackFails(t) \/ CopyStack(t)
  \/ AssignInPlace(t) \/ AssignBlockOrByref(t) \/ CopyDone(t)
  \/ ByrefCopyFirst(t) \/ ByrefCopyAgain(t) \/ ByrefPublish(t) \/ ByrefPayload(t)
  \/ ByrefIncrement(t) \/ ByrefCopyReturn(t)
  \/ ReleaseNothing(t) \/ ReleaseShared(t) \/ ReleaseLast(t)
  \/ DisposeInPlace(t) \/ DisposeBlockOrByref(t) \/ ReleaseDone(t)
  \/ ByrefReleaseLoad(t) \/ ByrefReleaseShared(t) \/ ByrefReleaseLast(t) \/ ByrefReleaseDone(t)

ProgramStep(t) == CopyBlock(t) \/ CopyNested(t) \/ WriteVariable(t) \/ DropBlock(t)

Next ==
  \/ \E t \in Thread : RuntimeStep(t) \/ ProgramStep(t)
  \/ CloseScope
  \/ LeaveFrame

Spec == Init /\ [][Next]_vars

\* A thread inside the runtime keeps running; the program owes it nothing.
FairSpec == Spec /\ \A t \in Thread : WF_vars(RuntimeStep(t))

-----------------------------------------------------------------------------
(* Who owns what *)

\* <<t, k>> is the k-th call that t is in, the outermost one first.
LiveFrames == UNION {{<<t, k>> : k \in DOMAIN stack[t]} : t \in Thread}
FrameAt(p) == stack[p[1]][Len(stack[p[1]]) + 1 - p[2]]

\* The call f has yet to deal with field x: its copy helper has not come to it, the
\* field's copy is still being made, or its dispose helper is done with it.
Withholds(f, x) ==
  \/ f.fn = "copyHelper" /\ f.result = x[1] /\ f.i <= x[2]
  \/ f.fn \in {"copy", "copyHelper", "byrefCopy"} /\ f.dest = ToField(x[1], x[2])
  \/ f.fn = "disposeHelper" /\ f.arg = x[1] /\ x[2] < f.i

\* the fields of heap Blocks that the copy helper has dealt with and the dispose
\* helper has not
HelpedFields ==
  {x \in UNION {{<<a, i>> : i \in DOMAIN mem[a].fields} : a \in {h \in Heap : mem[h].kind = "block"}} :
     \A p \in LiveFrames : ~Withholds(FrameAt(p), x)}

Field(x) == mem[x[1]].fields[x[2]]
KindOf(x) == AssignKind(FlagsOf(mem[x[1]], x[2]))

\* the references a frame stands for: it is about to hand one on or drop it
FrameOwns(f, a) ==
  \/ f.fn = "copyHelper" /\ f.result = a
  \/ f.fn = "byrefCopy" /\ f.pc \in {"publish", "payload"} /\ f.copy = a
  \/ f.fn = "byrefCopy" /\ f.pc = "return" /\ mem[f.arg].forwarding = a
  \/ f.fn = "release" /\ f.arg = a
  \/ f.fn = "byrefRelease" /\ f.pc = "load" /\ mem[f.arg].forwarding = a
  \/ f.fn = "byrefRelease" /\ f.pc = "decrement" /\ f.arg = a

\* the references the stack's own __block variables stand for
StackOwns(b, a) ==
  \/ scope = "open" /\ mem[b].forwarding = a
  \/ \E p \in LiveFrames : LET f == FrameAt(p) IN
       f.fn = "byrefCopy" /\ f.pc = "publish" /\ f.arg = b /\ f.copy = a

VarOwners(a) == {v \in Var : var[v] = a}
FieldOwners(a) == {x \in HelpedFields : Field(x) = a /\ KindOf(x) \in {"block", "byref"}}
FrameOwners(a) == {p \in LiveFrames : FrameOwns(FrameAt(p), a)}
StackOwners(a) == {b \in Byref : StackOwns(b, a)}

Owners(a) ==
  Cardinality(VarOwners(a)) + Cardinality(FieldOwners(a))
    + Cardinality(FrameOwners(a)) + Cardinality(StackOwners(a))

-----------------------------------------------------------------------------
(* Properties *)

\* the Block whose fields a helper deals with
HelpedBlock(f) == IF f.fn = "copyHelper" THEN f.result ELSE f.arg

\* Every cell, variable and call is what the runtime takes it for, no object is
\* released more often than retained, and helpers nest no deeper than the captures:
\* no two of a thread's are about Blocks of one literal.
TypeOK ==
  /\ \A a \in Addr : mem[a].kind \in {"free", "block", "byref"}
  /\ \A a \in Heap : mem[a].kind = "byref" => mem[a].val \in Value \cup {Garbage}
  /\ var \in [Var -> Heap \cup {GlobalBlock, NULL}]
  /\ DOMAIN stack = Thread
  /\ \A p, q \in {r \in LiveFrames : FrameAt(r).fn \in {"copyHelper", "disposeHelper"}} :
       p[1] = q[1] /\ mem[HelpedBlock(FrameAt(p))].lit = mem[HelpedBlock(FrameAt(q))].lit => p = q
  /\ busy \in [Thread -> SUBSET Var]
  /\ scope \in {"open", "closing", "closed"}
  /\ retains \in [Object -> Nat]
  /\ written \in [Byref -> Value]

\* The count of every Block and __block variable on the heap is the number of
\* variables, fields, running calls and stack variables that hold it, in the
\* middle of any copy or release.
CountIsOwners ==
  \A a \in Heap : mem[a].kind # "free" => mem[a].count = Owners(a)

\* An object is retained once for each heap Block that captured it.
RetainsBalance ==
  \A o \in Object :
    retains[o] = Cardinality({x \in HelpedFields : Field(x) = o /\ KindOf(x) = "object"})

\* Nothing a variable, a field or a stack variable refers to was given back.
NoDangling ==
  /\ \A v \in Var : var[v] # NULL => mem[var[v]].kind = "block"
  /\ \A x \in HelpedFields :
       /\ KindOf(x) = "block" /\ Field(x) # NULL => mem[Field(x)].kind = "block"
       /\ KindOf(x) = "byref" => mem[Field(x)].kind = "byref"
  /\ \A b \in Byref : scope = "open" => mem[mem[b].forwarding].kind = "byref"

\* A Block whose isa says malloc is complete ("Set isa last"), and nothing it
\* captured is on a stack: it may outlive the function that made it.
EscapedIsSelfContained ==
  \A a \in Heap : mem[a].kind = "block" /\ mem[a].isa = "malloc" =>
    \A i \in DOMAIN mem[a].fields : mem[a].fields[i] \notin Stack

\* A __block variable has at most one copy on the heap, and the stack variable
\* forwards to it as long as the scope is open.
OneHeapCopy ==
  \A a \in Heap : mem[a].kind = "byref" /\ ~mem[a].dying =>
    /\ \A c \in Heap : mem[c].kind = "byref" /\ mem[c].of = mem[a].of /\ ~mem[c].dying => c = a
    /\ scope = "open" => StackOwns(mem[a].of, a)

\* The __block variables that the open scope or a held Block may use now: the
\* thread that is moving one does not use it in the middle.
PayloadMoving(b) ==
  \E p \in LiveFrames :
    FrameAt(p).fn = "byrefCopy" /\ FrameAt(p).pc = "payload" /\ FrameAt(p).arg = b
Accessible ==
  (IF scope = "open" THEN {b \in Byref : ~PayloadMoving(b)} ELSE {})
    \cup UNION {{mem[var[v]].fields[i] : i \in ByrefFields(mem[var[v]])} :
                  v \in {u \in Var : var[u] # NULL}}

\* Wherever it lives, a __block variable that can still be used has the value
\* last written to it, through whichever Block or scope the write went.
SharedValue ==
  \A p \in Accessible :
    /\ mem[p].kind = "byref"
    /\ LET x == mem[mem[p].forwarding] IN x.kind = "byref" /\ x.val = written[x.of]

\* os_assert(refcount) in _Block_byref_release never fires.
RefcountAsserted ==
  \A t \in Thread :
    InAt(t, "byrefRelease", "decrement") => mem[Head(stack[t]).arg].count # 0

\* "this storage is automatically recovered after last use": when the scope is
\* closed, no variable holds a Block and no call is running, the heap is empty.
StorageRecovered ==
  (scope = "closed" /\ (\A v \in Var : var[v] = NULL) /\ (\A t \in Thread : Idle(t)))
    => HeapFree = Heap /\ \A o \in Object : retains[o] = 0

\* References are accounted for: in the middle of any copy or release, however it
\* is nested and whichever malloc fails, each is somebody's, and in the end each
\* has been given back.
Accounting == CountIsOwners /\ RetainsBalance /\ StorageRecovered

\* What can be reached is there: memory is what the runtime takes it for, nothing
\* that is referred to was given back, and nothing that a finished heap Block
\* captured is on a stack.
MemorySafe == TypeOK /\ NoDangling /\ EscapedIsSelfContained

\* A __block variable is one variable: one copy on the heap, one value wherever
\* it is read, and a count that its last release finds above zero.
OneVariable == OneHeapCopy /\ SharedValue /\ RefcountAsserted

\* A stack variable that has moved to the heap stays with that copy.
ForwardingStable ==
  [][\A b \in Byref :
       mem[b].kind = "byref" /\ mem[b].forwarding # b /\ mem'[b].kind = "byref"
         => mem'[b].forwarding = mem[b].forwarding]_vars

\* Every call of the runtime returns, however deep its helpers nest.
CallsReturn == \A t \in Thread : stack[t] # <<>> ~> stack[t] = <<>>

\* Where a __block variable lives: in its copy on the heap once that holds the
\* payload, before that on the stack, in the end nowhere.
HeapHomes(b) ==
  {a \in Heap :
     /\ mem[a].kind = "byref"
     /\ mem[a].of = b
     /\ \A p \in LiveFrames :
          FrameAt(p).fn = "byrefCopy" /\ FrameAt(p).pc \in {"publish", "payload"}
            => FrameAt(p).copy # a}
CurrentValue(b) ==
  IF HeapHomes(b) # {} THEN mem[CHOOSE a \in HeapHomes(b) : TRUE].val
  ELSE IF mem[b].kind = "byref" /\ (mem[b].forwarding = b \/ PayloadMoving(b)) THEN mem[b].val
  ELSE NULL

\* the variables a literal reaches, through captured Blocks too
Reaches[l \in Literal] ==
  UNION {LET captured == Captures[l][i] IN
           IF captured.of \in Literal THEN Reaches[captured.of] ELSE {captured.of} \cap Byref :
         i \in DOMAIN Captures[l]}

Allocated ==
  INSTANCE AllocatedVariables WITH
    Uses <- Reaches,
    Gone <- NULL,
    value <- [b \in Byref |-> CurrentValue(b)],
    holds <- [v \in Var |-> IF var[v] = NULL THEN NULL ELSE mem[var[v]].lit],
    open <- scope = "open"

\* __block variables act as if they were in allocated storage: moving one to
\* the heap, in the middle of any copy, neither changes nor splits its value,
\* and its memory is not given back while a Block can still use it.
ActAsAllocated == Allocated!Spec

\* "... and this storage is automatically recovered after last use": once the
\* scope is closed and no held Block reaches the variable, it goes away.
EventuallyRecovered ==
  \A b \in Byref :
    scope = "closed" /\ ~Allocated!Used(b) ~> CurrentValue(b) = NULL

=============================================================================
