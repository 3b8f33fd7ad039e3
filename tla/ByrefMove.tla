------------------------------ MODULE ByrefMove ------------------------------
(***************************************************************************)
(* _Block_byref_copy and _Block_byref_release of one __block variable, for *)
(* any number of threads and of heap Blocks that capture it.  Blocks are   *)
(* no more than a field here, which their copy helper fills and their      *)
(* dispose helper empties; BlockRuntime has the helpers themselves.  The   *)
(* count does not latch: LatchingCount covers 0x7fff references and more.  *)
(* Only Main copies what is on its stack; run block_apply has the others.  *)
(***************************************************************************)
EXTENDS Integers, FiniteSets

CONSTANTS
  Thread,
  Main,     \* the thread that runs the declaring function
  Holder,   \* heap Blocks that may capture the variable
  Scope,    \* the owner of the reference that is "one for stack"
  None,
  Garbage

ASSUME OwnersAssumption ==
  /\ IsFiniteSet(Holder) /\ Scope \notin Holder /\ None \notin Holder /\ None # Scope
ASSUME ThreadsAssumption == Main \in Thread

VARIABLES
  scope,       \* "open", "closing", or "closed": the function has returned
  forwarding,  \* of the variable on the stack; a heap copy's is itself
  heap,        \* the copy: "none", "live", "dying", "freed"
  copies,      \* how often it was allocated
  refcount,       \* its references
  val,         \* val[w]: the value of the variable at w
  written,     \* the value last written to it, wherever it was
  field,       \* field[h]: the variable h captured, or "none"
  pc, arg,     \* the call each thread is in, and its argument
  for,         \* the owner a call takes or drops a reference for
  using        \* the heap Block that a copy reads its argument from

callVars == <<pc, arg, for, using>>
moveVars == <<scope, forwarding, heap, copies, refcount, val, written, field, callVars>>

Where == {"stack", "heap"}
Owner == Holder \cup {Scope}

MoveInit ==
  /\ scope = "open" /\ forwarding = "stack"
  /\ heap = "none" /\ copies = 0 /\ refcount = 0
  /\ val = [w \in Where |-> IF w = "stack" THEN 0 ELSE Garbage]
  /\ written = 0
  /\ field = [h \in Holder |-> "none"]
  /\ pc = [t \in Thread |-> "idle"]
  /\ arg = [t \in Thread |-> "stack"]
  /\ for = [t \in Thread |-> None]
  /\ using = [t \in Thread |-> None]

\* w->forwarding
Forward(w) == IF w = "stack" THEN forwarding ELSE "heap"
CountAt(w) == IF w = "stack" THEN 0 ELSE refcount

Enter(t, at, w, owner, block) ==
  /\ pc[t] = "idle"
  /\ pc' = [pc EXCEPT ![t] = at]
  /\ arg' = [arg EXCEPT ![t] = w]
  /\ for' = [for EXCEPT ![t] = owner]
  /\ using' = [using EXCEPT ![t] = block]

Goto(t, at) == pc' = [pc EXCEPT ![t] = at] /\ UNCHANGED <<arg, for, using>>

Leave(t) ==
  /\ pc' = [pc EXCEPT ![t] = "idle"]
  /\ for' = [for EXCEPT ![t] = None]
  /\ using' = [using EXCEPT ![t] = None]
  /\ UNCHANGED arg

-----------------------------------------------------------------------------
(* Calls of the helpers: a Block is not released while it is copied from. *)

Unused(h) == field[h] = "none" /\ \A t \in Thread : for[t] # h

\* the declaring function copies a literal, or a literal's body one of its own
CopyInScope(h) ==
  /\ scope = "open" /\ Unused(h)
  /\ Enter(Main, "check", "stack", h, None)
  /\ UNCHANGED <<scope, forwarding, heap, copies, refcount, val, written, field>>

\* the body of a heap Block g copies a literal that captures what g captured
CopyInBlock(t, g, h) ==
  /\ field[g] # "none" /\ Unused(h)
  /\ Enter(t, "check", field[g], h, g)
  /\ UNCHANGED <<scope, forwarding, heap, copies, refcount, val, written, field>>

\* h has been released for the last time
DisposeBlock(t, h) ==
  /\ field[h] # "none" /\ \A u \in Thread : using[u] # h
  /\ Enter(t, "load", field[h], h, None)
  /\ field' = [field EXCEPT ![h] = "none"]
  /\ UNCHANGED <<scope, forwarding, heap, copies, refcount, val, written>>

CloseScope ==
  /\ scope = "open"
  /\ Enter(Main, "load", "stack", Scope, None)
  /\ scope' = "closing"
  /\ UNCHANGED <<forwarding, heap, copies, refcount, val, written, field>>

LeaveFrame ==
  /\ scope = "closing" /\ pc[Main] = "idle"
  /\ scope' = "closed"
  /\ UNCHANGED <<forwarding, heap, copies, refcount, val, written, field, callVars>>

\* p->forwarding->x = value; forwarding only changes while nobody else is there
WriteAt(w) ==
  /\ val' = [val EXCEPT ![Forward(w)] = 1 - written]
  /\ written' = 1 - written
  /\ UNCHANGED <<scope, forwarding, heap, copies, refcount, field, callVars>>

WriteInScope == scope = "open" /\ pc[Main] = "idle" /\ WriteAt("stack")
WriteInBlock(h) == field[h] # "none" /\ WriteAt(field[h])

-----------------------------------------------------------------------------
(* _Block_byref_copy *)

\* Mutant of First: the copy starts with a reference for the caller only.
FirstForCallerOnly(t) ==
  /\ pc[t] = "check" /\ CountAt(Forward(arg[t])) = 0
  /\ heap' = "live" /\ copies' = copies + 1 /\ refcount' = 1
  /\ val' = [val EXCEPT !["heap"] = Garbage]
  /\ Goto(t, "publish")
  /\ UNCHANGED <<scope, forwarding, written, field>>

\* malloc, and "one for caller, one for stack"; a second copy would take the
\* place of the first here
First(t) ==
  /\ pc[t] = "check" /\ CountAt(Forward(arg[t])) = 0
  /\ heap' = "live" /\ copies' = copies + 1 /\ refcount' = 2
  /\ val' = [val EXCEPT !["heap"] = Garbage]
  /\ Goto(t, "publish")
  /\ UNCHANGED <<scope, forwarding, written, field>>

\* src->forwarding = copy
Publish(t) ==
  /\ pc[t] = "publish"
  /\ forwarding' = IF arg[t] = "stack" THEN "heap" ELSE forwarding
  /\ Goto(t, "payload")
  /\ UNCHANGED <<scope, heap, copies, refcount, val, written, field>>

\* Mutant of Payload: a variable without helpers is not moved.
PayloadMissing(t) ==
  /\ pc[t] = "payload"
  /\ Goto(t, "return")
  /\ UNCHANGED <<scope, forwarding, heap, copies, refcount, val, written, field>>

\* byref_keep or memmove
Payload(t) ==
  /\ pc[t] = "payload"
  /\ val' = [val EXCEPT !["heap"] = val[arg[t]]]
  /\ Goto(t, "return")
  /\ UNCHANGED <<scope, forwarding, heap, copies, refcount, written, field>>

\* "already copied to heap"
Again(t) ==
  /\ pc[t] = "check" /\ CountAt(Forward(arg[t])) # 0
  /\ Goto(t, IF Forward(arg[t]) = "heap" THEN "increment" ELSE "return")
  /\ UNCHANGED <<scope, forwarding, heap, copies, refcount, val, written, field>>

Increment(t) ==
  /\ pc[t] = "increment"
  /\ refcount' = refcount + 1
  /\ Goto(t, "return")
  /\ UNCHANGED <<scope, forwarding, heap, copies, val, written, field>>

\* return src->forwarding, which the helper stores in the Block
Return(t) ==
  /\ pc[t] = "return"
  /\ field' = [field EXCEPT ![for[t]] = Forward(arg[t])]
  /\ Leave(t)
  /\ UNCHANGED <<scope, forwarding, heap, copies, refcount, val, written>>

-----------------------------------------------------------------------------
(* _Block_byref_release *)

\* byref = byref->forwarding; a variable on the stack needs no free
Load(t) ==
  /\ pc[t] = "load"
  /\ IF Forward(arg[t]) = "heap" THEN Goto(t, "decrement") ELSE Leave(t)
  /\ UNCHANGED <<scope, forwarding, heap, copies, refcount, val, written, field>>

\* latching_decr_int_should_deallocate
Shared(t) ==
  /\ pc[t] = "decrement" /\ (refcount # 1 \/ heap = "dying")
  /\ refcount' = IF refcount = 0 THEN 0 ELSE refcount - 1
  /\ Leave(t)
  /\ UNCHANGED <<scope, forwarding, heap, copies, val, written, field>>

Last(t) ==
  /\ pc[t] = "decrement" /\ refcount = 1 /\ heap # "dying"
  /\ refcount' = 0 /\ heap' = "dying"
  /\ pc' = [pc EXCEPT ![t] = "free"]
  /\ for' = [for EXCEPT ![t] = None]
  /\ UNCHANGED <<scope, forwarding, copies, val, written, field, arg, using>>

\* byref_destroy and free
FreeCopy(t) ==
  /\ pc[t] = "free"
  /\ heap' = "freed"
  /\ val' = [val EXCEPT !["heap"] = Garbage]
  /\ Leave(t)
  /\ UNCHANGED <<scope, forwarding, copies, refcount, written, field>>

-----------------------------------------------------------------------------

ProgramStep ==
  \/ \E h \in Holder : CopyInScope(h) \/ WriteInBlock(h)
  \/ \E t \in Thread, h \in Holder : DisposeBlock(t, h) \/ \E g \in Holder : CopyInBlock(t, g, h)
  \/ CloseScope \/ LeaveFrame \/ WriteInScope

RuntimeStep(t) ==
  \/ First(t) \/ Publish(t) \/ Payload(t) \/ Again(t) \/ Increment(t) \/ Return(t)
  \/ Load(t) \/ Shared(t) \/ Last(t) \/ FreeCopy(t)

MoveNext == ProgramStep \/ \E t \in Thread : RuntimeStep(t)

MoveSpec == MoveInit /\ [][MoveNext]_moveVars

-----------------------------------------------------------------------------
(* Properties *)

\* the variable is on the stack, or on its way to the heap
Unmoved == heap = "none" \/ pc[Main] \in {"publish", "payload"}

\* whose reference is counted: from the increment for an owner to the
\* decrement for it
InCall(t, o) ==
  /\ for[t] = o
  /\ \/ pc[t] \in {"publish", "payload", "return", "decrement"}
     \/ pc[t] = "load" /\ Forward(arg[t]) = "heap"

Counted(o) ==
  \/ o \in Holder /\ field[o] = "heap"
  \/ o = Scope /\ scope = "open" /\ heap # "none"
  \/ \E t \in Thread : InCall(t, o)

Owners == {o \in Owner : Counted(o)}

\* The count is the number of Blocks, calls and scopes that have a reference,
\* so that the copy is freed by the last of them and by no other.
CountIsOwners == refcount = Cardinality(Owners)

\* Nobody can come to a copy that was freed, or to a stack that is gone: not
\* through a Block, not through the scope, not in the middle of a call.
NothingDangles ==
  /\ \A h \in Holder : field[h] = "heap" => heap = "live"
  /\ \A h \in Holder : field[h] # "stack"
  /\ scope = "open" => (forwarding = "heap" => heap = "live")
  /\ \A t \in Thread :
       /\ pc[t] \in {"check", "publish", "payload", "increment", "return", "load"} =>
            /\ arg[t] = "stack" => scope # "closed"
            /\ Forward(arg[t]) = "heap" => heap = "live"
       /\ pc[t] = "decrement" => heap = "live"

\* What a read finds: through the scope or any Block, the value written last.
OneValue ==
  /\ scope = "open" /\ pc[Main] = "idle" => val[forwarding] = written
  /\ \A h \in Holder : field[h] # "none" => val[Forward(field[h])] = written

\* A __block variable moves to the heap once and is there for all who refer to
\* it, whatever the order in which Blocks and the scope let go.
VariableSafe == CountIsOwners /\ NothingDangles /\ OneValue /\ copies <= 1

\* the variable's value as the language sees it, until it is recovered
CurrentValue ==
  IF heap \in {"dying", "freed"} \/ (heap = "none" /\ scope = "closed") THEN Garbage
  ELSE IF Unmoved THEN val["stack"] ELSE val["heap"]

Allocated ==
  INSTANCE AllocatedVariables WITH
    Byref <- {Scope},
    Literal <- {Scope},
    Var <- Holder,
    Uses <- [l \in {Scope} |-> {Scope}],
    NULL <- None,
    Gone <- Garbage,
    value <- [b \in {Scope} |-> CurrentValue],
    holds <- [h \in Holder |-> IF field[h] = "none" THEN None ELSE Scope],
    open <- scope = "open"

\* "Variables qualified by __block act as if they were in allocated storage".
VariableAllocated == Allocated!Spec
=============================================================================
