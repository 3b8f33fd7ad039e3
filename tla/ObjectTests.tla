----------------------------- MODULE ObjectTests -----------------------------
(***************************************************************************)
(* Programs of objectTests/ run on the memory and the calls of             *)
(* BlockRuntime.  A test is a sequence of operations for each thread, with *)
(* the checks the test makes; a __block variable has one of two values, or *)
(* is a pointer to a Block.  A loop runs two or three times.               *)
(***************************************************************************)
EXTENDS BlockRuntime

CONSTANTS
  Queue,                             \* the thread of a serial dispatch queue
  c,                                 \* the __block variable of a test
  counting, reading,                 \* Block literals that capture c
  plain,                             \* one that captures nothing to be kept
  importing,                         \* one that captures plain
  v1, v2, v3,                        \* copied Blocks
  mainBody, queueBody,               \* literals of the bodies the threads run
  Tests                              \* the tests to run, of Script's domain

TestLiterals == {counting, reading, plain, importing}

\* for both cfgs: what the literals capture, and where bodies keep a literal
TestCaptures ==
  [l \in TestLiterals |->
     IF l \in {counting, reading} THEN << [flags |-> BLOCK_FIELD_IS_BYREF, of |-> c] >>
     ELSE IF l = importing THEN << [flags |-> BLOCK_FIELD_IS_BLOCK, of |-> plain] >>
     ELSE <<>>]

TestInner == [t \in {Main, Queue} |-> IF t = Main THEN mainBody ELSE queueBody]

VARIABLES
  test,   \* the test that runs
  pc,     \* pc[t]: the operation t comes to next
  passed  \* no check has failed

testVars == <<test, pc, passed>>

-----------------------------------------------------------------------------
(* Operations: a Block is a literal, NULL, or the one a variable holds. *)

Copy(block, v) == [op |-> "copy", block |-> block, into |-> v]
\* the body of v's Block copies a literal with the same captures
CopyIn(v, u) == [op |-> "copyIn", block |-> v, into |-> u]
Release(v) == [op |-> "release", block |-> v]
Close == [op |-> "close"]
Leave == [op |-> "leave"]
\* c is accessed in its scope (at = c) or in the body of a Block
Set(at, x) == [op |-> "set", at |-> at, value |-> x]
Expect(at, x) == [op |-> "expect", at |-> at, value |-> x]
ExpectMoved == [op |-> "moved"]
ExpectBlock(v, block) == [op |-> "same", block |-> v, is |-> block]
Invoke(block) == [op |-> "invoke", block |-> block]
\* the Block that c points to is invoked
InvokeStored(at) == [op |-> "invokeStored", at |-> at]

-----------------------------------------------------------------------------
(* The tests *)

byrefaccess == << Set(c, 0), Set(counting, 1), Expect(c, 1) >>

byrefcopy == << Set(c, 0), Copy(counting, v1), Set(counting, 1), Expect(c, 1) >>

byrefcopycopy ==
  << Set(counting, 1),
     Copy(counting, v1), Set(v1, 0), Release(v1),
     Copy(counting, v1), Set(v1, 1), Release(v1),
     Copy(counting, v1), Set(v1, 0), Release(v1),
     Set(counting, 1), Expect(c, 1) >>

byrefcopyinner == << Copy(counting, v1), ExpectMoved >>

byrefcopyint == << Copy(counting, v1), Close, Leave, Set(v1, 1), Release(v1) >>

byrefcopystack ==
  << Copy(counting, v1), Copy(reading, v2), Close, Leave, Set(v1, 1), Expect(v2, 1) >>

copynull == << Copy(NULL, v1), ExpectBlock(v1, NULL), Release(v1) >>

globalexpression ==
  << Invoke(GlobalBlock), Copy(GlobalBlock, v1), ExpectBlock(v1, GlobalBlock), Release(v1),
     Invoke(GlobalBlock), Copy(GlobalBlock, v1), Invoke(v1) >>

blockimport == << Copy(importing, v1), Release(v1) >>

dispatch_call_Block_with_release ==
  << Copy(plain, v1), Invoke(v1), Release(v1),
     Copy(GlobalBlock, v1), Invoke(v1), Release(v1) >>

reference == << Copy(plain, v1), Invoke(v1), Release(v1) >>

simpleblock == << Invoke(plain), Copy(plain, v1), Invoke(v1), Release(v1) >>

rdar6414583 ==
  << Copy(counting, v1), Set(v1, 0), Release(v1), Copy(counting, v1), Set(v1, 1), Release(v1) >>

\* the Blocks of the queue are v1, v2 and, enqueued by the second, v3
EnqueueStuff == << Copy(counting, v1), Copy(reading, v2), Close, Leave >>
DrainQueue ==
  << Set(v1, 0), Release(v1),
     Set(v2, 1), CopyIn(v2, v3), Expect(v2, 1), Release(v2),
     Set(v3, 0), Expect(v3, 0), Release(v3) >>

recursive_test ==
  << Set(c, counting), InvokeStored(c), Invoke(reading), InvokeStored(reading),
     Copy(reading, v1), Invoke(v1), InvokeStored(v1) >>

recursiveassign == << Set(c, plain), Copy(counting, v1), Set(c, v1), InvokeStored(c), InvokeStored(v1) >>

recursive_block ==
  << Set(c, plain), Copy(counting, v1), Close, Leave, Invoke(v1), InvokeStored(v1), Release(v1) >>

Sequential(ops) == [t \in {Main, Queue} |-> IF t = Main THEN ops ELSE <<>>]

Script ==
  [byrefaccess |-> Sequential(byrefaccess), byrefcopy |-> Sequential(byrefcopy),
   byrefcopycopy |-> Sequential(byrefcopycopy), byrefcopyinner |-> Sequential(byrefcopyinner),
   byrefcopyint |-> Sequential(byrefcopyint), byrefcopystack |-> Sequential(byrefcopystack),
   copynull |-> Sequential(copynull), globalexpression |-> Sequential(globalexpression),
   blockimport |-> Sequential(blockimport), reference |-> Sequential(reference),
   dispatch_call_Block_with_release |-> Sequential(dispatch_call_Block_with_release),
   simpleblock |-> Sequential(simpleblock), rdar6414583 |-> Sequential(rdar6414583),
   dispatch_async |-> [t \in {Main, Queue} |-> IF t = Main THEN EnqueueStuff ELSE DrainQueue],
   recursive_test |-> Sequential(recursive_test),
   recursiveassign |-> Sequential(recursiveassign),
   recursive_block |-> Sequential(recursive_block)]

AllTests == DOMAIN Script

-----------------------------------------------------------------------------

BlockOf(x) == IF x \in Var THEN var[x] ELSE x
\* the queue waits for the Blocks that are enqueued
Ready(x) == x \in Var => \A t \in Thread : x \notin busy[t]
Enqueued(t, x) == t = Queue => BlockOf(x) # NULL

CellOf(at) == mem[IF at = c THEN c ELSE mem[BlockOf(at)].fields[1]].forwarding

Do(t, o) ==
  CASE o.op = "copy" ->
         /\ Call(t, <<CopyFrame(BlockOf(o.block), ToVar(o.into))>>, {o.into})
         /\ UNCHANGED <<mem, var, scope, retains, written>>
    [] o.op = "copyIn" ->
         /\ mem' = [mem EXCEPT ![Inner[t]] = Block("stack", "stack", 0,
                      mem[BlockOf(o.block)].lit, mem[BlockOf(o.block)].fields)]
         /\ Call(t, <<CopyFrame(Inner[t], ToVar(o.into))>>, {o.into})
         /\ UNCHANGED <<var, scope, retains, written>>
    [] o.op = "release" ->
         /\ Ready(o.block) /\ Enqueued(t, o.block)
         /\ var' = [var EXCEPT ![o.block] = NULL]
         /\ Call(t, <<ReleaseFrame(var[o.block])>>, {})
         /\ UNCHANGED <<mem, scope, retains, written>>
    [] o.op = "close" -> CloseScope
    [] o.op = "leave" -> LeaveFrame
    [] o.op = "set" ->
         /\ Idle(t) /\ Ready(o.at) /\ Enqueued(t, o.at)
         /\ mem' = [mem EXCEPT ![CellOf(o.at)].val = BlockOf(o.value)]
         /\ UNCHANGED <<var, stack, busy, scope, retains, written>>
    [] OTHER -> Idle(t) /\ UNCHANGED vars

Check(o) ==
  CASE o.op = "expect" -> mem[CellOf(o.at)].val = o.value
    [] o.op = "moved" -> mem[c].forwarding # c
    [] o.op = "same" -> var[o.block] = o.is
    [] o.op = "invoke" -> mem[BlockOf(o.block)].kind = "block"
    [] o.op = "invokeStored" -> mem[mem[CellOf(o.at)].val].kind = "block"
    [] OTHER -> TRUE

Operation(t) ==
  /\ pc[t] <= Len(Script[test][t])
  /\ LET o == Script[test][t][pc[t]] IN
       /\ Do(t, o)
       /\ passed' = (passed /\ Check(o))
  /\ pc' = [pc EXCEPT ![t] = @ + 1]
  /\ UNCHANGED test

TestInit ==
  /\ Init
  /\ test \in Tests
  /\ pc = [t \in Thread |-> 1]
  /\ passed = TRUE

Working(t) == RuntimeStep(t) /\ UNCHANGED testVars

TestNext == \E t \in Thread : Operation(t) \/ Working(t)

TestSpec ==
  /\ TestInit
  /\ [][TestNext]_<<vars, testVars>>
  /\ \A t \in Thread : WF_<<vars, testVars>>(Operation(t) \/ Working(t))

Ended == \A t \in Thread : pc[t] > Len(Script[test][t]) /\ Idle(t)

\* Every test ends, with its calls returned, and without a check that failed: the
\* variable has the value it was given last, through whichever Block or scope, and
\* a Block that is invoked is there.  Only recursive_block fails, for it calls a
\* Block in a frame that is gone: _Block_object_assign copies no Block that is in
\* a __block variable.
TestsPass == <>[](Ended /\ (passed <=> test # "recursive_block"))
=============================================================================
