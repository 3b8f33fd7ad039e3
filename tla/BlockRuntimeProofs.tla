------------------------- MODULE BlockRuntimeProofs -------------------------
(***************************************************************************)
(* What follows from the inductive invariant of BlockRuntime: its counts   *)
(* are those of the owners, nothing is kept when the program is done, and  *)
(* what can be reached is there. That helpers nest no deeper than the      *)
(* literals needs a second invariant, about the callers of a dispose       *)
(* helper; that a __block variable is one variable needs a third, about    *)
(* the copy that a call moves it to; that it acts as if it were in         *)
(* allocated storage needs two more, about where it lives and about what a *)
(* Block on the heap captured.                                             *)
(***************************************************************************)
EXTENDS BlockRuntimeInvariant

-----------------------------------------------------------------------------
(* Accounting *)

\* A finite set whose elements each have one of higher rank in it is empty.
LEMMA Ascent ==
  ASSUME NEW B, IsFiniteSet(B), NEW rank \in [B -> Nat], \A b \in B : \E c \in B : rank[b] < rank[c]
  PROVE  B = {}
<1>1. SUFFICES ASSUME B # {} PROVE FALSE
  OBVIOUS
<1>2. PICK above : above = [b \in B |-> {c \in B : rank[b] < rank[c]}]
  OBVIOUS
<1>3. ASSUME NEW b \in B
      PROVE  /\ above[b] = {c \in B : rank[b] < rank[c]}
             /\ IsFiniteSet(above[b]) /\ Cardinality(above[b]) \in Nat
  <2>1. above[b] \subseteq B /\ above[b] = {c \in B : rank[b] < rank[c]}
    BY <1>2
  <2>2. IsFiniteSet(above[b])
    BY <2>1, FS_Subset
  <2> QED BY <2>1, <2>2, FS_CardinalityType
<1>4. PICK S : S = {Cardinality(above[b]) : b \in B}
  OBVIOUS
<1>5. S \subseteq Nat /\ S # {}
  BY <1>1, <1>3, <1>4
<1>6. PICK n \in S : \A k \in S : ~(<<k, n>> \in OpToRel(<, Nat))
  BY <1>5, NatLessThanWellFounded, WFMin
<1>7. \A k \in S : ~(k < n)
  <2>1. \A k \in S : k \in Nat /\ n \in Nat
    BY <1>5
  <2> QED BY <1>6, <2>1, Zenon DEF OpToRel
<1>8. PICK b \in B : n = Cardinality(above[b])
  BY <1>4, <1>6
<1>9. PICK c \in B : rank[b] < rank[c]
  OBVIOUS
<1>10. above[c] \subseteq above[b] /\ c \in above[b] /\ c \notin above[c]
  <2>1. \A d \in B : rank[d] \in Nat
    OBVIOUS
  <2> QED BY <1>3, <1>9, <2>1
<1>11. Cardinality(above[c]) < Cardinality(above[b])
  <2>1. above[c] # above[b]
    BY <1>10
  <2>2. /\ Cardinality(above[c]) <= Cardinality(above[b])
        /\ Cardinality(above[c]) = Cardinality(above[b]) => above[c] = above[b]
    BY <1>3, <1>10, FS_Subset
  <2> QED BY <1>3, <2>1, <2>2
<1> QED BY <1>4, <1>7, <1>8, <1>11

\* With nobody else to own it, what is left on the heap is owned by a captured
\* field, of a Block of a higher rank than its own: nothing is left.
LEMMA NothingLeft ==
  ASSUME IInv, WellCaptured, scope = "closed", \A v \in Var : var[v] = NULL, \A t \in Thread : Idle(t)
  PROVE  \A a \in Heap : mem[a].kind = "free"
<1>1. CoreInv /\ FieldsInv
  BY DEF IInv
<1>2. LiveFrames = {}
  <2>1. \A t \in Thread : DOMAIN stack[t] = {}
    BY DEF Idle
  <2> QED BY <2>1 DEF LiveFrames
<1>3. ASSUME NEW a \in Heap, mem[a].kind # "free"
      PROVE  \E x \in HelpedFields : Field(x) = a /\ KindOf(x) \in {"block", "byref"}
  <2>1. ~mem[a].dying
    BY <1>1, <1>2, <1>3 DEF CoreInv, CallsInv
  <2>2. mem[a].count # 0
    BY <1>1, <1>3, <2>1 DEF CoreInv, HeapInv
  <2>3. Owners(a) # 0
    BY <1>1, <1>3, <2>2 DEF CoreInv, OwnersInv
  <2>4. VarOwners(a) = {} /\ FrameOwners(a) = {} /\ StackOwners(a) = {}
    BY <1>2, Apart DEF VarOwners, FrameOwners, StackOwners, StackOwns
  <2>5. FieldOwners(a) # {}
    BY <2>3, <2>4, FS_EmptySet DEF Owners
  <2> QED BY <2>5 DEF FieldOwners
<1>4. PICK rank \in [Literal -> Nat] : \A l \in Literal : \A i \in DOMAIN Captures[l] :
        Captures[l][i].of \in Literal => rank[Captures[l][i].of] < rank[l]
  BY DEF WellCaptured
<1>5. PICK B : B = {a \in Heap : mem[a].kind = "block"}
  OBVIOUS
<1>6. ASSUME NEW a \in B PROVE IsBlock(a) /\ mem[a].lit \in Literal
  BY <1>1, <1>5 DEF IsBlock, CoreInv, HeapInv, FreeCell, HeapBlock, HeapByref
<1>7. ASSUME NEW x \in HelpedFields
      PROVE  /\ x[1] \in B /\ x[2] \in DOMAIN Captures[mem[x[1]].lit]
             /\ FieldOk(x)
  <2>1. x[1] \in B /\ x[2] \in DOMAIN mem[x[1]].fields
    BY <1>5, HelpedShape DEF IsField, IsBlock
  <2>2. mem[x[1]] \in HeapBlock /\ Len(mem[x[1]].fields) = Len(Captures[mem[x[1]].lit])
    BY <1>1, <1>5, <2>1 DEF CoreInv, HeapInv, FreeCell, HeapByref
  <2>3. PICK l \in Literal : l = mem[x[1]].lit
    BY <1>6, <2>1
  <2>4. mem[x[1]].fields \in Seq(Pointer) /\ Captures[l] \in Seq([flags : SUBSET Bit, of : Pointer])
    BY <2>2, ProgramAssumption DEF HeapBlock
  <2>5. x[2] \in DOMAIN Captures[l]
    BY <2>1, <2>2, <2>3, <2>4
  <2> QED BY <1>1, <2>1, <2>3, <2>5 DEF FieldsInv
<1>8. PICK height \in [B -> Nat] : \A b \in B : height[b] = rank[mem[b].lit]
  <2>1. [b \in B |-> rank[mem[b].lit]] \in [B -> Nat]
    BY <1>6
  <2> QED BY <2>1
<1>9. ASSUME NEW a \in B PROVE \E c \in B : height[a] < height[c]
  <2>1. a \in Heap /\ mem[a].kind = "block"
    BY <1>5
  <2>2. PICK x \in HelpedFields : Field(x) = a /\ KindOf(x) \in {"block", "byref"}
    BY <1>3, <2>1
  <2>3. PICK c, l, i : c = x[1] /\ l = mem[c].lit /\ i = x[2]
    OBVIOUS
  <2>4. c \in B /\ l \in Literal /\ i \in DOMAIN Captures[l]
    BY <1>6, <1>7, <2>3
  <2>5. mem[a].lit = Captures[l][i].of
    <3>1. KindOf(x) # "byref"
      BY <1>7, <2>1, <2>2 DEF FieldOk, IsByref
    <3>2. Field(x) \in {GlobalBlock, NULL} \/ mem[Field(x)].lit = Captures[mem[x[1]].lit][x[2]].of
      BY <1>7, <2>2, <3>1 DEF FieldOk
    <3> QED BY <2>1, <2>2, <2>3, <3>2, Apart
  <2>6. rank[mem[a].lit] < rank[l]
    BY <1>4, <1>6, <2>4, <2>5
  <2> QED BY <1>8, <2>3, <2>4, <2>6
<1>10. B = {}
  <2>1. IsFiniteSet(B)
    <3>1. IsFiniteSet(Heap)
      BY ProgramAssumption, FS_Interval DEF Heap
    <3>2. B \subseteq Heap
      BY <1>5
    <3> QED BY <3>1, <3>2, FS_Subset
  <2> QED BY <1>9, <2>1, Ascent
<1>11. HelpedFields = {}
  BY <1>7, <1>10
<1> QED BY <1>3, <1>11

LEMMA AccountingFollows ==
  ASSUME IInv, WellCaptured
  PROVE  Accounting
<1>1. CountIsOwners
  BY DEF CountIsOwners, IInv, CoreInv, OwnersInv
<1>2. RetainsBalance
  BY DEF RetainsBalance, IInv, RetainsInv, ObjectFields
<1>3. StorageRecovered
  <2>1. SUFFICES ASSUME scope = "closed", \A v \in Var : var[v] = NULL, \A t \in Thread : Idle(t)
                 PROVE  HeapFree = Heap /\ \A o \in Object : retains[o] = 0
    BY DEF StorageRecovered
  <2>2. \A a \in Heap : mem[a].kind = "free"
    BY <2>1, NothingLeft
  <2>3. HelpedFields = {}
    BY <2>2, HelpedShape DEF IsField, IsBlock
  <2>4. \A o \in Object : ObjectFields(o) = {}
    BY <2>3 DEF ObjectFields
  <2> QED BY <2>2, <2>4, FS_EmptySet DEF HeapFree, IInv, RetainsInv
<1> QED BY <1>1, <1>2, <1>3 DEF Accounting

\* In the middle of any copy or release, however it is nested and whichever malloc
\* fails, the count of what is on the heap is the number of its owners, an object is
\* retained as often as it is captured, and in the end the heap is empty.
THEOREM ReferencesAreAccounted == ~SharedFrame /\ WellCaptured => (Spec => []Accounting)
<1>1. SUFFICES ASSUME ~SharedFrame, WellCaptured PROVE Spec => []Accounting
  OBVIOUS
<1>2. IInv => Accounting
  BY <1>1, AccountingFollows
<1>3. Spec => []IInv
  BY <1>1, InvariantHolds
<1> QED BY <1>2, <1>3, PTL

-----------------------------------------------------------------------------
(* The helpers of a thread *)

\* The block that the call p releases was captured by the one its caller disposes of.
NestOk(p) ==
  LET f == FrameAt(p)   g == FrameAt(<<p[1], p[2] - 1>>) IN
  f.fn \in {"release", "disposeHelper"} /\ p[2] > 1 =>
    /\ g.fn = "disposeHelper" /\ g.i > 1
    /\ f.arg \notin {NULL, GlobalBlock} => mem[f.arg].lit = Captures[mem[g.arg].lit][g.i - 1].of

NestInv == \A p \in LiveFrames : NestOk(p)

\* What a Block captured is on no stack, to the end of its disposal.
Detached(a) == \A i \in DOMAIN mem[a].fields : mem[a].fields[i] \notin Stack

DyingInv == \A a \in Heap : mem[a].kind = "block" /\ mem[a].dying => Detached(a)

\* A step of t that makes or changes no call of _Block_release or a dispose helper
NoRelease(t) == \A p \in Changed(t) : FrameAt(p)'.fn \notin {"release", "disposeHelper"}

\* ... or of _Block_copy
NoCopy(t) == \A p \in Changed(t) : FrameAt(p)'.fn # "copy"

\* The calls that a step of t makes
LEMMA NewCalls ==
  ASSUME CallsInv, CallsInv', NEW t \in Thread, ~Idle(t), NEW P, P = Top(t)
  PROVE  /\ Continue(t, <<>>) => Changed(t) = {}
         /\ \A g : Continue(t, <<g>>) => Changed(t) = {P} /\ FrameAt(P)' = g
         /\ \A g, h : Continue(t, <<g, h>>) =>
              \E Q : /\ Changed(t) = {P, Q} /\ FrameAt(P)' = h /\ FrameAt(Q)' = g
                     /\ Q # P /\ P = <<Q[1], Q[2] - 1>> /\ Q[2] > 1
<1>1. stack \in [Thread -> Seq(Frame)] /\ stack' \in [Thread -> Seq(Frame)]
  BY DEF CallsInv
<1>2. PICK s \in Seq(Frame), r \in Seq(Frame) : s = stack[t] /\ r = stack'[t] /\ s # <<>>
  BY <1>1 DEF Idle
<1>3. \A fs : Continue(t, fs) => r = fs \o Tail(s)
  BY <1>1, <1>2 DEF Continue
<1>4. Continue(t, <<>>) => Changed(t) = {}
  <2>1. SUFFICES ASSUME Continue(t, <<>>) PROVE Changed(t) = {}
    OBVIOUS
  <2>2. LiveFrames' = LiveFrames \ {P}
    BY <2>1, Popped
  <2> QED BY <2>2 DEF Changed
<1>5. ASSUME NEW g, Continue(t, <<g>>) PROVE Changed(t) = {P} /\ FrameAt(P)' = g
  <2>1. g \in Frame
    <3>1. r = <<g>> \o Tail(s)
      BY <1>3, <1>5
    <3>2. Tail(s) \in Seq(Frame) /\ Tail(s) \in Seq(Frame \cup {g}) /\ <<g>> \in Seq(Frame \cup {g})
      BY <1>2
    <3>3. r[1] = g /\ Len(r) >= 1
      BY <3>1, <3>2
    <3> QED BY <1>2, <3>3
  <2>2. LiveFrames' = LiveFrames /\ FrameAt(P)' = g
    BY <1>5, <2>1, Replaced
  <2>3. P \in LiveFrames
    BY TopFrame
  <2> QED BY <2>2, <2>3 DEF Changed
<1>6. ASSUME NEW g, NEW h, Continue(t, <<g, h>>)
      PROVE  \E Q : /\ Changed(t) = {P, Q} /\ FrameAt(P)' = h /\ FrameAt(Q)' = g
                    /\ Q # P /\ P = <<Q[1], Q[2] - 1>> /\ Q[2] > 1
  <2>1. g \in Frame /\ h \in Frame
    <3>1. r = <<g, h>> \o Tail(s)
      BY <1>3, <1>6
    <3>2. Tail(s) \in Seq(Frame) /\ Tail(s) \in Seq(Frame \cup {g, h}) /\ <<g, h>> \in Seq(Frame \cup {g, h})
      BY <1>2
    <3>3. r[1] = g /\ r[2] = h /\ Len(r) >= 2
      BY <3>1, <3>2
    <3> QED BY <1>2, <3>3
  <2>2. PICK Q : Q = <<t, Len(stack[t]) + 1>>
    OBVIOUS
  <2>3. LiveFrames' = LiveFrames \cup {Q} /\ Q \notin LiveFrames /\ FrameAt(P)' = h /\ FrameAt(Q)' = g
    BY <1>6, <2>1, <2>2, Pushed
  <2>4. P \in LiveFrames /\ P[1] = t /\ P[2] = Len(stack[t]) /\ Len(stack[t]) \in Nat \ {0}
    BY TopFrame
  <2>5. P = <<Q[1], Q[2] - 1>> /\ Q[2] > 1
    BY <2>2, <2>4 DEF Top
  <2> QED BY <2>3, <2>4, <2>5 DEF Changed
<1> QED BY <1>4, <1>5, <1>6

LEMMA NewCall ==
  ASSUME CoreInv, CoreInv', NEW t \in Thread, NEW g, NEW used, Call(t, <<g>>, used),
         NEW Q, Q = <<t, 1>>
  PROVE  Idle(t) /\ Changed(t) = {Q} /\ FrameAt(Q)' = g
<1>1. stack \in [Thread -> Seq(Frame)] /\ stack' \in [Thread -> Seq(Frame)]
  BY DEF CoreInv, CallsInv
<1>2. stack'[t] = <<g>> /\ busy' = [busy EXCEPT ![t] = used]
  BY <1>1 DEF Call
<1>3. g \in Frame
  <2>1. PICK q \in Seq(Frame) : q = <<g>>
    BY <1>1, <1>2
  <2>2. q[1] = g /\ Len(q) = 1
    BY <2>1
  <2> QED BY <2>1, <2>2
<1>4. used \in SUBSET Var
  <2>1. busy \in [Thread -> SUBSET Var] /\ busy' \in [Thread -> SUBSET Var]
    BY DEF CoreInv, ProgramInv
  <2> QED BY <1>2, <2>1
<1> QED BY <1>3, <1>4, Called

\* A call that returns leaves the others as they are.
LEMMA QuietReturns ==
  ASSUME IInv, IInv', NEW t \in Thread,
         \/ CopyNull(t) \/ CopyHeap(t) \/ CopyGlobal(t) \/ CopyStackFails(t) \/ CopyDone(t)
         \/ ByrefCopyReturn(t) \/ ReleaseNothing(t) \/ ReleaseShared(t) \/ ReleaseDone(t)
         \/ ByrefReleaseShared(t) \/ ByrefReleaseDone(t)
  PROVE  NoRelease(t) /\ NoCopy(t)
<1>1. ~Idle(t)
  BY Zenon DEF CopyNull, CopyHeap, CopyGlobal, CopyStackFails, CopyDone, ByrefCopyReturn, ReleaseNothing,
               ReleaseShared, ReleaseDone, ByrefReleaseShared, ByrefReleaseDone, InAt, In, Idle
<1>2. \A d, r, m : Return(t, m, d, r) => Continue(t, <<>>)
  BY Zenon DEF Return, ReturnFrom
<1>3. \A m : ReturnFrom(t, m) => Continue(t, <<>>)
  BY Zenon DEF ReturnFrom
<1>4. CASE CopyNull(t) \/ CopyHeap(t) \/ CopyGlobal(t) \/ CopyStackFails(t) \/ CopyDone(t) \/ ByrefCopyReturn(t)
  <2>1. \E d, r, m : Return(t, m, d, r)
    BY Zenon, <1>4 DEF CopyNull, CopyHeap, CopyGlobal, CopyStackFails, CopyDone, ByrefCopyReturn
  <2>2. Continue(t, <<>>)
    BY Zenon, <1>2, <2>1
  <2> QED BY <1>1, <2>2, NewCalls DEF NoRelease, NoCopy, IInv, CoreInv
<1>5. CASE ReleaseNothing(t) \/ ReleaseShared(t) \/ ReleaseDone(t) \/ ByrefReleaseShared(t) \/ ByrefReleaseDone(t)
  <2>1. \E m : ReturnFrom(t, m)
    BY Zenon, <1>5 DEF ReleaseNothing, ReleaseShared, ReleaseDone, ByrefReleaseShared, ByrefReleaseDone
  <2>2. Continue(t, <<>>)
    BY Zenon, <1>3, <2>1
  <2> QED BY <1>1, <2>2, NewCalls DEF NoRelease, NoCopy, IInv, CoreInv
<1> QED BY <1>4, <1>5

LEMMA QuietGoesOn ==
  ASSUME IInv, IInv', NEW t \in Thread,
         \/ CopyStack(t) \/ AssignInPlace(t) \/ AssignBlockOrByref(t)
         \/ ByrefCopyFirst(t) \/ ByrefCopyAgain(t) \/ ByrefPublish(t) \/ ByrefPayload(t)
         \/ ByrefIncrement(t) \/ ByrefReleaseLoad(t) \/ ByrefReleaseLast(t)
  PROVE  NoRelease(t) /\ (NoCopy(t) \/ AssignBlockOrByref(t))
<1>1. ~Idle(t)
  BY Zenon DEF CopyStack, AssignInPlace, AssignBlockOrByref, ByrefCopyFirst, ByrefCopyAgain, ByrefPublish,
               ByrefPayload, ByrefIncrement, ByrefReleaseLoad, ByrefReleaseLast, InAt, In, Idle
<1>2. PICK f, P : f = Head(stack[t]) /\ P = Top(t)
  BY Zenon
<1>3. f \in Frame /\ CallsInv /\ CallsInv'
  BY <1>1, <1>2, Running DEF IInv, CoreInv
<1>4. \A g : Continue(t, <<g>>) /\ g.fn \notin {"release", "disposeHelper", "copy"} => NoRelease(t) /\ NoCopy(t)
  BY <1>1, <1>2, <1>3, NewCalls DEF NoRelease, NoCopy
<1>5. \A g, h : Continue(t, <<g, h>>) /\ g.fn \notin {"release", "disposeHelper"}
                  /\ h.fn \notin {"release", "disposeHelper"} => NoRelease(t)
  BY <1>1, <1>2, <1>3, NewCalls DEF NoRelease
<1>6. CASE CopyStack(t)
  BY <1>2, <1>4, <1>6 DEF CopyStack, CopyHelperFrame
<1>7. CASE AssignInPlace(t)
  <2>1. f.fn = "copyHelper" /\ Continue(t, <<[f EXCEPT !.i = @ + 1]>>)
    BY Zenon, <1>2, <1>7 DEF AssignInPlace, In
  <2>2. [f EXCEPT !.i = @ + 1].fn = "copyHelper"
    BY <1>3, <2>1 DEF Frame
  <2> QED BY <1>4, <2>1, <2>2
<1>8. CASE AssignBlockOrByref(t)
  <2>1. PICK kind, d, call : /\ kind = AssignKind(FlagsOf(mem[f.arg], f.i)) /\ d = ToField(f.result, f.i)
                             /\ call = [block |-> CopyFrame(mem[f.arg].fields[f.i], d),
                                        byref |-> ByrefCopyFrame(mem[f.arg].fields[f.i], d, "check", NULL)]
    BY Zenon
  <2>2. f.fn = "copyHelper" /\ Continue(t, <<call[kind], [f EXCEPT !.i = @ + 1]>>) /\ kind \in {"block", "byref"}
    BY Zenon, <1>2, <1>8, <2>1 DEF AssignBlockOrByref, In
  <2>3. [f EXCEPT !.i = @ + 1].fn = "copyHelper"
    BY <1>3, <2>2 DEF Frame
  <2>4. call[kind].fn \in {"copy", "byrefCopy"}
    BY <2>1, <2>2 DEF CopyFrame, ByrefCopyFrame
  <2> QED BY <1>5, <1>8, <2>2, <2>3, <2>4
<1>9. CASE ByrefCopyFirst(t)
  <2>1. f.fn = "byrefCopy" /\ Continue(t, <<[f EXCEPT !.pc = "publish", !.copy = Malloc]>>)
    BY Zenon, <1>2, <1>9 DEF ByrefCopyFirst, InAt, In
  <2>2. [f EXCEPT !.pc = "publish", !.copy = Malloc].fn = "byrefCopy"
    BY <1>3, <2>1 DEF Frame
  <2> QED BY <1>4, <2>1, <2>2
<1>10. CASE ByrefCopyAgain(t) \/ ByrefPublish(t) \/ ByrefPayload(t) \/ ByrefIncrement(t)
  <2>1. f.fn = "byrefCopy" /\ \E pc : Continue(t, <<[f EXCEPT !.pc = pc]>>)
    BY Zenon, <1>2, <1>10 DEF ByrefCopyAgain, ByrefPublish, ByrefPayload, ByrefIncrement, InAt, In
  <2>2. PICK pc : Continue(t, <<[f EXCEPT !.pc = pc]>>)
    BY <2>1
  <2>3. [f EXCEPT !.pc = pc].fn = "byrefCopy"
    BY <1>3, <2>1 DEF Frame
  <2> QED BY <1>4, <2>2, <2>3
<1>11. CASE ByrefReleaseLast(t)
  <2>1. f.fn = "byrefRelease" /\ Continue(t, <<[f EXCEPT !.pc = "free"]>>)
    BY Zenon, <1>2, <1>11 DEF ByrefReleaseLast, InAt, In
  <2>2. [f EXCEPT !.pc = "free"].fn = "byrefRelease"
    BY <1>3, <2>1 DEF Frame
  <2> QED BY <1>4, <2>1, <2>2
<1>12. CASE ByrefReleaseLoad(t)
  <2>1. Continue(t, <<>>) \/ Continue(t, <<ByrefReleaseFrame(mem[f.arg].forwarding, "decrement")>>)
    BY Zenon, <1>2, <1>12 DEF ByrefReleaseLoad, ReturnFrom
  <2>2. Continue(t, <<>>) => NoRelease(t) /\ NoCopy(t)
    BY <1>1, <1>2, <1>3, NewCalls DEF NoRelease, NoCopy
  <2> QED BY <1>4, <2>1, <2>2 DEF ByrefReleaseFrame
<1> QED BY Zenon, <1>6, <1>7, <1>8, <1>9, <1>10, <1>11, <1>12

LEMMA QuietProgram ==
  ASSUME IInv, IInv', NEW t \in Thread, CopyBlock(t) \/ CopyNested(t) \/ WriteVariable(t)
  PROVE  NoRelease(t) /\ (WriteVariable(t) => NoCopy(t))
<1>1. CoreInv /\ CoreInv'
  BY DEF IInv
<1>2. PICK Q : Q = <<t, 1>>
  BY Zenon
<1>3. ASSUME CopyBlock(t) \/ CopyNested(t) PROVE NoRelease(t)
  <2>1. PICK a, d, used : Call(t, <<CopyFrame(a, d)>>, used)
    BY Zenon, <1>3 DEF CopyBlock, CopyNested
  <2>2. Changed(t) = {Q} /\ FrameAt(Q)' = CopyFrame(a, d)
    BY <1>1, <1>2, <2>1, NewCall
  <2> QED BY <2>2 DEF NoRelease, CopyFrame
<1>4. ASSUME WriteVariable(t) PROVE NoRelease(t) /\ NoCopy(t)
  <2>1. stack' = stack /\ Idle(t)
    BY <1>4 DEF WriteVariable
  <2>2. LiveFrames' = LiveFrames
    BY <2>1 DEF LiveFrames
  <2>3. Top(t) \notin LiveFrames
    <3>1. \A p \in LiveFrames : p[2] \in 1 .. Len(stack[p[1]])
      BY <1>1, LiveShape DEF CoreInv
    <3>2. Top(t)[1] = t /\ Top(t)[2] = 0
      BY <2>1 DEF Top, Idle
    <3>3. Len(stack[t]) = 0
      BY <2>1 DEF Idle
    <3> QED BY <3>1, <3>2, <3>3
  <2> QED BY <2>2, <2>3 DEF Changed, NoRelease, NoCopy
<1> QED BY <1>3, <1>4

\* A call of _Block_release or a dispose helper goes on with the same Block.
LEMMA NestGoesOn ==
  ASSUME CoreInv, NEW t \in Thread, StepKept(t), NEW p \in LiveFrames, NestOk(p),
         NEW f, f = FrameAt(p), f.fn \in {"release", "disposeHelper"}, FrameAt(p)'.arg = f.arg,
         f.arg \notin {NULL, GlobalBlock} => mem'[f.arg].lit = mem[f.arg].lit
  PROVE  NestOk(p)'
<1>1. CASE ~(p[2] > 1)
  BY <1>1 DEF NestOk
<1>2. CASE p[2] > 1
  <2>1. /\ p = <<p[1], p[2]>> /\ p[1] \in Thread /\ p[2] \in 1 .. Len(stack[p[1]])
        /\ Len(stack[p[1]]) \in Nat
    BY LiveShape DEF CoreInv, CallsInv
  <2>2. PICK q : q = <<p[1], p[2] - 1>>
    OBVIOUS
  <2>3. q = <<q[1], q[2]>> /\ q[1] = p[1] /\ q[2] = p[2] - 1 /\ q[2] \in 1 .. Len(stack[q[1]])
    BY <1>2, <2>1, <2>2
  <2>4. q \in LiveFrames
    BY <2>1, <2>3, LiveShape DEF CoreInv
  <2>5. q # Top(t)
    <3>1. q[1] = t => q[2] # Len(stack[t])
      BY <2>1, <2>3
    <3> QED BY <3>1 DEF Top
  <2>6. PICK g : g = FrameAt(q)
    OBVIOUS
  <2>7. /\ g.fn = "disposeHelper" /\ g.i > 1
        /\ f.arg \notin {NULL, GlobalBlock} => mem[f.arg].lit = Captures[mem[g.arg].lit][g.i - 1].of
    BY <1>2, <2>2, <2>6 DEF NestOk
  <2>8. FrameAt(q)' = g
    BY <2>4, <2>5, <2>6 DEF StepKept, CallsKept
  <2>9. mem'[g.arg] = mem[g.arg]
    <3>1. Disposes(g, g.arg)
      BY <2>7 DEF Disposes
    <3> QED BY <2>4, <2>5, <2>6, <3>1 DEF StepKept, MemKept
  <2> QED BY <2>2, <2>7, <2>8, <2>9 DEF NestOk
<1>3. p[2] \in Nat
  BY LiveShape DEF CoreInv
<1> QED BY <1>1, <1>2

LEMMA NestKept ==
  ASSUME CoreInv, NEW t \in Thread, StepKept(t), NEW p \in LiveFrames, p # Top(t), NestOk(p)
  PROVE  NestOk(p)'
<1>1. PICK f : f = FrameAt(p)
  OBVIOUS
<1>2. FrameAt(p)' = f
  BY <1>1 DEF StepKept, CallsKept
<1>3. CASE f.fn \notin {"release", "disposeHelper"}
  BY <1>2, <1>3 DEF NestOk
<1>4. CASE f.fn \in {"release", "disposeHelper"}
  <2>1. ReleaseInv(p)
    BY DEF CoreInv, CallsInv, FrameInv
  <2>2. CASE f.fn = "disposeHelper"
    <3>1. Disposes(f, f.arg)
      BY <2>2 DEF Disposes
    <3>2. mem'[f.arg] = mem[f.arg]
      BY <1>1, <3>1 DEF StepKept, MemKept
    <3> QED BY <1>1, <1>2, <1>4, <3>2, NestGoesOn
  <2>3. CASE f.fn = "release"
    <3>1. ASSUME f.arg \notin {NULL, GlobalBlock} PROVE mem'[f.arg].lit = mem[f.arg].lit
      <4>1. PICK a : a = f.arg
        OBVIOUS
      <4>2. IsBlock(a)
        BY <1>1, <2>1, <2>3, <3>1, <4>1 DEF ReleaseInv
      <4>3. FrameOwns(FrameAt(p), a) /\ ~Builds(FrameAt(p), a)
        BY <1>1, <2>3, <4>1 DEF FrameOwns, Builds
      <4>4. Whole(a)
        BY <4>2, <4>3, SharedIsWhole DEF CoreInv
      <4>5. CellKept(a)
        BY <4>2, <4>4 DEF Whole, IsBlock, StepKept, MemKept
      <4> QED BY <4>1, <4>2, <4>5 DEF CellKept, IsBlock
    <3> QED BY <1>1, <1>2, <1>4, <3>1, NestGoesOn
  <2> QED BY <1>4, <2>2, <2>3
<1> QED BY <1>3, <1>4

\* What the new and changed calls of a step have to be.
LEMMA NestingKept ==
  ASSUME CoreInv, CoreInv', NestInv, DyingInv, NEW t \in Thread, StepKept(t),
         \A p \in Changed(t) : NestOk(p)',
         \A p \in Changed(t) : FrameAt(p)'.fn = "disposeHelper" => Detached(FrameAt(p).arg)'
  PROVE  NestInv' /\ DyingInv'
<1>1. ASSUME NEW p \in LiveFrames', p \notin Changed(t) PROVE p \in LiveFrames /\ p # Top(t)
  BY <1>1 DEF Changed
<1>2. ASSUME NEW p \in LiveFrames' PROVE NestOk(p)'
  <2>1. CASE p \in Changed(t)
    BY <2>1
  <2>2. CASE p \notin Changed(t)
    BY <1>1, <2>2, NestKept DEF NestInv
  <2> QED BY <2>1, <2>2
<1>3. ASSUME NEW a \in Heap, mem'[a].kind = "block" /\ mem'[a].dying PROVE Detached(a)'
  <2>1. PICK p \in LiveFrames' : Disposes(FrameAt(p), a)'
    BY <1>3 DEF CoreInv, CallsInv
  <2>2. PICK f : f = FrameAt(p)'
    OBVIOUS
  <2>3. f.fn = "disposeHelper" /\ f.arg = a
    <3>1. ReleaseInv(p)'
      BY DEF CoreInv, CallsInv, FrameInv
    <3>2. f.fn = "byrefRelease" /\ f.arg = a => a \in Byref \/ mem'[a].kind = "byref"
      BY <2>2, <3>1 DEF ReleaseInv, IsByref
    <3> QED BY <1>3, <2>1, <2>2, <3>2, Apart DEF Disposes
  <2>4. CASE p \in Changed(t)
    BY <2>2, <2>3, <2>4
  <2>5. CASE p \notin Changed(t)
    <3>1. p \in LiveFrames /\ p # Top(t)
      BY <1>1, <2>5
    <3>2. FrameAt(p) = f
      BY <2>2, <3>1 DEF StepKept, CallsKept
    <3>3. mem'[a] = mem[a]
      <4>1. Disposes(FrameAt(p), FrameAt(p).arg) /\ FrameAt(p).arg = a
        BY <2>3, <3>2 DEF Disposes
      <4> QED BY <3>1, <4>1 DEF StepKept, MemKept
    <3>4. Detached(a)
      BY <1>3, <3>3 DEF DyingInv
    <3> QED BY <3>3, <3>4 DEF Detached
  <2> QED BY <2>4, <2>5
<1> QED BY <1>2, <1>3 DEF NestInv, DyingInv

LEMMA QuietKeepsNesting ==
  ASSUME CoreInv, CoreInv', NestInv, DyingInv, NEW t \in Thread, StepKept(t), NoRelease(t)
  PROVE  NestInv' /\ DyingInv'
<1>1. ASSUME NEW p \in Changed(t)
      PROVE  NestOk(p)' /\ FrameAt(p)'.fn # "disposeHelper"
  BY <1>1 DEF NoRelease, NestOk
<1> QED BY <1>1, NestingKept

LEMMA WholeIsDetached ==
  ASSUME FieldsInv, NEW a, Whole(a)
  PROVE  Detached(a)
<1>1. ASSUME NEW i \in DOMAIN mem[a].fields PROVE mem[a].fields[i] \notin Stack
  <2>1. PICK x : x = <<a, i>>
    OBVIOUS
  <2>2. FieldOk(x) /\ Field(x) = mem[a].fields[i]
    BY <2>1 DEF Whole, FieldsInv, Field
  <2> QED BY <2>2 DEF FieldOk
<1> QED BY <1>1 DEF Detached

LEMMA ReleaseLastNests ==
  ASSUME IInv, IInv', NestInv, DyingInv, NEW t \in Thread, StepKept(t), ReleaseLast(t)
  PROVE  NestInv' /\ DyingInv'
<1>1. PICK f, P, c : f = Head(stack[t]) /\ P = Top(t) /\ c = f.arg
  BY Zenon
<1>2. /\ f.fn = "release" /\ ~Idle(t) /\ c # NULL /\ mem[c].where = "heap" /\ ~mem[c].dying
      /\ Continue(t, <<DisposeHelperFrame(c, 1)>>)
  BY Zenon, <1>1 DEF ReleaseLast, In, Idle
<1>3. /\ FrameAt(P) = f /\ P \in LiveFrames /\ CoreInv /\ CoreInv' /\ ReleaseInv(P) /\ FieldsInv
  BY <1>1, <1>2, Running DEF IInv, FrameInv
<1>4. IsBlock(c) /\ c \in Heap
  BY <1>1, <1>2, <1>3, HeapCellWhere DEF ReleaseInv, IsBlock
<1>5. Detached(c)
  <2>1. FrameOwns(FrameAt(P), c) /\ ~Builds(FrameAt(P), c)
    BY <1>1, <1>2, <1>3 DEF FrameOwns, Builds
  <2>2. Whole(c)
    BY <1>3, <1>4, <2>1, SharedIsWhole DEF CoreInv
  <2> QED BY <1>3, <2>2, WholeIsDetached
<1>6. Changed(t) = {P} /\ FrameAt(P)' = DisposeHelperFrame(c, 1)
  BY <1>1, <1>2, <1>3, NewCalls DEF CoreInv
<1>7. mem'[c].lit = mem[c].lit /\ mem'[c].fields = mem[c].fields
  <2>1. mem' = [mem EXCEPT ![c] = [[mem[c] EXCEPT !.count = 0] EXCEPT !.dying = TRUE]]
    BY <1>1 DEF ReleaseLast
  <2>2. c \in Addr /\ mem = [a \in Addr |-> mem[a]]
    BY <1>3, <1>4 DEF Addr, CoreInv, StackInv
  <2>3. mem'[c] = [[mem[c] EXCEPT !.count = 0] EXCEPT !.dying = TRUE]
    BY <2>1, <2>2
  <2>4. mem[c] \in HeapBlock
    BY <1>3, <1>4 DEF CoreInv, HeapInv, HeapByref, FreeCell, IsBlock
  <2> QED BY <2>3, <2>4 DEF HeapBlock
<1>8. NestOk(P)'
  <2>1. FrameAt(P)'.arg = c
    BY <1>6 DEF DisposeHelperFrame
  <2>2. NestOk(P)
    BY <1>3 DEF NestInv
  <2> QED BY <1>1, <1>2, <1>3, <1>7, <2>1, <2>2, NestGoesOn
<1>9. Detached(FrameAt(P).arg)'
  <2>1. FrameAt(P)'.arg = c
    BY <1>6 DEF DisposeHelperFrame
  <2> QED BY <1>5, <1>7, <2>1 DEF Detached
<1> QED BY <1>3, <1>6, <1>8, <1>9, NestingKept

LEMMA DisposeInPlaceNests ==
  ASSUME IInv, IInv', NestInv, DyingInv, NEW t \in Thread, StepKept(t), DisposeInPlace(t)
  PROVE  NestInv' /\ DyingInv'
<1>1. PICK f, P, r : f = Head(stack[t]) /\ P = Top(t) /\ r = f.arg
  BY Zenon
<1>2. /\ f.fn = "disposeHelper" /\ ~Idle(t) /\ mem' = mem /\ Continue(t, <<[f EXCEPT !.i = @ + 1]>>)
  BY Zenon, <1>1 DEF DisposeInPlace, In, Idle
<1>3. /\ FrameAt(P) = f /\ f \in Frame /\ P \in LiveFrames /\ CoreInv /\ CoreInv' /\ ReleaseInv(P)
  BY <1>1, <1>2, Running DEF IInv, FrameInv
<1>4. PICK g : g = [f EXCEPT !.i = @ + 1]
  BY Zenon
<1>5. g.arg = r
  BY <1>1, <1>2, <1>3, <1>4 DEF Frame
<1>6. Changed(t) = {P} /\ FrameAt(P)' = g
  BY <1>1, <1>2, <1>3, <1>4, NewCalls DEF CoreInv
<1>7. NestOk(P)'
  <2>1. NestOk(P) /\ FrameAt(P)'.arg = f.arg
    BY <1>1, <1>3, <1>5, <1>6 DEF NestInv
  <2> QED BY <1>2, <1>3, <2>1, NestGoesOn
<1>8. Detached(FrameAt(P).arg)'
  <2>1. Detached(r)
    BY <1>1, <1>2, <1>3 DEF ReleaseInv, IsBlock, DyingInv
  <2> QED BY <1>2, <1>5, <1>6, <2>1 DEF Detached
<1> QED BY <1>3, <1>6, <1>7, <1>8, NestingKept

LEMMA DisposeBlockOrByrefNests ==
  ASSUME IInv, IInv', NestInv, DyingInv, NEW t \in Thread, StepKept(t), DisposeBlockOrByref(t)
  PROVE  NestInv' /\ DyingInv'
<1>1. PICK f, P, r, i : f = Head(stack[t]) /\ P = Top(t) /\ r = f.arg /\ i = f.i
  BY Zenon
<1>2. f.fn = "disposeHelper" /\ ~Idle(t) /\ i <= Len(mem[r].fields) /\ mem' = mem
  BY Zenon, <1>1 DEF DisposeBlockOrByref, In, Idle
<1>3. /\ FrameAt(P) = f /\ f \in Frame /\ P \in LiveFrames /\ CoreInv /\ CoreInv' /\ ReleaseInv(P)
      /\ FieldsInv
  BY <1>1, <1>2, Running DEF IInv, FrameInv
<1>4. r \in Heap /\ IsBlock(r) /\ mem[r].dying /\ i \in Nat /\ i >= 1
  <2>1. f.i \in Nat /\ f.arg \in Heap
    BY <1>2, <1>3, FrameShape
  <2>2. PICK n : n = Len(mem[r].fields)
    BY Zenon
  <2>3. IsBlock(r) /\ mem[r].dying /\ i \in 1 .. n + 1
    BY <1>1, <1>2, <1>3, <2>2 DEF ReleaseInv
  <2> QED BY <1>1, <2>1, <2>3
<1>5. PICK h : h = [f EXCEPT !.i = @ + 1]
  BY Zenon
<1>6. h.arg = r /\ h.fn = "disposeHelper" /\ h.i = i + 1
  <2>1. f \in [fn : {"disposeHelper"}, arg : Heap, i : Nat]
    BY <1>2, <1>3 DEF Frame
  <2> QED BY <1>1, <1>5, <2>1
<1>7. PICK v, kind, x : v = mem[r].fields[i] /\ kind = AssignKind(FlagsOf(mem[r], i)) /\ x = <<r, i>>
  BY Zenon
<1>8. PICK g : /\ Continue(t, <<g, h>>)
               /\ kind = "block" => g = ReleaseFrame(v)
               /\ kind # "block" => g.fn = "byrefRelease"
  <2>1. PICK k, call : /\ k = DisposeKind(FlagsOf(mem[r], i))
                       /\ call = [block |-> ReleaseFrame(v), byref |-> ByrefReleaseFrame(v, "load")]
    BY Zenon
  <2>2. k \in {"block", "byref"} /\ Continue(t, <<call[k], h>>)
    BY Zenon, <1>1, <1>5, <1>7, <2>1 DEF DisposeBlockOrByref
  <2>3. k = IF kind \in {"object", "block", "byref"} THEN kind ELSE "nothing"
    BY <1>7, <2>1, KindsAgree
  <2>4. k = kind
    BY <2>2, <2>3
  <2>5. call["block"] = ReleaseFrame(v) /\ call["byref"].fn = "byrefRelease"
    BY <2>1 DEF ByrefReleaseFrame
  <2> QED BY <2>2, <2>4, <2>5
<1>9. PICK Q : /\ Changed(t) = {P, Q} /\ FrameAt(P)' = h /\ FrameAt(Q)' = g
               /\ Q # P /\ P = <<Q[1], Q[2] - 1>> /\ Q[2] > 1
  BY <1>1, <1>2, <1>3, <1>8, NewCalls DEF CoreInv
<1>10. x \in HelpedFields
  <2>1. mem[r].fields \in Seq(Pointer)
    BY <1>3, <1>4 DEF CoreInv, HeapInv, HeapBlock, HeapByref, FreeCell, IsBlock
  <2>2. i \in DOMAIN mem[r].fields
    BY <1>2, <1>4, <2>1
  <2>3. IsField(x)
    BY <1>4, <1>7, <2>2 DEF IsField, IsBlock
  <2>4. \A p \in LiveFrames : ~Withholds(FrameAt(p), x)
    BY <1>1, <1>2, <1>3, <1>7, <2>2, <2>3, TopDisposal
  <2> QED BY <2>3, <2>4, HelpedShape
<1>11. kind = "block" /\ v \notin {NULL, GlobalBlock} => mem[v].lit = Captures[mem[r].lit][i].of
  <2>1. FieldOk(x) /\ KindOf(x) = kind /\ Field(x) = v /\ x[1] = r /\ x[2] = i
    BY <1>3, <1>7, <1>10 DEF FieldsInv, Field, KindOf
  <2> QED BY <2>1 DEF FieldOk
<1>12. NestOk(P)'
  <2>1. NestOk(P) /\ FrameAt(P)'.arg = f.arg
    BY <1>1, <1>3, <1>6, <1>9 DEF NestInv
  <2> QED BY <1>2, <1>3, <2>1, NestGoesOn
<1>13. NestOk(Q)'
  <2>1. FrameAt(<<Q[1], Q[2] - 1>>)' = h
    BY <1>9
  <2>2. CASE kind = "block"
    <3>1. g.arg = v
      BY <1>8, <2>2 DEF ReleaseFrame
    <3>2. h.i > 1 /\ h.i - 1 = i
      BY <1>4, <1>6
    <3> QED BY <1>2, <1>6, <1>9, <1>11, <2>1, <2>2, <3>1, <3>2 DEF NestOk
  <2>3. CASE kind # "block"
    BY <1>8, <1>9, <2>3 DEF NestOk
  <2> QED BY <2>2, <2>3
<1>14. Detached(FrameAt(P).arg)'
  <2>1. Detached(r)
    BY <1>4 DEF DyingInv, IsBlock
  <2> QED BY <1>2, <1>6, <1>9, <2>1 DEF Detached
<1>15. FrameAt(Q)'.fn # "disposeHelper"
  BY <1>8, <1>9 DEF ReleaseFrame
<1> QED BY <1>3, <1>9, <1>12, <1>13, <1>14, <1>15, NestingKept

LEMMA DropBlockNests ==
  ASSUME IInv, IInv', NestInv, DyingInv, NEW t \in Thread, StepKept(t), DropBlock(t)
  PROVE  NestInv' /\ DyingInv'
<1>1. CoreInv /\ CoreInv'
  BY DEF IInv
<1>2. PICK Q : Q = <<t, 1>>
  BY Zenon
<1>3. PICK a, used : Call(t, <<ReleaseFrame(a)>>, used)
  BY Zenon DEF DropBlock
<1>4. Changed(t) = {Q} /\ FrameAt(Q)' = ReleaseFrame(a)
  BY <1>1, <1>2, <1>3, NewCall
<1>5. NestOk(Q)' /\ FrameAt(Q)'.fn # "disposeHelper"
  BY <1>2, <1>4 DEF NestOk, ReleaseFrame
<1> QED BY <1>1, <1>4, <1>5, NestingKept

\* A step that leaves the heap and the calls, and at most calls _Block_byref_release
LEMMA CallsUntouched ==
  ASSUME CoreInv, NestInv, DyingInv, \A a \in Heap : mem'[a] = mem[a],
         \A p \in LiveFrames : FrameAt(p)' = FrameAt(p),
         \A p \in LiveFrames' : p \notin LiveFrames => FrameAt(p)'.fn = "byrefRelease"
  PROVE  NestInv' /\ DyingInv'
<1>1. DyingInv'
  BY DEF DyingInv, Detached
<1>2. ASSUME NEW p \in LiveFrames' PROVE NestOk(p)'
  <2>1. CASE p \notin LiveFrames
    BY <2>1 DEF NestOk
  <2>2. CASE p \in LiveFrames
    <3>1. PICK f, q, g : f = FrameAt(p) /\ q = <<p[1], p[2] - 1>> /\ g = FrameAt(q)
      BY Zenon
    <3>2. FrameAt(p)' = f
      BY <2>2, <3>1
    <3>3. SUFFICES ASSUME f.fn \in {"release", "disposeHelper"} /\ p[2] > 1 PROVE NestOk(p)'
      BY <3>2 DEF NestOk
    <3>4. /\ p = <<p[1], p[2]>> /\ p[1] \in Thread /\ p[2] \in 1 .. Len(stack[p[1]])
          /\ Len(stack[p[1]]) \in Nat
      BY <2>2, LiveShape DEF CoreInv, CallsInv
    <3>5. q = <<q[1], q[2]>> /\ q[1] = p[1] /\ q[2] \in 1 .. Len(stack[q[1]])
      BY <3>1, <3>3, <3>4
    <3>6. q \in LiveFrames
      BY <3>4, <3>5, LiveShape DEF CoreInv
    <3>7. FrameAt(q)' = g
      BY <3>1, <3>6
    <3>8. /\ g.fn = "disposeHelper" /\ g.i > 1
          /\ f.arg \notin {NULL, GlobalBlock} => mem[f.arg].lit = Captures[mem[g.arg].lit][g.i - 1].of
      BY <2>2, <3>1, <3>3 DEF NestInv, NestOk
    <3>9. ReleaseInv(p) /\ ReleaseInv(q)
      BY <2>2, <3>6 DEF CoreInv, CallsInv, FrameInv
    <3>10. g.arg \in Heap /\ (f.arg \notin {NULL, GlobalBlock} => f.arg \in Heap)
      BY <3>1, <3>3, <3>8, <3>9 DEF ReleaseInv, IsBlock
    <3> QED BY <3>1, <3>2, <3>7, <3>8, <3>10 DEF NestOk
  <2> QED BY <2>1, <2>2
<1> QED BY <1>1, <1>2 DEF NestInv

LEMMA InitNests ==
  ASSUME Init
  PROVE  NestInv /\ DyingInv
<1>1. IInv
  BY InitInv
<1>2. LiveFrames = {}
  <2>1. \A t \in Thread : stack[t] = <<>> /\ DOMAIN stack[t] = {}
    BY DEF Init
  <2> QED BY <2>1 DEF LiveFrames
<1>3. NestInv
  BY <1>2 DEF NestInv
<1>4. DyingInv
  <2>1. \A a \in Heap : mem[a].kind = "block" => ~mem[a].dying
    BY <1>1, <1>2 DEF IInv, CoreInv, CallsInv
  <2> QED BY <2>1 DEF DyingInv
<1> QED BY <1>3, <1>4

LEMMA RuntimeNests ==
  ASSUME IInv, WellCaptured, NestInv, DyingInv, NEW t \in Thread, RuntimeStep(t)
  PROVE  NestInv' /\ DyingInv'
<1>0. CoreInv
  BY DEF IInv
<1>1. IInv' => CoreInv'
  BY DEF IInv
<1>2. CASE CopyNull(t) \/ CopyHeap(t) \/ CopyGlobal(t) \/ CopyStackFails(t)
  <2>1. IInv' /\ StepKept(t)
    BY Zenon, <1>2, CopyReturns
  <2>2. NoRelease(t)
    BY Zenon, <1>2, <2>1, QuietReturns
  <2> QED BY Zenon, <1>0, <1>1, <2>1, <2>2, QuietKeepsNesting
<1>3. CASE CopyDone(t) \/ ByrefCopyReturn(t)
  <2>1. IInv' /\ StepKept(t)
    BY Zenon, <1>3, CopyDoneStep, ByrefCopyReturnStep
  <2>2. NoRelease(t)
    BY Zenon, <1>3, <2>1, QuietReturns
  <2> QED BY Zenon, <1>0, <1>1, <2>1, <2>2, QuietKeepsNesting
<1>4. CASE ReleaseNothing(t) \/ ReleaseShared(t) \/ ReleaseDone(t) \/ ByrefReleaseShared(t) \/ ByrefReleaseDone(t)
  <2>1. IInv' /\ StepKept(t)
    BY Zenon, <1>4, ReleaseReturns, ByrefReleaseReturns
  <2>2. NoRelease(t)
    BY Zenon, <1>4, <2>1, QuietReturns
  <2> QED BY Zenon, <1>0, <1>1, <2>1, <2>2, QuietKeepsNesting
<1>5. CASE CopyStack(t) \/ AssignInPlace(t) \/ AssignBlockOrByref(t) \/ ByrefReleaseLoad(t) \/ ByrefReleaseLast(t)
  <2>1. IInv' /\ StepKept(t)
    BY Zenon, <1>5, CopyStackStep, AssignInPlaceStep, AssignBlockOrByrefStep, ByrefReleaseLoadStep,
       ByrefReleaseLastStep
  <2>2. NoRelease(t)
    BY Zenon, <1>5, <2>1, QuietGoesOn
  <2> QED BY Zenon, <1>0, <1>1, <2>1, <2>2, QuietKeepsNesting
<1>6. CASE ByrefCopyFirst(t) \/ ByrefCopyAgain(t) \/ ByrefPublish(t) \/ ByrefPayload(t) \/ ByrefIncrement(t)
  <2>1. IInv' /\ StepKept(t)
    BY Zenon, <1>6, ByrefCopyFirstStep, ByrefCopyAgainStep, ByrefPublishStep, ByrefPayloadStep,
       ByrefIncrementStep
  <2>2. NoRelease(t)
    BY Zenon, <1>6, <2>1, QuietGoesOn
  <2> QED BY Zenon, <1>0, <1>1, <2>1, <2>2, QuietKeepsNesting
<1>7. CASE ReleaseLast(t)
  BY Zenon, <1>7, ReleaseLastStep, ReleaseLastNests
<1>8. CASE DisposeInPlace(t)
  BY Zenon, <1>8, DisposeInPlaceStep, DisposeInPlaceNests
<1>9. CASE DisposeBlockOrByref(t)
  BY Zenon, <1>9, DisposeBlockOrByrefStep, DisposeBlockOrByrefNests
<1> QED BY Zenon, <1>2, <1>3, <1>4, <1>5, <1>6, <1>7, <1>8, <1>9 DEF RuntimeStep

LEMMA ProgramNests ==
  ASSUME IInv, WellCaptured, ~SharedFrame, NestInv, DyingInv, NEW t \in Thread, ProgramStep(t)
  PROVE  NestInv' /\ DyingInv'
<1>1. CASE CopyBlock(t) \/ CopyNested(t) \/ WriteVariable(t)
  <2>1. IInv' /\ StepKept(t)
    BY Zenon, <1>1, CopyBlockStep, CopyNestedStep, WriteVariableStep
  <2>2. NoRelease(t)
    BY Zenon, <1>1, <2>1, QuietProgram
  <2>3. CoreInv /\ CoreInv'
    BY <2>1 DEF IInv
  <2> QED BY Zenon, <2>1, <2>2, <2>3, QuietKeepsNesting
<1>2. CASE DropBlock(t)
  BY Zenon, <1>2, DropBlockStep, DropBlockNests
<1> QED BY Zenon, <1>1, <1>2 DEF ProgramStep

\* The end of the scope starts calls of _Block_byref_release and changes no other.
LEMMA ScopeFrames ==
  ASSUME CoreInv, CloseScope
  PROVE  /\ mem' = mem /\ Idle(Main)
         /\ \A p \in LiveFrames : p \in LiveFrames' /\ FrameAt(p)' = FrameAt(p)
         /\ \A p \in LiveFrames' : p \notin LiveFrames => FrameAt(p)'.fn = "byrefRelease"
<1>1. PICK N, order, s :
        /\ Lists(order, N)
        /\ s = [k \in 1 .. N |-> ByrefReleaseFrame(order[k], "load")]
        /\ Call(Main, s, {})
  <2>1. PICK N : N = Cardinality(Byref)
    OBVIOUS
  <2>2. PICK order \in [1 .. N -> Byref] :
          /\ Byref = {order[k] : k \in DOMAIN order}
          /\ Call(Main, [k \in DOMAIN order |-> ByrefReleaseFrame(order[k], "load")], {})
    BY Zenon, <2>1 DEF CloseScope
  <2>3. DOMAIN order = 1 .. N
    OBVIOUS
  <2>4. \A b \in Byref : \E k \in 1 .. N : order[k] = b
    BY <2>2, <2>3
  <2>5. Lists(order, N)
    BY <2>1, <2>4 DEF Lists
  <2> QED BY Zenon, <2>2, <2>3, <2>5
<1>2. mem' = mem /\ Idle(Main) /\ stack' = [stack EXCEPT ![Main] = s]
  BY Zenon, <1>1 DEF CloseScope, Call
<1>3. /\ \A u \in Thread : u # Main => stack'[u] = stack[u]
      /\ LiveFrames' = LiveFrames \cup Outer(N)
      /\ \A p \in Outer(N) : FrameAt(p)' = ByrefReleaseFrame(Handed(order, N, p), "load")
  BY Zenon, <1>1, <1>2, ScopeCalls
<1>4. ASSUME NEW p \in LiveFrames PROVE FrameAt(p)' = FrameAt(p)
  <2>1. p[1] \in Thread /\ p[2] \in 1 .. Len(stack[p[1]])
    BY LiveShape DEF CoreInv
  <2>2. p[1] # Main
    <3>1. Len(stack[Main]) = 0
      BY <1>2 DEF Idle
    <3> QED BY <2>1, <3>1
  <2> QED BY <1>3, <2>1, <2>2 DEF FrameAt
<1>5. \A p \in LiveFrames' : p \notin LiveFrames => FrameAt(p)'.fn = "byrefRelease"
  BY <1>3 DEF ByrefReleaseFrame
<1> QED BY <1>2, <1>3, <1>4, <1>5

LEMMA ScopeNests ==
  ASSUME IInv, NestInv, DyingInv, CloseScope \/ LeaveFrame \/ UNCHANGED vars
  PROVE  NestInv' /\ DyingInv'
<1>1. CoreInv
  BY DEF IInv
<1>2. CASE UNCHANGED vars
  <2>1. mem' = mem /\ stack' = stack
    BY <1>2 DEF vars
  <2>2. LiveFrames' = LiveFrames /\ \A p : FrameAt(p)' = FrameAt(p)
    BY <2>1 DEF LiveFrames, FrameAt
  <2> QED BY <1>1, <2>1, <2>2, CallsUntouched
<1>3. CASE LeaveFrame
  <2>1. /\ stack' = stack
        /\ mem' = [a \in Addr |-> IF a \in Byref \cup Literal THEN FreeCell ELSE mem[a]]
    BY <1>3 DEF LeaveFrame
  <2>2. LiveFrames' = LiveFrames /\ \A p : FrameAt(p)' = FrameAt(p)
    BY <2>1 DEF LiveFrames, FrameAt
  <2>3. \A a \in Heap : mem'[a] = mem[a]
    BY <2>1, Apart DEF Addr
  <2> QED BY <1>1, <2>2, <2>3, CallsUntouched
<1>4. CASE CloseScope
  BY <1>1, <1>4, ScopeFrames, CallsUntouched
<1> QED BY <1>2, <1>3, <1>4

LEMMA NextNests ==
  ASSUME IInv, WellCaptured, ~SharedFrame, NestInv, DyingInv, [Next]_vars
  PROVE  NestInv' /\ DyingInv'
BY Zenon, RuntimeNests, ProgramNests, ScopeNests DEF Next

\* p is the call of a copy helper or a dispose helper; the literal of its Block
IsHelper(p) == FrameAt(p).fn \in {"copyHelper", "disposeHelper"}
LiteralAt(p) == mem[HelpedBlock(FrameAt(p))].lit

\* The literals grow in rank towards the outer calls.
Ranks(rank) ==
  /\ rank \in [Literal -> Nat]
  /\ \A l \in Literal : \A i \in DOMAIN Captures[l] :
       Captures[l][i].of \in Literal => rank[Captures[l][i].of] < rank[l]

LEMMA CapturedAt ==
  ASSUME HeapInv, NEW a, IsBlock(a), NEW n, n \in 1 .. Len(mem[a].fields)
  PROVE  mem[a].lit \in Literal /\ n \in DOMAIN Captures[mem[a].lit]
<1>1. mem[a] \in HeapBlock /\ Len(mem[a].fields) = Len(Captures[mem[a].lit])
  BY DEF HeapInv, IsBlock, HeapByref, FreeCell
<1>2. PICK l \in Literal : l = mem[a].lit
  BY <1>1 DEF HeapBlock
<1>3. Captures[l] \in Seq([flags : SUBSET Bit, of : Pointer])
  BY ProgramAssumption
<1> QED BY <1>1, <1>2, <1>3

\* The caller of a nested helper is a helper, whose Block captured the literal.
LEMMA HelperCaller ==
  ASSUME IInv, NestInv, NEW rank, Ranks(rank), NEW p \in LiveFrames, IsHelper(p), p[2] > 1,
         NEW q, q = <<p[1], p[2] - 1>>
  PROVE  q \in LiveFrames /\ IsHelper(q) /\ rank[LiteralAt(p)] < rank[LiteralAt(q)]
<1>0. CoreInv
  BY DEF IInv
<1>1. PICK f, g : f = FrameAt(p) /\ g = FrameAt(q)
  BY Zenon
<1>2. PICK a, b, n : a = HelpedBlock(f) /\ b = HelpedBlock(g) /\ n = g.i - 1
  BY Zenon
<1>3. CASE f.fn = "copyHelper"
  <2>1. CopyHelperInv(p) /\ p[2] # 1
    BY <1>0 DEF CoreInv, CallsInv, FrameInv
  <2>2. ~IsVar(f.dest) /\ IsBlock(a) /\ mem[a].lit = Awaited(f.dest).of
    BY <1>1, <1>2, <1>3, <2>1 DEF CopyHelperInv, DestInv, HelpedBlock
  <2>3. /\ q \in LiveFrames /\ g.fn = "copyHelper" /\ g.i > 1 /\ g.i \in Nat
        /\ f.dest.block = g.result /\ f.dest.field = g.i - 1
    BY <1>0, <1>1, <1>3, <2>2, DestCaller DEF CoreInv
  <2>4. CopyHelperInv(q) /\ b = g.result
    BY <1>0, <1>1, <1>2, <2>3 DEF CoreInv, CallsInv, FrameInv, HelpedBlock
  <2>5. IsBlock(b) /\ g.i \in 1 .. Len(mem[b].fields) + 1
    BY <1>1, <2>3, <2>4 DEF CopyHelperInv
  <2>6. n \in 1 .. Len(mem[b].fields)
    <3>1. mem[b].fields \in Seq(Pointer)
      BY <1>0, <2>5 DEF CoreInv, HeapInv, IsBlock, HeapBlock, HeapByref, FreeCell
    <3>2. Len(mem[b].fields) \in Nat
      BY <3>1
    <3> QED BY <1>2, <2>3, <2>5, <3>2
  <2>7. mem[b].lit \in Literal /\ n \in DOMAIN Captures[mem[b].lit]
    BY <1>0, <2>5, <2>6, CapturedAt DEF CoreInv
  <2>8. mem[a].lit \in Literal
    BY <1>0, <2>2 DEF CoreInv, HeapInv, IsBlock, HeapBlock, HeapByref, FreeCell
  <2>9. mem[a].lit = Captures[mem[b].lit][n].of
    BY <1>2, <2>2, <2>3, <2>4 DEF Awaited
  <2>10. rank[mem[a].lit] < rank[mem[b].lit]
    BY <2>7, <2>8, <2>9 DEF Ranks
  <2> QED BY <1>1, <1>2, <2>3, <2>10 DEF IsHelper, LiteralAt
<1>4. CASE f.fn = "disposeHelper"
  <2>1. ReleaseInv(p) /\ NestOk(p)
    BY <1>0 DEF CoreInv, CallsInv, FrameInv, NestInv
  <2>2. IsBlock(a) /\ a = f.arg
    BY <1>1, <1>2, <1>4, <2>1 DEF ReleaseInv, HelpedBlock
  <2>3. /\ g.fn = "disposeHelper" /\ g.i > 1 /\ b = g.arg
        /\ mem[a].lit = Captures[mem[b].lit][n].of
    <3>1. a \notin {NULL, GlobalBlock}
      BY <2>2, Apart DEF IsBlock
    <3> QED BY <1>1, <1>2, <1>4, <2>1, <2>2, <3>1 DEF NestOk, HelpedBlock
  <2>4. q \in LiveFrames
    <3>1. /\ p = <<p[1], p[2]>> /\ p[1] \in Thread /\ p[2] \in 1 .. Len(stack[p[1]])
          /\ Len(stack[p[1]]) \in Nat
      BY <1>0, LiveShape DEF CoreInv, CallsInv
    <3>2. q = <<q[1], q[2]>> /\ q[1] = p[1] /\ q[2] \in 1 .. Len(stack[q[1]])
      BY <3>1
    <3> QED BY <1>0, <3>1, <3>2, LiveShape DEF CoreInv
  <2>5. IsBlock(b) /\ g.i \in 1 .. Len(mem[b].fields) + 1
    <3>1. ReleaseInv(q)
      BY <1>0, <2>4 DEF CoreInv, CallsInv, FrameInv
    <3> QED BY <1>1, <2>3, <3>1 DEF ReleaseInv
  <2>6. n \in 1 .. Len(mem[b].fields)
    <3>1. mem[b].fields \in Seq(Pointer)
      BY <1>0, <2>5 DEF CoreInv, HeapInv, IsBlock, HeapBlock, HeapByref, FreeCell
    <3>2. Len(mem[b].fields) \in Nat
      BY <3>1
    <3> QED BY <1>2, <2>3, <2>5, <3>2
  <2>7. mem[b].lit \in Literal /\ n \in DOMAIN Captures[mem[b].lit]
    BY <1>0, <2>5, <2>6, CapturedAt DEF CoreInv
  <2>8. mem[a].lit \in Literal
    BY <1>0, <2>2 DEF CoreInv, HeapInv, IsBlock, HeapBlock, HeapByref, FreeCell
  <2>9. rank[mem[a].lit] < rank[mem[b].lit]
    BY <2>3, <2>7, <2>8 DEF Ranks
  <2> QED BY <1>1, <1>2, <2>3, <2>4, <2>9 DEF IsHelper, LiteralAt
<1> QED BY <1>1, <1>3, <1>4 DEF IsHelper

\* The deeper helper has the literal of lower rank.
LEMMA DeeperIsLower ==
  ASSUME IInv, NestInv, NEW rank, Ranks(rank), NEW p \in LiveFrames, IsHelper(p),
         NEW q \in LiveFrames, IsHelper(q), p[1] = q[1], p[2] < q[2]
  PROVE  rank[LiteralAt(q)] < rank[LiteralAt(p)]
<1>0. CoreInv
  BY DEF IInv
<1>1. ASSUME NEW r \in LiveFrames, IsHelper(r) PROVE LiteralAt(r) \in Literal /\ rank[LiteralAt(r)] \in Nat
  <2>1. FrameInv(r)
    BY <1>0 DEF CoreInv, CallsInv
  <2>2. IsBlock(HelpedBlock(FrameAt(r)))
    BY <1>1, <2>1 DEF IsHelper, FrameInv, CopyHelperInv, ReleaseInv, HelpedBlock
  <2>3. LiteralAt(r) \in Literal
    BY <1>0, <2>2 DEF CoreInv, HeapInv, IsBlock, HeapBlock, HeapByref, FreeCell, LiteralAt
  <2> QED BY <2>3 DEF Ranks
<1>2. \A r \in LiveFrames : r = <<r[1], r[2]>> /\ r[2] \in Nat
  <2>1. \A t \in Thread : Len(stack[t]) \in Nat
    BY <1>0 DEF CoreInv, CallsInv
  <2> QED BY <1>0, <2>1, LiveShape DEF CoreInv
<1>3. PICK k : k = p[2] /\ k \in Nat
  BY <1>2
<1>4. PICK at : at = [n \in Nat |-> <<p[1], n>>]
  OBVIOUS
<1>5. SUFFICES ASSUME ~(rank[LiteralAt(q)] < rank[LiteralAt(p)]) PROVE FALSE
  OBVIOUS
<1>6. PICK S : S = {n \in Nat : /\ k < n /\ at[n] \in LiveFrames /\ IsHelper(at[n])
                                /\ ~(rank[LiteralAt(at[n])] < rank[LiteralAt(p)])}
  BY Zenon
<1>7. q[2] \in S
  <2>1. q[2] \in Nat /\ at[q[2]] = q
    BY <1>2, <1>4
  <2> QED BY <1>3, <1>5, <1>6, <2>1
<1>8. S \subseteq Nat
  BY <1>6
<1>9. PICK n \in S : \A j \in S : ~(<<j, n>> \in OpToRel(<, Nat))
  BY <1>7, <1>8, NatLessThanWellFounded, WFMin
<1>10. \A j \in S : ~(j < n)
  <2>1. \A j \in S : j \in Nat /\ n \in Nat
    BY <1>8
  <2> QED BY <1>9, <2>1, Zenon DEF OpToRel
<1>11. /\ n \in Nat /\ k < n /\ at[n] \in LiveFrames /\ IsHelper(at[n])
       /\ ~(rank[LiteralAt(at[n])] < rank[LiteralAt(p)])
  BY <1>6
<1>12. PICK m : m = n - 1 /\ m \in Nat /\ m < n /\ k <= m
  BY <1>3, <1>11
<1>13. /\ at[m] \in LiveFrames /\ IsHelper(at[m])
       /\ rank[LiteralAt(at[n])] < rank[LiteralAt(at[m])]
  <2>1. at[n][1] = p[1] /\ at[n][2] = n /\ at[m] = <<at[n][1], at[n][2] - 1>> /\ at[n][2] > 1
    <3>1. k >= 1
      BY <1>0, <1>3, LiveShape DEF CoreInv
    <3> QED BY <1>3, <1>4, <1>11, <1>12, <3>1
  <2> QED BY <1>11, <2>1, HelperCaller
<1>14. rank[LiteralAt(at[n])] \in Nat /\ rank[LiteralAt(at[m])] \in Nat /\ rank[LiteralAt(p)] \in Nat
  BY <1>1, <1>11, <1>13
<1>15. CASE m = k
  <2>1. at[m] = p
    BY <1>2, <1>3, <1>4, <1>15
  <2> QED BY <1>11, <1>13, <2>1
<1>16. CASE m # k
  <2>1. k < m
    BY <1>3, <1>12, <1>16
  <2>2. m \notin S
    BY <1>10, <1>12
  <2>3. rank[LiteralAt(at[m])] < rank[LiteralAt(p)]
    BY <1>6, <1>12, <1>13, <2>1, <2>2
  <2>4. \A x, y, z \in Nat : x < y /\ y < z => x < z
    OBVIOUS
  <2> QED BY <1>11, <1>13, <1>14, <2>3, <2>4
<1> QED BY <1>15, <1>16

LEMMA HelpersDiffer ==
  ASSUME IInv, WellCaptured, NestInv, NEW p \in LiveFrames, IsHelper(p), NEW q \in LiveFrames, IsHelper(q),
         p[1] = q[1], LiteralAt(p) = LiteralAt(q)
  PROVE  p = q
<1>0. CoreInv
  BY DEF IInv
<1>1. PICK rank : Ranks(rank)
  BY DEF WellCaptured, Ranks
<1>2. \A r \in LiveFrames : r = <<r[1], r[2]>> /\ r[2] \in Nat
  <2>1. \A t \in Thread : Len(stack[t]) \in Nat
    BY <1>0 DEF CoreInv, CallsInv
  <2> QED BY <1>0, <2>1, LiveShape DEF CoreInv
<1>3. rank[LiteralAt(p)] \in Nat
  <2>1. FrameInv(p)
    BY <1>0 DEF CoreInv, CallsInv
  <2>2. IsBlock(HelpedBlock(FrameAt(p)))
    BY <2>1 DEF IsHelper, FrameInv, CopyHelperInv, ReleaseInv, HelpedBlock
  <2>3. LiteralAt(p) \in Literal
    BY <1>0, <2>2 DEF CoreInv, HeapInv, IsBlock, HeapBlock, HeapByref, FreeCell, LiteralAt
  <2> QED BY <1>1, <2>3 DEF Ranks
<1>4. ~(p[2] < q[2])
  <2>1. p[2] < q[2] => rank[LiteralAt(q)] < rank[LiteralAt(p)]
    BY <1>1, DeeperIsLower
  <2> QED BY <1>3, <2>1
<1>5. ~(q[2] < p[2])
  <2>1. q[2] < p[2] => rank[LiteralAt(p)] < rank[LiteralAt(q)]
    BY <1>1, DeeperIsLower
  <2> QED BY <1>3, <2>1
<1> QED BY <1>2, <1>4, <1>5

LEMMA CellKinds ==
  ASSUME CoreInv, NEW a \in Addr
  PROVE  mem[a].kind \in {"free", "block", "byref"}
<1>1. CASE a \in Heap
  BY <1>1 DEF CoreInv, HeapInv, HeapBlock, HeapByref, FreeCell
<1>2. CASE a = GlobalBlock
  BY <1>2 DEF CoreInv, StackInv, Block
<1>3. CASE a \in Literal
  <2>1. mem[a] = LiteralCell(a) \/ mem[a] = FreeCell
    BY <1>3 DEF CoreInv, StackInv
  <2> QED BY <2>1 DEF LiteralCell, Block, FreeCell
<1>4. CASE a \in Byref
  <2>1. mem[a] = ByrefCell("stack", 0, mem[a].forwarding, a, mem[a].val) \/ mem[a] = FreeCell
    BY <1>4 DEF CoreInv, StackInv
  <2>2. \A f, v : ByrefCell("stack", 0, f, a, v).kind = "byref"
    BY DEF ByrefCell
  <2> QED BY <2>1, <2>2 DEF FreeCell
<1>5. CASE a \in Inners
  <2>1. PICK t \in Thread : a = Inner[t]
    BY <1>5 DEF Inners
  <2>2. mem[a] = FreeCell \/ \E l, fields : mem[a] = Block("stack", "stack", 0, l, fields)
    <3>1. mem[a] = FreeCell \/ Mirrors(t)
      BY <2>1 DEF CoreInv, ProgramInv
    <3> QED BY Zenon, <2>1, <3>1 DEF Mirrors, LiteralCell
  <2>3. FreeCell.kind = "free" /\ \A l, fields : Block("stack", "stack", 0, l, fields).kind = "block"
    BY DEF Block, FreeCell
  <2> QED BY Zenon, <2>2, <2>3
<1> QED BY <1>1, <1>2, <1>3, <1>4, <1>5 DEF Addr, Stack

LEMMA TypesFollow ==
  ASSUME IInv, WellCaptured, NestInv
  PROVE  TypeOK
<1>1. CoreInv /\ RetainsInv
  BY DEF IInv
<1>2. \A a \in Addr : mem[a].kind \in {"free", "block", "byref"}
  BY <1>1, CellKinds
<1>3. \A a \in Heap : mem[a].kind = "byref" => mem[a].val \in Value \cup {Garbage}
  BY <1>1 DEF CoreInv, HeapInv, HeapBlock, HeapByref, FreeCell
<1>4. DOMAIN stack = Thread
  BY <1>1 DEF CoreInv, CallsInv
<1>5. \A p, q \in {r \in LiveFrames : FrameAt(r).fn \in {"copyHelper", "disposeHelper"}} :
        p[1] = q[1] /\ mem[HelpedBlock(FrameAt(p))].lit = mem[HelpedBlock(FrameAt(q))].lit => p = q
  BY HelpersDiffer DEF IsHelper, LiteralAt
<1>6. retains \in [Object -> Nat]
  <2>1. ASSUME NEW o \in Object PROVE retains[o] \in Nat
    <3>1. IsFiniteSet(HelpedFields) /\ ObjectFields(o) \subseteq HelpedFields
      BY <1>1, FieldsFinite DEF CoreInv, ObjectFields
    <3>2. Cardinality(ObjectFields(o)) \in Nat
      BY <3>1, FS_Subset, FS_CardinalityType
    <3> QED BY <1>1, <3>2 DEF RetainsInv
  <2>2. retains = [o \in Object |-> retains[o]]
    BY <1>1 DEF CoreInv, ProgramInv
  <2> QED BY <2>1, <2>2
<1> QED BY <1>1, <1>2, <1>3, <1>4, <1>5, <1>6 DEF TypeOK, CoreInv, ProgramInv

LEMMA NothingDangles ==
  ASSUME IInv
  PROVE  NoDangling
<1>1. CoreInv /\ FieldsInv
  BY DEF IInv
<1>2. mem[GlobalBlock].kind = "block"
  BY <1>1 DEF CoreInv, StackInv, Block
<1>3. \A v \in Var : var[v] # NULL => mem[var[v]].kind = "block"
  BY <1>1, <1>2 DEF CoreInv, ProgramInv
<1>4. ASSUME NEW x \in HelpedFields
      PROVE  /\ KindOf(x) = "block" /\ Field(x) # NULL => mem[Field(x)].kind = "block"
             /\ KindOf(x) = "byref" => mem[Field(x)].kind = "byref"
  BY <1>1, <1>2 DEF FieldsInv, FieldOk, IsBlock, IsByref
<1>5. ASSUME NEW b \in Byref, scope = "open" PROVE mem[mem[b].forwarding].kind = "byref"
  <2>1. /\ mem[b] = ByrefCell("stack", 0, mem[b].forwarding, b, mem[b].val)
        /\ mem[b].forwarding # b => IsByref(mem[b].forwarding)
    BY <1>1, <1>5 DEF CoreInv, StackInv
  <2>2. \A f, v : ByrefCell("stack", 0, f, b, v).kind = "byref"
    BY DEF ByrefCell
  <2>3. mem[b].kind = "byref"
    BY <2>1, <2>2
  <2> QED BY <2>1, <2>3 DEF IsByref
<1> QED BY <1>3, <1>4, <1>5 DEF NoDangling

LEMMA EscapedIsDetached ==
  ASSUME IInv, DyingInv
  PROVE  EscapedIsSelfContained
<1>1. CoreInv /\ FieldsInv
  BY DEF IInv
<1>2. ASSUME NEW a \in Heap, mem[a].kind = "block" /\ mem[a].isa = "malloc"
      PROVE  Detached(a)
  <2>1. CASE mem[a].dying
    BY <1>2, <2>1 DEF DyingInv
  <2>2. CASE ~mem[a].dying
    <3>1. \A p \in LiveFrames : ~Builds(FrameAt(p), a)
      BY <1>1, <1>2, Draft DEF CoreInv
    <3>2. Whole(a)
      BY <1>1, <1>2, <2>2, <3>1, NotDraft DEF CoreInv, IsBlock
    <3> QED BY <1>1, <3>2, WholeIsDetached
  <2> QED BY <2>1, <2>2
<1> QED BY <1>2 DEF EscapedIsSelfContained, Detached

\* In the middle of any copy or release, memory is what the runtime takes it for,
\* helpers nest no deeper than literals capture each other, nothing that is referred
\* to was given back, and nothing that a finished Block captured is on a stack.
THEOREM MemoryIsSafe == ~SharedFrame /\ WellCaptured => (Spec => []MemorySafe)
<1>1. SUFFICES ASSUME ~SharedFrame, WellCaptured PROVE Spec => []MemorySafe
  OBVIOUS
<1>2. DEFINE Nested == IInv /\ NestInv /\ DyingInv
<1>3. Init => Nested
  BY InitInv, InitNests
<1>4. Nested /\ [Next]_vars => Nested'
  <2>1. SUFFICES ASSUME IInv, NestInv, DyingInv, [Next]_vars PROVE IInv' /\ NestInv' /\ DyingInv'
    OBVIOUS
  <2>2. IInv'
    BY <1>1, <2>1, NextInv
  <2>3. NestInv' /\ DyingInv'
    BY <1>1, <2>1, NextNests
  <2> QED BY <2>2, <2>3
<1>5. Nested => MemorySafe
  <2>1. SUFFICES ASSUME IInv, NestInv, DyingInv PROVE MemorySafe
    OBVIOUS
  <2> QED BY <1>1, <2>1, TypesFollow, NothingDangles, EscapedIsDetached DEF MemorySafe
<1> QED BY <1>3, <1>4, <1>5, PTL DEF Spec

-----------------------------------------------------------------------------
(* One variable *)

\* the copy that a call moves its variable to
Fresh(a) == \E p \in LiveFrames : Moves(FrameAt(p)) /\ FrameAt(p).copy = a

\* a copy on the heap that somebody owns
LiveCopy(a) == IsByref(a) /\ ~mem[a].dying

\* There is one such copy of a variable, and its stack variable owns it too.
CopiesInv ==
  \A a \in Heap : LiveCopy(a) =>
    /\ \A c \in Heap : LiveCopy(c) /\ mem[c].of = mem[a].of => c = a
    /\ scope = "open" => mem[a].of \in StackOwners(a)

\* Until it is complete, nobody else owns it.
FreshInv == \A p \in LiveFrames : Moves(FrameAt(p)) => mem[FrameAt(p).copy].count = 2

\* The value is on the stack until it has moved, and then in the copy.
ValuesInv ==
  /\ \A b \in Byref : scope = "open" /\ (mem[b].forwarding = b \/ PayloadMoving(b)) => mem[b].val = written[b]
  /\ \A a \in Heap : LiveCopy(a) /\ ~Fresh(a) => mem[a].val = written[mem[a].of]

VariableInv == CopiesInv /\ FreshInv /\ ValuesInv


\* Only the declaring function moves a variable: nobody else owns the copy yet.
LEMMA FreshIsAlone ==
  ASSUME CoreInv, FreshInv, NEW p \in LiveFrames, NEW f, f = FrameAt(p), Moves(f),
         NEW a, a = f.copy, NEW b, b = f.arg
  PROVE  /\ p = Top(Main) /\ p[1] = Main /\ ~Idle(Main) /\ scope = "open" /\ b \in Byref
         /\ LiveCopy(a) /\ a \in Heap /\ mem[a].of = b /\ mem[a].count = 2
         /\ mem[b].forwarding = IF f.pc = "publish" THEN b ELSE a
         /\ VarOwners(a) = {} /\ FieldOwners(a) = {} /\ FrameOwners(a) = {p} /\ StackOwners(a) = {b}
<1>1. f.fn = "byrefCopy" /\ f.pc \in {"publish", "payload"} /\ ByrefCopyInv(p) /\ p[1] \in Thread
  BY LiveShape DEF Moves, CoreInv, CallsInv, FrameInv
<1>2. /\ p = Top(p[1]) /\ b \in Byref /\ IsByref(a) /\ mem[a].of = b
      /\ mem[b].forwarding = IF f.pc = "publish" THEN b ELSE a
  BY <1>1 DEF ByrefCopyInv
<1>3. p[1] = Main /\ scope = "open"
  <2>1. ~IsByref(b)
    BY <1>2, Apart DEF IsByref
  <2> QED BY <1>1, <2>1 DEF ByrefCopyInv
<1>4. p = Top(Main) /\ ~Idle(Main)
  <2>1. p[2] \in 1 .. Len(stack[p[1]])
    BY LiveShape DEF CoreInv
  <2>2. ~Idle(Main)
    <3>1. Len(stack[p[1]]) # 0
      BY <2>1
    <3> QED BY <1>3, <3>1 DEF Idle
  <2> QED BY <1>2, <1>3, <2>2
<1>5. a \in Heap /\ mem[a].count = 2
  BY <1>2 DEF IsByref, FreshInv
<1>6. p \in FrameOwners(a) /\ b \in StackOwners(a)
  <2>1. FrameOwns(f, a)
    BY <1>1 DEF FrameOwns
  <2>2. StackOwns(b, a)
    <3>1. f.pc = "publish" => \E q \in LiveFrames : LET g == FrameAt(q) IN
            g.fn = "byrefCopy" /\ g.pc = "publish" /\ g.arg = b /\ g.copy = a
      BY <1>1
    <3> QED BY <1>1, <1>2, <1>3, <3>1 DEF StackOwns
  <2> QED BY <1>2, <2>1, <2>2 DEF FrameOwners, StackOwners
<1>7. ~mem[a].dying
  BY <1>5, <1>6, Owned DEF CoreInv
<1>8. /\ VarOwners(a) = {} /\ FieldOwners(a) = {} /\ FrameOwners(a) = {p} /\ StackOwners(a) = {b}
  <2>1. Owners(a) = 2
    BY <1>2, <1>5 DEF CoreInv, OwnersInv, IsByref
  <2>2. /\ IsFiniteSet(VarOwners(a)) /\ IsFiniteSet(FieldOwners(a))
        /\ IsFiniteSet(FrameOwners(a)) /\ IsFiniteSet(StackOwners(a))
    BY OwnersFinite DEF CoreInv
  <2>3. PICK v, x, r, s : /\ v = Cardinality(VarOwners(a)) /\ x = Cardinality(FieldOwners(a))
                          /\ r = Cardinality(FrameOwners(a)) /\ s = Cardinality(StackOwners(a))
    BY Zenon
  <2>4. /\ v \in Nat /\ x \in Nat /\ r \in Nat /\ s \in Nat
        /\ (v = 0 <=> VarOwners(a) = {}) /\ (x = 0 <=> FieldOwners(a) = {})
        /\ r >= 1 /\ (r = 1 => FrameOwners(a) = {p})
        /\ s >= 1 /\ (s = 1 => StackOwners(a) = {b})
    BY <1>6, <2>2, <2>3, OneOrMore
  <2>5. v + x + r + s = 2
    BY <2>1, <2>3 DEF Owners
  <2>6. v = 0 /\ x = 0 /\ r = 1 /\ s = 1
    BY <2>4, <2>5
  <2> QED BY <2>4, <2>6
<1> QED BY <1>2, <1>3, <1>4, <1>5, <1>7, <1>8 DEF LiveCopy

\* The moves under way are those of before.
LEMMA MovesKept ==
  ASSUME CoreInv, NEW t \in Thread, StepKept(t), NothingMoves(t)
  PROVE  /\ \A p : p \in LiveFrames' /\ Moves(FrameAt(p))' <=> p \in LiveFrames /\ Moves(FrameAt(p))
         /\ \A p \in LiveFrames : Moves(FrameAt(p)) => FrameAt(p)' = FrameAt(p)
         /\ \A a : (Fresh(a)' <=> Fresh(a)) /\ (PayloadMoving(a)' <=> PayloadMoving(a))
<1>1. Top(t) \in LiveFrames => ~Idle(t)
  BY LiveShape, EmptySeq DEF CoreInv, CallsInv, Top, Idle
<1>2. \A p \in LiveFrames : p # Top(t) => p \in LiveFrames' /\ FrameAt(p)' = FrameAt(p)
  BY DEF StepKept, CallsKept
<1>3. ASSUME NEW p \in LiveFrames, Moves(FrameAt(p))
      PROVE  p \in LiveFrames' /\ FrameAt(p)' = FrameAt(p) /\ Moves(FrameAt(p))'
  BY <1>1, <1>2, <1>3 DEF NothingMoves, Moves
<1>4. ASSUME NEW p \in LiveFrames', Moves(FrameAt(p))'
      PROVE  p \in LiveFrames /\ FrameAt(p)' = FrameAt(p) /\ Moves(FrameAt(p))
  <2>1. p \in LiveFrames /\ p # Top(t)
    BY <1>4 DEF NothingMoves, Changed
  <2> QED BY <1>2, <1>4, <2>1 DEF Moves
<1>5. ASSUME NEW a PROVE Fresh(a)' <=> Fresh(a)
  BY <1>3, <1>4 DEF Fresh
<1>6. ASSUME NEW a PROVE PayloadMoving(a)' <=> PayloadMoving(a)
  <2>1. PayloadMoving(a) <=>
          \E p \in LiveFrames : Moves(FrameAt(p)) /\ FrameAt(p).pc = "payload" /\ FrameAt(p).arg = a
    BY DEF PayloadMoving, Moves
  <2>2. PayloadMoving(a)' <=>
          \E p \in LiveFrames' : Moves(FrameAt(p))' /\ FrameAt(p)'.pc = "payload" /\ FrameAt(p)'.arg = a
    BY DEF PayloadMoving, Moves
  <2> QED BY <1>3, <1>4, <2>1, <2>2
<1> QED BY <1>3, <1>4, <1>5, <1>6

LEMMA VariablesKept ==
  ASSUME CoreInv, CoreInv', VariableInv, NEW t \in Thread, StepKept(t), NothingMoves(t)
  PROVE  VariableInv'
<1>1. /\ \A p : p \in LiveFrames' /\ Moves(FrameAt(p))' <=> p \in LiveFrames /\ Moves(FrameAt(p))
      /\ \A p \in LiveFrames : Moves(FrameAt(p)) => FrameAt(p)' = FrameAt(p)
      /\ \A a : (Fresh(a)' <=> Fresh(a)) /\ (PayloadMoving(a)' <=> PayloadMoving(a))
  BY MovesKept
<1>2. CopiesInv /\ FreshInv /\ ValuesInv
  BY DEF VariableInv
<1>3. scope' = scope
  BY DEF StepKept, ProgramKept
<1>4. ASSUME NEW a \in Heap PROVE StackOwners(a)' = StackOwners(a)
  <2>1. ~Idle(t) => ~(FrameAt(Top(t)).fn = "byrefCopy" /\ FrameAt(Top(t)).pc = "publish")
    BY DEF NothingMoves, Moves
  <2>2. \A p \in LiveFrames' : p \notin LiveFrames \/ p = Top(t) =>
          ~(FrameAt(p)'.fn = "byrefCopy" /\ FrameAt(p)'.pc = "publish")
    BY DEF NothingMoves, Moves, Changed
  <2>3. \A b \in Byref : mem'[b].forwarding = mem[b].forwarding
    BY DEF NothingMoves
  <2> QED BY <2>1, <2>2, <2>3, StackOwnersKept
<1>5. ASSUME NEW a \in Heap, LiveCopy(a)'
      PROVE  LiveCopy(a) /\ mem'[a].of = mem[a].of /\ mem'[a].val = mem[a].val
  BY <1>5 DEF LiveCopy, IsByref, NothingMoves, Recounted
<1>6. CopiesInv'
  BY <1>2, <1>3, <1>4, <1>5 DEF CopiesInv
<1>7. FreshInv'
  <2>1. ASSUME NEW p \in LiveFrames, Moves(FrameAt(p)) PROVE mem'[FrameAt(p).copy].count = 2
    <3>1. PICK f, a, b : f = FrameAt(p) /\ a = f.copy /\ b = f.arg
      BY Zenon
    <3>2. Moves(f)
      BY <2>1, <3>1
    <3>3. /\ p = Top(Main) /\ LiveCopy(a) /\ a \in Heap /\ mem[a].count = 2
          /\ VarOwners(a) = {} /\ FieldOwners(a) = {} /\ FrameOwners(a) = {p}
      BY <1>2, <3>1, <3>2, FreshIsAlone
    <3>4. mem'[a].kind = "byref"
      BY <3>3 DEF LiveCopy, IsByref, StepKept, MemKept, CellKept
    <3>5. ~Recounted(a)
      <4>1. \A q \in LiveFrames : FrameOwns(FrameAt(q), a) => q = p
        BY <3>3 DEF FrameOwners
      <4> QED BY <3>1, <3>2, <3>3, <4>1 DEF Recounted
    <3> QED BY <3>1, <3>3, <3>4, <3>5 DEF NothingMoves
  <2>2. SUFFICES ASSUME NEW p \in LiveFrames', Moves(FrameAt(p))' PROVE mem'[FrameAt(p)'.copy].count = 2
    BY DEF FreshInv
  <2>3. p \in LiveFrames /\ Moves(FrameAt(p)) /\ FrameAt(p)' = FrameAt(p)
    BY <1>1, <2>2
  <2> QED BY <2>1, <2>3
<1>8. ValuesInv'
  <2>1. \A b \in Byref : scope' = "open" /\ (mem'[b].forwarding = b \/ PayloadMoving(b)') => mem'[b].val = written'[b]
    BY <1>1, <1>2, <1>3 DEF ValuesInv, NothingMoves
  <2>2. \A a \in Heap : LiveCopy(a)' /\ ~(Fresh(a)') => mem'[a].val = written'[mem'[a].of]
    BY <1>1, <1>2, <1>5 DEF ValuesInv, NothingMoves
  <2> QED BY <2>1, <2>2 DEF ValuesInv
<1> QED BY <1>6, <1>7, <1>8 DEF VariableInv

LEMMA MovesAtTop ==
  ASSUME CoreInv, FreshInv, NEW p \in LiveFrames, Moves(FrameAt(p))
  PROVE  p = Top(Main) /\ ~Idle(Main) /\ scope = "open"
<1>1. PICK f, a, b : f = FrameAt(p) /\ a = f.copy /\ b = f.arg
  BY Zenon
<1> QED BY <1>1, FreshIsAlone

\* A variable that is still on the stack has no copy.
LEMMA NotCopied ==
  ASSUME CoreInv, VariableInv, scope = "open", NEW b \in Byref, NEW a, a \in Heap, LiveCopy(a), mem[a].of = b
  PROVE  mem[b].forwarding = a \/ Fresh(a)
<1>1. b \in StackOwners(a)
  BY DEF VariableInv, CopiesInv
<1> QED BY <1>1 DEF StackOwners, StackOwns, Fresh, Moves

\* The first copy of a variable starts with a count for the call and one for the
\* stack, and is the only one.
LEMMA CopyFirstIsOne ==
  ASSUME IInv, VariableInv, NEW t \in Thread, ByrefCopyFirst(t)
  PROVE  VariableInv'
<1>1. CoreInv /\ CoreInv' /\ StepKept(t)
  BY ByrefCopyFirstStep DEF IInv
<1>2. PICK P, b, c :
        /\ MoveGoesOn(t, P, b, c, "publish") /\ FrameAt(P).pc = "check"
        /\ mem[b].forwarding = b /\ mem'[b] = mem[b]
        /\ mem[c].kind = "free"
        /\ mem'[c].kind = "byref" /\ mem'[c].of = b /\ mem'[c].count = 2 /\ ~mem'[c].dying
  BY Zenon, ByrefCopyFirstStep
<1>3. /\ P = Top(t) /\ t = Main /\ P \in LiveFrames /\ LiveFrames' = LiveFrames
      /\ \A p \in LiveFrames : p # P => FrameAt(p)' = FrameAt(p)
      /\ b \in Byref /\ c \in Heap /\ scope = "open" /\ written' = written
      /\ \A a \in Heap : a # c => mem'[a] = mem[a]
      /\ \A y \in Byref : mem'[y] = mem[y]
      /\ scope' = scope /\ b \notin Heap
  BY <1>1, <1>2, Apart DEF MoveGoesOn, StepKept, ProgramKept
<1>4. CopiesInv /\ FreshInv /\ ValuesInv
  BY DEF VariableInv
<1>5. ASSUME NEW p \in LiveFrames PROVE ~Moves(FrameAt(p))
  <2>1. Moves(FrameAt(p)) => p = P
    BY <1>1, <1>3, <1>4, MovesAtTop
  <2> QED BY <1>2, <2>1 DEF Moves
<1>6. /\ Moves(FrameAt(P))' /\ FrameAt(P)'.copy = c /\ FrameAt(P)'.pc = "publish" /\ FrameAt(P)'.arg = b
      /\ FrameAt(P)'.fn = "byrefCopy"
      /\ \A p \in LiveFrames' : Moves(FrameAt(p))' => p = P
  BY <1>2, <1>3, <1>5 DEF MoveGoesOn, Moves
<1>7. \A a : ~Fresh(a) /\ (Fresh(a)' <=> a = c) /\ ~(PayloadMoving(a)')
  BY <1>3, <1>5, <1>6 DEF Fresh, PayloadMoving, Moves
<1>8. \A a \in Heap : LiveCopy(a)' => a = c \/ (LiveCopy(a) /\ a # c /\ mem[a].of # b)
  <2>1. ASSUME NEW a \in Heap, LiveCopy(a)', a # c PROVE LiveCopy(a) /\ mem[a].of # b
    <3>1. LiveCopy(a)
      BY <1>3, <2>1 DEF LiveCopy, IsByref
    <3>2. mem[b].forwarding # a
      BY <1>2, <1>3
    <3> QED BY <1>1, <1>3, <1>7, <3>1, <3>2, NotCopied
  <2> QED BY <2>1
<1>9. CopiesInv'
  <2>1. ASSUME NEW a \in Heap, LiveCopy(a)', NEW d \in Heap, LiveCopy(d)', mem'[d].of = mem'[a].of PROVE d = a
    BY <1>2, <1>3, <1>4, <1>8, <2>1 DEF CopiesInv
  <2>2. ASSUME NEW a \in Heap, LiveCopy(a)' PROVE mem'[a].of \in StackOwners(a)'
    <3>1. CASE a = c
      BY <1>2, <1>3, <1>6, <3>1 DEF StackOwners, StackOwns
    <3>2. CASE LiveCopy(a) /\ a # c
      <4>1. mem[a].of \in Byref /\ mem'[a].of = mem[a].of
        BY <1>3, <1>4, <3>2 DEF CopiesInv, StackOwners
      <4>2. mem[mem[a].of].forwarding = a
        BY <1>1, <1>3, <1>7, <3>2, <4>1, NotCopied
      <4>3. mem'[mem[a].of].forwarding = a
        BY <1>3, <4>1, <4>2
      <4> QED BY <1>3, <4>1, <4>3 DEF StackOwners, StackOwns
    <3> QED BY <1>8, <2>2, <3>1, <3>2
  <2> QED BY <2>1, <2>2 DEF CopiesInv
<1>10. FreshInv'
  BY <1>2, <1>3, <1>6 DEF FreshInv
<1>11. ValuesInv'
  <2>1. \A y \in Byref : scope' = "open" /\ (mem'[y].forwarding = y \/ PayloadMoving(y)') => mem'[y].val = written'[y]
    BY <1>3, <1>4, <1>7 DEF ValuesInv
  <2>2. \A a \in Heap : LiveCopy(a)' /\ ~(Fresh(a)') => mem'[a].val = written'[mem'[a].of]
    BY <1>3, <1>4, <1>7, <1>8 DEF ValuesInv
  <2> QED BY <2>1, <2>2 DEF ValuesInv
<1> QED BY <1>9, <1>10, <1>11 DEF VariableInv

\* The stack variable is patched to the copy, whose value is still to come.
LEMMA PublishIsOne ==
  ASSUME IInv, VariableInv, NEW t \in Thread, ByrefPublish(t)
  PROVE  VariableInv'
<1>1. CoreInv /\ CoreInv' /\ StepKept(t)
  BY ByrefPublishStep DEF IInv
<1>2. PICK P, b, c :
        /\ MoveGoesOn(t, P, b, c, "payload") /\ FrameAt(P).pc = "publish" /\ FrameAt(P).copy = c
        /\ mem[b].forwarding = b /\ mem'[b].forwarding = c /\ mem'[b].val = mem[b].val
        /\ mem'[c] = mem[c]
  BY Zenon, ByrefPublishStep
<1>3. /\ P = Top(t) /\ t = Main /\ P \in LiveFrames /\ LiveFrames' = LiveFrames
      /\ \A p \in LiveFrames : p # P => FrameAt(p)' = FrameAt(p)
      /\ b \in Byref /\ c \in Heap /\ scope = "open" /\ written' = written
      /\ \A a \in Heap : mem'[a] = mem[a]
      /\ \A y \in Byref : y # b => mem'[y] = mem[y]
      /\ scope' = scope /\ b \notin Heap
      /\ FrameAt(P).fn = "byrefCopy" /\ FrameAt(P).arg = b
      /\ FrameAt(P)'.fn = "byrefCopy" /\ FrameAt(P)'.arg = b /\ FrameAt(P)'.pc = "payload" /\ FrameAt(P)'.copy = c
  BY <1>1, <1>2, Apart DEF MoveGoesOn, StepKept, ProgramKept
<1>4. CopiesInv /\ FreshInv /\ ValuesInv
  BY DEF VariableInv
<1>5. /\ \A p \in LiveFrames : Moves(FrameAt(p)) <=> p = P
      /\ \A p \in LiveFrames' : Moves(FrameAt(p))' <=> p = P
  <2>1. \A p \in LiveFrames : Moves(FrameAt(p)) => p = P
    BY <1>1, <1>3, <1>4, MovesAtTop
  <2> QED BY <1>2, <1>3, <2>1 DEF Moves
<1>6. \A a : (Fresh(a) <=> a = c) /\ (Fresh(a)' <=> a = c) /\ (PayloadMoving(a)' => a = b)
  BY <1>2, <1>3, <1>5 DEF Fresh, PayloadMoving, Moves
<1>7. LiveCopy(c) /\ mem[c].of = b
  <2>1. PICK f : f = FrameAt(P)
    OBVIOUS
  <2>2. c = f.copy /\ b = f.arg /\ Moves(f)
    BY <1>2, <1>3, <1>5, <2>1
  <2> QED BY <1>1, <1>3, <1>4, <2>1, <2>2, FreshIsAlone
<1>8. \A a \in Heap : LiveCopy(a)' <=> LiveCopy(a)
  BY <1>3 DEF LiveCopy, IsByref
<1>9. CopiesInv'
  <2>1. ASSUME NEW a \in Heap, LiveCopy(a) PROVE mem[a].of \in StackOwners(a)'
    <3>1. mem[a].of \in Byref
      BY <1>3, <1>4, <2>1 DEF CopiesInv, StackOwners
    <3>2. CASE a = c
      BY <1>2, <1>3, <1>7, <3>2 DEF StackOwners, StackOwns
    <3>3. CASE a # c
      <4>1. mem[a].of # b
        BY <1>3, <1>4, <1>7, <2>1, <3>3 DEF CopiesInv
      <4>2. mem[mem[a].of].forwarding = a
        BY <1>1, <1>3, <1>6, <2>1, <3>1, <3>3, NotCopied
      <4>3. mem'[mem[a].of].forwarding = a
        BY <1>3, <3>1, <4>1, <4>2
      <4> QED BY <1>3, <3>1, <4>3 DEF StackOwners, StackOwns
    <3> QED BY <3>2, <3>3
  <2> QED BY <1>3, <1>4, <1>8, <2>1 DEF CopiesInv
<1>10. FreshInv'
  <2>1. mem[c].count = 2
    BY <1>2, <1>3, <1>4, <1>5 DEF FreshInv
  <2> QED BY <1>3, <1>5, <2>1 DEF FreshInv
<1>11. ValuesInv'
  <2>1. \A y \in Byref : scope' = "open" /\ (mem'[y].forwarding = y \/ PayloadMoving(y)') => mem'[y].val = written'[y]
    BY <1>2, <1>3, <1>4, <1>6 DEF ValuesInv
  <2>2. \A a \in Heap : LiveCopy(a)' /\ ~(Fresh(a)') => mem'[a].val = written'[mem'[a].of]
    BY <1>3, <1>4, <1>6, <1>8 DEF ValuesInv
  <2> QED BY <2>1, <2>2 DEF ValuesInv
<1> QED BY <1>9, <1>10, <1>11 DEF VariableInv

\* The value follows, and the copy is the variable.
LEMMA PayloadIsOne ==
  ASSUME IInv, VariableInv, NEW t \in Thread, ByrefPayload(t)
  PROVE  VariableInv'
<1>1. CoreInv /\ CoreInv' /\ StepKept(t)
  BY ByrefPayloadStep DEF IInv
<1>2. PICK P, b, c :
        /\ MoveGoesOn(t, P, b, c, "return") /\ FrameAt(P).pc = "payload" /\ FrameAt(P).copy = c
        /\ mem'[b] = mem[b]
        /\ mem'[c].kind = "byref" /\ mem'[c].of = mem[c].of /\ mem'[c].dying = mem[c].dying
        /\ mem'[c].val = mem[b].val
  BY Zenon, ByrefPayloadStep
<1>3. /\ P = Top(t) /\ t = Main /\ P \in LiveFrames /\ LiveFrames' = LiveFrames
      /\ \A p \in LiveFrames : p # P => FrameAt(p)' = FrameAt(p)
      /\ b \in Byref /\ c \in Heap /\ scope = "open" /\ written' = written
      /\ \A a \in Heap : a # c => mem'[a] = mem[a]
      /\ \A y \in Byref : mem'[y] = mem[y]
      /\ scope' = scope
      /\ FrameAt(P).fn = "byrefCopy" /\ FrameAt(P).arg = b
      /\ FrameAt(P)'.fn = "byrefCopy" /\ FrameAt(P)'.arg = b /\ FrameAt(P)'.pc = "return"
  BY <1>1, <1>2 DEF MoveGoesOn, StepKept, ProgramKept
<1>4. CopiesInv /\ FreshInv /\ ValuesInv
  BY DEF VariableInv
<1>5. /\ \A p \in LiveFrames : Moves(FrameAt(p)) <=> p = P
      /\ \A p \in LiveFrames' : ~(Moves(FrameAt(p))')
  <2>1. \A p \in LiveFrames : Moves(FrameAt(p)) => p = P
    BY <1>1, <1>3, <1>4, MovesAtTop
  <2> QED BY <1>2, <1>3, <2>1 DEF Moves
<1>6. /\ \A a : (Fresh(a) <=> a = c) /\ ~(Fresh(a)') /\ ~(PayloadMoving(a)')
      /\ PayloadMoving(b)
  BY <1>2, <1>3, <1>5 DEF Fresh, PayloadMoving, Moves
<1>7. LiveCopy(c) /\ mem[c].of = b /\ mem[b].forwarding = c
  <2>1. PICK f : f = FrameAt(P)
    OBVIOUS
  <2>2. c = f.copy /\ b = f.arg /\ Moves(f) /\ f.pc = "payload"
    BY <1>2, <1>3, <1>5, <2>1
  <2> QED BY <1>1, <1>3, <1>4, <2>1, <2>2, FreshIsAlone
<1>8. \A a \in Heap : (LiveCopy(a)' <=> LiveCopy(a)) /\ (LiveCopy(a) => mem'[a].of = mem[a].of)
  BY <1>2, <1>3, <1>7 DEF LiveCopy, IsByref
<1>9. CopiesInv'
  <2>1. ASSUME NEW a \in Heap, LiveCopy(a) PROVE mem[a].of \in StackOwners(a)'
    <3>1. mem[a].of \in Byref
      BY <1>3, <1>4, <2>1 DEF CopiesInv, StackOwners
    <3>2. mem[mem[a].of].forwarding = a
      BY <1>1, <1>3, <1>6, <1>7, <2>1, <3>1, NotCopied
    <3> QED BY <1>3, <3>1, <3>2 DEF StackOwners, StackOwns
  <2> QED BY <1>3, <1>4, <1>8, <2>1 DEF CopiesInv
<1>10. FreshInv'
  BY <1>5 DEF FreshInv
<1>11. ValuesInv'
  <2>1. \A y \in Byref : scope' = "open" /\ (mem'[y].forwarding = y \/ PayloadMoving(y)') => mem'[y].val = written'[y]
    BY <1>3, <1>4, <1>6 DEF ValuesInv
  <2>2. mem[b].val = written[b]
    BY <1>3, <1>4, <1>6 DEF ValuesInv
  <2>3. \A a \in Heap : LiveCopy(a)' => mem'[a].val = written'[mem'[a].of]
    BY <1>2, <1>3, <1>4, <1>6, <1>7, <1>8, <2>2 DEF ValuesInv
  <2> QED BY <2>1, <2>3 DEF ValuesInv
<1> QED BY <1>9, <1>10, <1>11 DEF VariableInv

\* A write finds the variable: nobody who may write has its move before him.
LEMMA WriteIsOne ==
  ASSUME IInv, WellCaptured, ~SharedFrame, VariableInv, NEW t \in Thread, WriteVariable(t)
  PROVE  VariableInv'
<1>1. CoreInv
  BY DEF IInv
<1>2. Idle(t) /\ UNCHANGED <<var, stack, busy, scope, retains>>
  BY DEF WriteVariable
<1>3. PICK b \in Byref, c \in Addr :
        /\ mem' = [mem EXCEPT ![c].val = 1 - written[b]]
        /\ written' = [written EXCEPT ![b] = 1 - written[b]]
        /\ \/ c = b /\ scope = "open"
           \/ IsByref(c) /\ ~mem[c].dying /\ mem[c].of = b
        /\ c = b => mem[b].forwarding = b
        /\ t = Main \/ (IsByref(c) /\ FieldOwners(c) # {})
  BY WriteTarget
<1>4. PICK x : x = 1 - written[b]
  OBVIOUS
<1>5. /\ mem = [a \in Addr |-> mem[a]] /\ \A a \in Byref \cup Heap : a \in Addr
      /\ written \in [Byref -> Value] /\ b \notin Heap
  BY <1>1, Apart DEF CoreInv, StackInv, ProgramInv, Addr, Stack
<1>6. /\ \A a \in Addr : a # c => mem'[a] = mem[a]
      /\ mem'[c] = [mem[c] EXCEPT !.val = x]
      /\ written'[b] = x /\ \A y \in Byref : y # b => written'[y] = written[y]
  BY <1>3, <1>4, <1>5
<1>7. /\ mem'[c].kind = mem[c].kind /\ mem'[c].of = mem[c].of /\ mem'[c].dying = mem[c].dying
      /\ mem'[c].forwarding = mem[c].forwarding /\ mem'[c].count = mem[c].count
      /\ mem'[c].val = x
  <2>1. CASE IsByref(c)
    <3>1. mem[c] \in HeapByref
      BY <1>1, <2>1 DEF CoreInv, HeapInv, HeapBlock, FreeCell, IsByref
    <3> QED BY <1>6, <3>1 DEF HeapByref
  <2>2. CASE c = b /\ scope = "open"
    <3>1. mem[c] = ByrefCell("stack", 0, mem[c].forwarding, c, mem[c].val)
      BY <1>1, <2>2 DEF CoreInv, StackInv
    <3> QED BY <1>6, <3>1 DEF ByrefCell
  <2> QED BY <1>3, <2>1, <2>2
<1>8. /\ LiveFrames' = LiveFrames /\ \A p : FrameAt(p)' = FrameAt(p)
      /\ scope' = scope
  BY <1>2 DEF LiveFrames, FrameAt
<1>9. CopiesInv /\ FreshInv /\ ValuesInv
  BY DEF VariableInv
<1>10. ~Fresh(c)
  <2>1. SUFFICES ASSUME NEW p \in LiveFrames, Moves(FrameAt(p)), FrameAt(p).copy = c PROVE FALSE
    BY DEF Fresh
  <2>2. t # Main
    BY <1>1, <1>2, <1>9, <2>1, MovesAtTop
  <2>3. PICK f, y : f = FrameAt(p) /\ y = f.arg
    OBVIOUS
  <2>4. FieldOwners(c) = {}
    BY <1>1, <1>9, <2>1, <2>3, FreshIsAlone
  <2> QED BY <1>3, <2>2, <2>4
<1>11. c = b => \A a \in Heap : LiveCopy(a) => mem[a].of # b
  <2>1. SUFFICES ASSUME c = b, NEW a \in Heap, LiveCopy(a), mem[a].of = b PROVE FALSE
    OBVIOUS
  <2>2. scope = "open" /\ t = Main /\ mem[b].forwarding # a
    BY <1>3, <1>5, <2>1, Apart DEF IsByref
  <2>3. Fresh(a)
    BY <1>1, <2>1, <2>2, NotCopied
  <2> QED BY <1>1, <1>2, <1>9, <2>2, <2>3, MovesAtTop DEF Fresh
<1>12. c # b => c \in Heap /\ LiveCopy(c) /\ mem[c].of = b
  BY <1>3 DEF LiveCopy, IsByref
<1>13. \A a \in Addr : /\ mem'[a].kind = mem[a].kind
                       /\ mem[a].kind = "byref" =>
                            /\ mem'[a].of = mem[a].of /\ mem'[a].dying = mem[a].dying
                            /\ mem'[a].forwarding = mem[a].forwarding /\ mem'[a].count = mem[a].count
  BY <1>6, <1>7
<1>14. \A y \in Byref : mem'[y].forwarding = mem[y].forwarding
  BY <1>5, <1>6, <1>7
<1>15. \A a : (Fresh(a)' <=> Fresh(a)) /\ (PayloadMoving(a)' <=> PayloadMoving(a))
  BY <1>8 DEF Fresh, Moves, PayloadMoving
<1>16. \A a \in Heap : /\ LiveCopy(a)' <=> LiveCopy(a)
                       /\ LiveCopy(a) => mem'[a].of = mem[a].of
                       /\ StackOwners(a)' = StackOwners(a)
  <2>1. ASSUME NEW a \in Heap PROVE (LiveCopy(a)' <=> LiveCopy(a)) /\ (LiveCopy(a) => mem'[a].of = mem[a].of)
    BY <1>5, <1>13 DEF LiveCopy, IsByref
  <2>2. ASSUME NEW a \in Heap PROVE StackOwners(a)' = StackOwners(a)
    <3>1. ASSUME NEW y \in Byref PROVE StackOwns(y, a)' <=> StackOwns(y, a)
      BY <1>8, <1>14 DEF StackOwns
    <3> QED BY <3>1 DEF StackOwners
  <2> QED BY <2>1, <2>2
<1>17. CopiesInv'
  BY <1>8, <1>9, <1>16 DEF CopiesInv
<1>18. FreshInv'
  <2>1. ASSUME NEW p \in LiveFrames, Moves(FrameAt(p)) PROVE mem'[FrameAt(p).copy].count = 2
    <3>1. PICK f, a, y : f = FrameAt(p) /\ a = f.copy /\ y = f.arg
      BY Zenon
    <3>2. a \in Heap /\ mem[a].count = 2
      BY <1>1, <1>9, <2>1, <3>1, FreshIsAlone
    <3>3. a # c
      BY <1>10, <2>1, <3>1 DEF Fresh
    <3> QED BY <1>5, <1>6, <3>1, <3>2, <3>3
  <2> QED BY <1>8, <2>1 DEF FreshInv, Moves
<1>19. ValuesInv'
  <2>1. ASSUME NEW y \in Byref, scope = "open", mem[y].forwarding = y \/ PayloadMoving(y)
        PROVE  mem'[y].val = written'[y]
    <3>1. CASE y # b
      <4>1. mem'[y] = mem[y]
        BY <1>3, <1>5, <1>6, <3>1, Apart DEF IsByref
      <4> QED BY <1>6, <1>9, <2>1, <3>1, <4>1 DEF ValuesInv
    <3>2. CASE y = b /\ c = b
      BY <1>6, <1>7, <3>2
    <3>3. CASE y = b /\ c # b
      <4>1. mem[b].forwarding = c
        BY <1>1, <1>10, <1>12, <2>1, <3>3, NotCopied
      <4>2. PICK p \in LiveFrames : FrameAt(p).fn = "byrefCopy" /\ FrameAt(p).pc = "payload" /\ FrameAt(p).arg = b
        BY <1>5, <1>12, <2>1, <3>3, <4>1 DEF PayloadMoving
      <4>3. PICK f, a : f = FrameAt(p) /\ a = f.copy
        BY Zenon
      <4>4. Moves(f) /\ f.arg = b /\ f.pc = "payload"
        BY <4>2, <4>3 DEF Moves
      <4>5. mem[b].forwarding = a
        BY <1>1, <1>9, <4>3, <4>4, FreshIsAlone
      <4>6. Fresh(c)
        BY <4>1, <4>3, <4>4, <4>5 DEF Fresh
      <4> QED BY <1>10, <4>6
    <3> QED BY <3>1, <3>2, <3>3
  <2>2. ASSUME NEW a \in Heap, LiveCopy(a), ~Fresh(a) PROVE mem'[a].val = written'[mem[a].of]
    <3>1. CASE a = c
      BY <1>5, <1>6, <1>7, <1>12, <3>1
    <3>2. CASE a # c
      <4>1. mem[a].of # b
        BY <1>9, <1>11, <1>12, <2>2, <3>2 DEF CopiesInv
      <4>2. mem[a].of \in Byref
        <5>1. mem[a] \in HeapByref
          BY <1>1, <2>2 DEF CoreInv, HeapInv, HeapBlock, FreeCell, LiveCopy, IsByref
        <5> QED BY <5>1 DEF HeapByref
      <4> QED BY <1>5, <1>6, <1>9, <2>2, <3>2, <4>1, <4>2 DEF ValuesInv
    <3> QED BY <3>1, <3>2
  <2>3. \A y \in Byref : scope' = "open" /\ (mem'[y].forwarding = y \/ PayloadMoving(y)') => mem'[y].val = written'[y]
    BY <1>8, <1>14, <1>15, <2>1
  <2>4. \A a \in Heap : LiveCopy(a)' /\ ~(Fresh(a)') => mem'[a].val = written'[mem'[a].of]
    BY <1>15, <1>16, <2>2
  <2> QED BY <2>3, <2>4 DEF ValuesInv
<1> QED BY <1>17, <1>18, <1>19 DEF VariableInv

-----------------------------------------------------------------------------
(* The declaring function is idle when its scope ends, so it moves nothing. *)

LEMMA ScopeIsOne ==
  ASSUME IInv, VariableInv, CloseScope
  PROVE  VariableInv'
<1>1. CoreInv /\ CopiesInv /\ FreshInv /\ ValuesInv
  BY DEF IInv, VariableInv
<1>2. scope' = "closing" /\ written' = written
  BY DEF CloseScope
<1>3. /\ mem' = mem /\ Idle(Main)
      /\ \A p \in LiveFrames : p \in LiveFrames' /\ FrameAt(p)' = FrameAt(p)
      /\ \A p \in LiveFrames' : p \notin LiveFrames => FrameAt(p)'.fn = "byrefRelease"
  BY <1>1, ScopeFrames
<1>4. \A p \in LiveFrames : ~Moves(FrameAt(p))
  BY <1>1, <1>3, MovesAtTop
<1>5. \A p \in LiveFrames' : ~(Moves(FrameAt(p))')
  BY <1>3, <1>4 DEF Moves
<1>6. \A a : ~Fresh(a) /\ ~(Fresh(a)') /\ (LiveCopy(a)' <=> LiveCopy(a))
  BY <1>3, <1>4, <1>5 DEF Fresh, LiveCopy, IsByref
<1>7. CopiesInv'
  BY <1>1, <1>2, <1>3, <1>6 DEF CopiesInv
<1>8. FreshInv'
  BY <1>5 DEF FreshInv
<1>9. ValuesInv'
  BY <1>1, <1>2, <1>3, <1>6 DEF ValuesInv
<1> QED BY <1>7, <1>8, <1>9 DEF VariableInv

LEMMA LeaveIsOne ==
  ASSUME IInv, VariableInv, LeaveFrame
  PROVE  VariableInv'
<1>1. CoreInv /\ CopiesInv /\ FreshInv /\ ValuesInv
  BY DEF IInv, VariableInv
<1>2. /\ scope = "closing" /\ scope' = "closed" /\ written' = written /\ stack' = stack
      /\ mem' = [a \in Addr |-> IF a \in Byref \cup Literal THEN FreeCell ELSE mem[a]]
  BY DEF LeaveFrame
<1>3. \A a \in Heap : mem'[a] = mem[a]
  BY <1>2, Apart DEF Addr
<1>4. LiveFrames' = LiveFrames /\ \A p : FrameAt(p)' = FrameAt(p)
  BY <1>2 DEF LiveFrames, FrameAt
<1>5. \A p \in LiveFrames : ~Moves(FrameAt(p))
  BY <1>1, <1>2, MovesAtTop
<1>6. \A a \in Heap : ~Fresh(a) /\ (LiveCopy(a)' <=> LiveCopy(a))
  BY <1>3, <1>5 DEF Fresh, LiveCopy, IsByref
<1>7. CopiesInv'
  BY <1>1, <1>2, <1>3, <1>6 DEF CopiesInv
<1>8. FreshInv'
  BY <1>4, <1>5 DEF FreshInv, Moves
<1>9. ValuesInv'
  BY <1>1, <1>2, <1>3, <1>6 DEF ValuesInv
<1> QED BY <1>7, <1>8, <1>9 DEF VariableInv

LEMMA StaysOne ==
  ASSUME VariableInv, UNCHANGED vars
  PROVE  VariableInv'
<1>1. UNCHANGED <<mem, var, stack, busy, scope, retains, written>>
  BY DEF vars
<1>2. LiveFrames' = LiveFrames /\ \A p : FrameAt(p)' = FrameAt(p)
  BY <1>1 DEF LiveFrames, FrameAt
<1>3. \A a : /\ LiveCopy(a)' <=> LiveCopy(a)
             /\ Fresh(a)' <=> Fresh(a)
             /\ PayloadMoving(a)' <=> PayloadMoving(a)
             /\ StackOwners(a)' = StackOwners(a)
  <2>1. \A a : (LiveCopy(a)' <=> LiveCopy(a)) /\ (Fresh(a)' <=> Fresh(a))
    BY <1>1, <1>2 DEF LiveCopy, IsByref, Fresh, Moves
  <2>2. \A a : (PayloadMoving(a)' <=> PayloadMoving(a)) /\ StackOwners(a)' = StackOwners(a)
    BY <1>1, <1>2 DEF PayloadMoving, StackOwners, StackOwns
  <2> QED BY <2>1, <2>2
<1>4. CopiesInv /\ FreshInv /\ ValuesInv
  BY DEF VariableInv
<1>5. CopiesInv'
  BY <1>1, <1>3, <1>4 DEF CopiesInv
<1>6. FreshInv'
  BY <1>1, <1>2, <1>4 DEF FreshInv, Moves
<1>7. ValuesInv'
  BY <1>1, <1>3, <1>4 DEF ValuesInv
<1> QED BY <1>5, <1>6, <1>7 DEF VariableInv

LEMMA InitIsOne ==
  ASSUME Init
  PROVE  VariableInv
<1>1. CoreInv /\ (\A a \in Heap : mem[a].kind = "free")
  <2>1. CoreInv
    BY InitInv DEF IInv
  <2>2. ASSUME NEW a \in Heap PROVE mem[a].kind = "free"
    <3>1. a \in Addr /\ a \notin Literal /\ a \notin Byref /\ a # GlobalBlock
      BY Apart DEF Addr
    <3>2. mem[a] = FreeCell
      BY <3>1 DEF Init
    <3> QED BY <3>2 DEF FreeCell
  <2> QED BY <2>1, <2>2
<1>2. stack = [t \in Thread |-> <<>>] /\ written = [b \in Byref |-> 0]
  BY DEF Init
<1>3. LiveFrames = {}
  <2>1. \A t \in Thread : DOMAIN stack[t] = {}
    BY <1>2
  <2> QED BY <2>1 DEF LiveFrames
<1>4. ASSUME NEW b \in Byref PROVE mem[b].val = 0
  <2>1. b \in Addr /\ b \notin Literal
    BY Apart DEF Addr, Stack
  <2>2. mem[b] = ByrefCell("stack", 0, b, b, 0)
    BY <2>1 DEF Init
  <2> QED BY <2>2 DEF ByrefCell
<1>5. \A a \in Heap : ~LiveCopy(a)
  BY <1>1 DEF LiveCopy, IsByref
<1>6. CopiesInv /\ FreshInv
  BY <1>3, <1>5 DEF CopiesInv, FreshInv
<1>7. ValuesInv
  BY <1>2, <1>4, <1>5 DEF ValuesInv
<1> QED BY <1>6, <1>7 DEF VariableInv

LEMMA RuntimeIsOne ==
  ASSUME IInv, WellCaptured, VariableInv, NEW t \in Thread, RuntimeStep(t)
  PROVE  VariableInv'
<1>0. CoreInv /\ (IInv' => CoreInv')
  BY DEF IInv
<1>1. CASE CopyNull(t) \/ CopyHeap(t) \/ CopyGlobal(t) \/ CopyStackFails(t)
  <2>1. IInv' /\ StepKept(t) /\ NothingMoves(t)
    BY Zenon, <1>1, CopyReturns
  <2> QED BY Zenon, <1>0, <2>1, VariablesKept
<1>2. CASE CopyStack(t) \/ AssignInPlace(t) \/ AssignBlockOrByref(t) \/ CopyDone(t)
  <2>1. IInv' /\ StepKept(t) /\ NothingMoves(t)
    BY Zenon, <1>2, CopyStackStep, AssignInPlaceStep, AssignBlockOrByrefStep, CopyDoneStep
  <2> QED BY Zenon, <1>0, <2>1, VariablesKept
<1>3. CASE ByrefCopyAgain(t) \/ ByrefIncrement(t) \/ ByrefCopyReturn(t)
  <2>1. IInv' /\ StepKept(t) /\ NothingMoves(t)
    BY Zenon, <1>3, ByrefCopyAgainStep, ByrefIncrementStep, ByrefCopyReturnStep
  <2> QED BY Zenon, <1>0, <2>1, VariablesKept
<1>4. CASE ReleaseNothing(t) \/ ReleaseShared(t) \/ ReleaseDone(t) \/ ByrefReleaseShared(t) \/ ByrefReleaseDone(t)
  <2>1. IInv' /\ StepKept(t) /\ NothingMoves(t)
    BY Zenon, <1>4, ReleaseReturns, ByrefReleaseReturns
  <2> QED BY Zenon, <1>0, <2>1, VariablesKept
<1>5. CASE ReleaseLast(t) \/ DisposeInPlace(t) \/ DisposeBlockOrByref(t)
  <2>1. IInv' /\ StepKept(t) /\ NothingMoves(t)
    BY Zenon, <1>5, ReleaseLastStep, DisposeInPlaceStep, DisposeBlockOrByrefStep
  <2> QED BY Zenon, <1>0, <2>1, VariablesKept
<1>6. CASE ByrefReleaseLoad(t) \/ ByrefReleaseLast(t)
  <2>1. IInv' /\ StepKept(t) /\ NothingMoves(t)
    BY Zenon, <1>6, ByrefReleaseLoadStep, ByrefReleaseLastStep
  <2> QED BY Zenon, <1>0, <2>1, VariablesKept
<1>7. CASE ByrefCopyFirst(t) \/ ByrefPublish(t) \/ ByrefPayload(t)
  BY Zenon, <1>7, CopyFirstIsOne, PublishIsOne, PayloadIsOne
<1> QED BY Zenon, <1>1, <1>2, <1>3, <1>4, <1>5, <1>6, <1>7 DEF RuntimeStep

LEMMA ProgramIsOne ==
  ASSUME IInv, WellCaptured, ~SharedFrame, VariableInv, NEW t \in Thread, ProgramStep(t)
  PROVE  VariableInv'
<1>0. CoreInv /\ (IInv' => CoreInv')
  BY DEF IInv
<1>1. CASE CopyBlock(t) \/ CopyNested(t) \/ DropBlock(t)
  <2>1. IInv' /\ StepKept(t) /\ NothingMoves(t)
    BY Zenon, <1>1, CopyBlockStep, CopyNestedStep, DropBlockStep
  <2> QED BY Zenon, <1>0, <2>1, VariablesKept
<1>2. CASE WriteVariable(t)
  BY Zenon, <1>2, WriteIsOne
<1> QED BY Zenon, <1>1, <1>2 DEF ProgramStep

LEMMA NextIsOne ==
  ASSUME IInv, WellCaptured, ~SharedFrame, VariableInv, [Next]_vars
  PROVE  VariableInv'
BY Zenon, RuntimeIsOne, ProgramIsOne, ScopeIsOne, LeaveIsOne, StaysOne DEF Next

-----------------------------------------------------------------------------
(* What a program sees of it *)

LEMMA CopyIsOne ==
  ASSUME VariableInv
  PROVE  OneHeapCopy
BY DEF VariableInv, CopiesInv, LiveCopy, IsByref, StackOwners, OneHeapCopy

LEMMA CountIsAboveZero ==
  ASSUME IInv
  PROVE  RefcountAsserted
<1>1. CoreInv
  BY DEF IInv
<1>2. SUFFICES ASSUME NEW t \in Thread, InAt(t, "byrefRelease", "decrement")
               PROVE  mem[Head(stack[t]).arg].count # 0
  BY DEF RefcountAsserted
<1>3. PICK f, p, a : f = Head(stack[t]) /\ p = Top(t) /\ a = f.arg
  BY Zenon
<1>4. ~Idle(t) /\ f.fn = "byrefRelease" /\ f.pc = "decrement"
  BY <1>2, <1>3 DEF InAt, In, Idle
<1>5. p \in LiveFrames /\ FrameAt(p) = f /\ ReleaseInv(p)
  BY <1>1, <1>3, <1>4, Running DEF FrameInv
<1>6. a \in Heap
  BY <1>3, <1>4, <1>5 DEF ReleaseInv, IsByref
<1>7. FrameOwners(a) # {}
  <2>1. p \in FrameOwners(a)
    BY <1>3, <1>4, <1>5 DEF FrameOwners, FrameOwns
  <2> QED BY <2>1
<1>8. mem[a].count >= 1
  BY <1>1, <1>6, <1>7, Owned DEF CoreInv
<1> QED BY <1>3, <1>8

\* what a Block or the scope sees at the home of a __block variable
Settled(p) ==
  mem[p].kind = "byref" /\ LET x == mem[mem[p].forwarding] IN x.kind = "byref" /\ x.val = written[x.of]

LEMMA StackSettled ==
  ASSUME IInv, VariableInv, scope = "open", NEW b \in Byref, ~PayloadMoving(b)
  PROVE  Settled(b)
<1>1. CoreInv /\ FreshInv /\ ValuesInv
  BY DEF IInv, VariableInv
<1>2. PICK d : d = mem[b].forwarding
  OBVIOUS
<1>3. /\ mem[b] = ByrefCell("stack", 0, mem[b].forwarding, b, mem[b].val)
      /\ d \in Heap \cup {b} /\ (d # b => IsByref(d) /\ mem[d].of = b)
  BY Zenon, <1>1, <1>2 DEF CoreInv, StackInv
<1>4. mem[b].kind = "byref" /\ mem[b].of = b
  BY <1>3 DEF ByrefCell
<1>5. CASE d = b
  BY <1>1, <1>2, <1>4, <1>5 DEF ValuesInv, Settled
<1>6. CASE d # b
  <2>1. IsByref(d) /\ d \in Heap /\ mem[d].kind = "byref" /\ mem[d].of = b
    BY <1>3, <1>6 DEF IsByref
  <2>2. StackOwners(d) # {}
    <3>1. b \in StackOwners(d)
      BY <1>2 DEF StackOwners, StackOwns
    <3> QED BY <3>1
  <2>3. LiveCopy(d)
    BY <1>1, <2>1, <2>2, Owned DEF LiveCopy, CoreInv
  <2>4. ~Fresh(d)
    <3>1. SUFFICES ASSUME NEW p \in LiveFrames, Moves(FrameAt(p)), FrameAt(p).copy = d PROVE FALSE
      BY DEF Fresh
    <3>2. PICK f, y : f = FrameAt(p) /\ y = f.arg
      OBVIOUS
    <3>3. y = b /\ mem[b].forwarding = IF f.pc = "publish" THEN b ELSE d
      BY <1>1, <2>1, <3>1, <3>2, FreshIsAlone
    <3>4. f.pc = "payload"
      BY <1>2, <1>6, <3>1, <3>2, <3>3 DEF Moves
    <3> QED BY <3>1, <3>2, <3>3, <3>4 DEF PayloadMoving, Moves
  <2>5. mem[d].val = written[mem[d].of]
    BY <1>1, <2>1, <2>3, <2>4 DEF ValuesInv
  <2> QED BY <1>2, <1>4, <2>1, <2>5 DEF Settled
<1> QED BY <1>5, <1>6

LEMMA HeldSettled ==
  ASSUME IInv, WellCaptured, VariableInv, NEW v \in Var, var[v] # NULL, NEW i \in ByrefFields(mem[var[v]]),
         NEW p, p = mem[var[v]].fields[i]
  PROVE  Settled(p)
<1>1. CoreInv /\ FieldsInv /\ FreshInv /\ ValuesInv
  BY DEF IInv, VariableInv
<1>2. PICK a : a = var[v]
  OBVIOUS
<1>3. i \in DOMAIN mem[a].fields /\ FlagsOf(mem[a], i) \cap BLOCK_FIELD_IS_BYREF # {} /\ p = mem[a].fields[i]
  BY <1>2 DEF ByrefFields
<1>4. a # GlobalBlock
  <2>1. mem[GlobalBlock].fields = <<>>
    BY <1>1 DEF CoreInv, StackInv, Block
  <2> QED BY <1>3, <2>1
<1>5. Whole(a)
  BY <1>1, <1>2, <1>4, HeldIsWhole DEF CoreInv, ProgramInv
<1>6. a \in Heap /\ mem[a].kind = "block" /\ <<a, i>> \in HelpedFields
  BY <1>3, <1>5 DEF Whole, IsBlock
<1>7. mem[a] \in HeapBlock /\ Len(mem[a].fields) = Len(Captures[mem[a].lit])
  BY <1>1, <1>6 DEF CoreInv, HeapInv, FreeCell, HeapByref
<1>8. PICK l \in Literal : l = mem[a].lit
  BY <1>7 DEF HeapBlock
<1>9. i \in DOMAIN Captures[l]
  <2>1. mem[a].fields \in Seq(Pointer) /\ Captures[l] \in Seq([flags : SUBSET Bit, of : Pointer])
    BY Zenon, <1>7, ProgramAssumption DEF HeapBlock
  <2> QED BY <1>3, <1>7, <1>8, <2>1
<1>10. KindOf(<<a, i>>) = "byref" /\ Field(<<a, i>>) = p
  <2>1. FlagsOf(mem[a], i) = Captures[l][i].flags
    BY <1>8 DEF FlagsOf
  <2>2. AssignKind(Captures[l][i].flags) = "byref"
    BY <1>3, <1>9, <2>1 DEF WellCaptured
  <2> QED BY <1>3, <2>1, <2>2 DEF KindOf, Field
<1>11. IsByref(p)
  BY <1>1, <1>6, <1>10 DEF FieldsInv, FieldOk
<1>12. p \in Heap /\ mem[p].kind = "byref" /\ mem[p].forwarding = p
  BY <1>1, <1>11 DEF IsByref, CoreInv, HeapInv
<1>13. FieldOwners(p) # {}
  <2>1. <<a, i>> \in FieldOwners(p)
    BY <1>6, <1>10 DEF FieldOwners
  <2> QED BY <2>1
<1>14. LiveCopy(p)
  BY <1>1, <1>11, <1>12, <1>13, Owned DEF LiveCopy, CoreInv
<1>15. ~Fresh(p)
  <2>1. SUFFICES ASSUME NEW q \in LiveFrames, Moves(FrameAt(q)), FrameAt(q).copy = p PROVE FALSE
    BY DEF Fresh
  <2>2. PICK f, y : f = FrameAt(q) /\ y = f.arg
    OBVIOUS
  <2> QED BY <1>1, <1>13, <2>1, <2>2, FreshIsAlone
<1>16. mem[p].val = written[mem[p].of]
  BY <1>1, <1>12, <1>14, <1>15 DEF ValuesInv
<1> QED BY <1>12, <1>16 DEF Settled

LEMMA ValueIsShared ==
  ASSUME IInv, WellCaptured, VariableInv
  PROVE  SharedValue
<1>1. SUFFICES ASSUME NEW p \in Accessible PROVE Settled(p)
  BY DEF SharedValue, Settled
<1>2. CASE scope = "open" /\ p \in {b \in Byref : ~PayloadMoving(b)}
  BY <1>2, StackSettled
<1>3. CASE \E v \in Var : var[v] # NULL /\ \E i \in ByrefFields(mem[var[v]]) : p = mem[var[v]].fields[i]
  BY <1>3, HeldSettled
<1> QED BY <1>1, <1>2, <1>3 DEF Accessible

\* A __block variable is one variable: in the middle of any copy or release there is
\* one copy of it on the heap that is not being disposed of, whoever may use it reads
\* the value last written, and the assertion of _Block_byref_release holds.
THEOREM VariableIsOne == ~SharedFrame /\ WellCaptured => (Spec => []OneVariable)
<1>1. SUFFICES ASSUME ~SharedFrame, WellCaptured PROVE Spec => []OneVariable
  OBVIOUS
<1>2. DEFINE One == IInv /\ VariableInv
<1>3. Init => One
  BY InitInv, InitIsOne
<1>4. One /\ [Next]_vars => One'
  <2>1. SUFFICES ASSUME IInv, VariableInv, [Next]_vars PROVE IInv' /\ VariableInv'
    OBVIOUS
  <2>2. IInv'
    BY <1>1, <2>1, NextInv
  <2>3. VariableInv'
    BY <1>1, <2>1, NextIsOne
  <2> QED BY <2>2, <2>3
<1>5. One => OneVariable
  <2>1. SUFFICES ASSUME IInv, VariableInv PROVE OneVariable
    OBVIOUS
  <2> QED BY <1>1, <2>1, CopyIsOne, CountIsAboveZero, ValueIsShared DEF OneVariable
<1> QED BY <1>3, <1>4, <1>5, PTL DEF Spec

-----------------------------------------------------------------------------
(* The stack variable stays with its copy *)

ForwardingStays ==
  \A b \in Byref :
    mem[b].kind = "byref" /\ mem[b].forwarding # b /\ mem'[b].kind = "byref"
      => mem'[b].forwarding = mem[b].forwarding

LEMMA StaysWithCopy ==
  ASSUME IInv, WellCaptured, ~SharedFrame, [Next]_vars
  PROVE  ForwardingStays
<1>1. ASSUME NEW t \in Thread, StepKept(t), NothingMoves(t) PROVE ForwardingStays
  BY <1>1 DEF NothingMoves, ForwardingStays
<1>2. ASSUME NEW t \in Thread, RuntimeStep(t) PROVE ForwardingStays
  <2>1. CASE CopyNull(t) \/ CopyHeap(t) \/ CopyGlobal(t) \/ CopyStackFails(t)
    BY Zenon, <1>1, <2>1, CopyReturns
  <2>2. CASE CopyStack(t) \/ AssignInPlace(t) \/ AssignBlockOrByref(t) \/ CopyDone(t)
    BY Zenon, <1>1, <2>2, CopyStackStep, AssignInPlaceStep, AssignBlockOrByrefStep, CopyDoneStep
  <2>3. CASE ByrefCopyAgain(t) \/ ByrefIncrement(t) \/ ByrefCopyReturn(t)
    BY Zenon, <1>1, <2>3, ByrefCopyAgainStep, ByrefIncrementStep, ByrefCopyReturnStep
  <2>4. CASE ReleaseNothing(t) \/ ReleaseShared(t) \/ ReleaseDone(t) \/ ByrefReleaseShared(t) \/ ByrefReleaseDone(t)
    BY Zenon, <1>1, <2>4, ReleaseReturns, ByrefReleaseReturns
  <2>5. CASE ReleaseLast(t) \/ DisposeInPlace(t) \/ DisposeBlockOrByref(t)
    BY Zenon, <1>1, <2>5, ReleaseLastStep, DisposeInPlaceStep, DisposeBlockOrByrefStep
  <2>6. CASE ByrefReleaseLoad(t) \/ ByrefReleaseLast(t)
    BY Zenon, <1>1, <2>6, ByrefReleaseLoadStep, ByrefReleaseLastStep
  <2>7. CASE ByrefCopyFirst(t)
    <3>1. PICK P, b, c : MoveGoesOn(t, P, b, c, "publish") /\ mem'[b] = mem[b]
      BY Zenon, <2>7, ByrefCopyFirstStep
    <3> QED BY <3>1 DEF MoveGoesOn, ForwardingStays
  <2>8. CASE ByrefPublish(t)
    <3>1. PICK P, b, c : MoveGoesOn(t, P, b, c, "payload") /\ mem[b].forwarding = b
      BY Zenon, <2>8, ByrefPublishStep
    <3> QED BY <3>1 DEF MoveGoesOn, ForwardingStays
  <2>9. CASE ByrefPayload(t)
    <3>1. PICK P, b, c : MoveGoesOn(t, P, b, c, "return") /\ mem'[b] = mem[b]
      BY Zenon, <2>9, ByrefPayloadStep
    <3> QED BY <3>1 DEF MoveGoesOn, ForwardingStays
  <2> QED BY Zenon, <1>2, <2>1, <2>2, <2>3, <2>4, <2>5, <2>6, <2>7, <2>8, <2>9 DEF RuntimeStep
<1>3. ASSUME NEW t \in Thread, ProgramStep(t) PROVE ForwardingStays
  <2>1. CASE CopyBlock(t) \/ CopyNested(t) \/ DropBlock(t)
    BY Zenon, <1>1, <2>1, CopyBlockStep, CopyNestedStep, DropBlockStep
  <2>2. CASE WriteVariable(t)
    <3>1. StepKept(t) /\ Idle(t)
      BY <2>2, WriteVariableStep DEF WriteVariable
    <3> QED BY <3>1 DEF StepKept, MemKept, ForwardingStays
  <2> QED BY Zenon, <1>3, <2>1, <2>2 DEF ProgramStep
<1>4. CASE CloseScope \/ UNCHANGED vars
  <2>1. mem' = mem
    BY <1>4 DEF CloseScope, vars
  <2> QED BY <2>1 DEF ForwardingStays
<1>5. CASE LeaveFrame
  <2>1. mem' = [a \in Addr |-> IF a \in Byref \cup Literal THEN FreeCell ELSE mem[a]]
    BY <1>5 DEF LeaveFrame
  <2>2. \A b \in Byref : b \in Addr
    BY DEF Addr, Stack
  <2>3. \A b \in Byref : mem'[b] = FreeCell
    BY <2>1, <2>2
  <2> QED BY <2>3 DEF FreeCell, ForwardingStays
<1> QED BY Zenon, <1>2, <1>3, <1>4, <1>5 DEF Next

\* A stack variable that has moved to the heap stays with that copy until the
\* function returns: no second copy, failed malloc or release redirects it.
THEOREM ForwardingIsStable == ~SharedFrame /\ WellCaptured => (Spec => ForwardingStable)
<1>1. SUFFICES ASSUME ~SharedFrame, WellCaptured PROVE Spec => ForwardingStable
  OBVIOUS
<1>2. Init => IInv
  BY InitInv
<1>3. IInv /\ [Next]_vars => IInv'
  BY <1>1, NextInv
<1>4. IInv /\ [Next]_vars => [ForwardingStays]_vars
  BY <1>1, StaysWithCopy
<1>5. [][ForwardingStays]_vars => ForwardingStable
  BY DEF ForwardingStable, ForwardingStays
<1> QED BY <1>2, <1>3, <1>4, <1>5, PTL DEF Spec

-----------------------------------------------------------------------------
(* What a literal reaches *)

\* s leads from literal l over literals that capture each other
Leads(s, n, l) ==
  /\ s \in [0 .. n -> Literal] /\ s[0] = l
  /\ \A k \in 0 .. n - 1 : \E i \in DOMAIN Captures[s[k]] : Captures[s[k]][i].of = s[k + 1]

Found(l) ==
  {b \in Byref : \E n \in Nat : \E s \in [0 .. n -> Literal] :
     Leads(s, n, l) /\ \E i \in DOMAIN Captures[s[n]] : Captures[s[n]][i].of = b}

\* one step of the recursion: what l finds at capture i, given what literals find
FoundAt(f, l, i) ==
  LET captured == Captures[l][i] IN
  IF captured.of \in Literal THEN f[captured.of] ELSE {captured.of} \cap Byref

LEMMA FoundIsClosed ==
  ASSUME NEW f, f = [l \in Literal |-> Found(l)], NEW l \in Literal
  PROVE  f[l] = UNION {FoundAt(f, l, i) : i \in DOMAIN Captures[l]}
<1>1. \A m \in Literal : f[m] = Found(m) /\ m \notin Byref
  BY Apart
<1>2. ASSUME NEW b \in Found(l)
      PROVE  \E i \in DOMAIN Captures[l] : b \in FoundAt(f, l, i)
  <2>1. PICK n \in Nat : \E s \in [0 .. n -> Literal] :
               Leads(s, n, l) /\ \E i \in DOMAIN Captures[s[n]] : Captures[s[n]][i].of = b
    BY <1>2 DEF Found
  <2>2. PICK s \in [0 .. n -> Literal] :
               Leads(s, n, l) /\ \E i \in DOMAIN Captures[s[n]] : Captures[s[n]][i].of = b
    BY <2>1
  <2>3. b \in Byref /\ b \notin Literal
    BY <1>2, Apart DEF Found
  <2>4. CASE n = 0
    <3>1. PICK i \in DOMAIN Captures[l] : Captures[l][i].of = b
      BY <2>2, <2>4 DEF Leads
    <3> QED BY <2>3, <3>1 DEF FoundAt
  <2>5. CASE n # 0
    <3>1. PICK r : r = [k \in 0 .. n - 1 |-> s[k + 1]]
      OBVIOUS
    <3>2. n - 1 \in Nat /\ r \in [0 .. n - 1 -> Literal] /\ r[n - 1] = s[n] /\ r[0] = s[1] /\ s[1] \in Literal
      BY <2>2, <2>5, <3>1 DEF Leads
    <3>3. PICK i \in DOMAIN Captures[l] : Captures[l][i].of = s[1]
      BY <2>2, <2>5 DEF Leads
    <3>4. Leads(r, n - 1, s[1])
      <4>1. ASSUME NEW k \in 0 .. (n - 1) - 1
            PROVE  \E j \in DOMAIN Captures[r[k]] : Captures[r[k]][j].of = r[k + 1]
        <5>1. k + 1 \in 0 .. n - 1 /\ k \in 0 .. n - 1 /\ r[k] = s[k + 1] /\ r[k + 1] = s[(k + 1) + 1]
          BY <3>1
        <5> QED BY <2>2, <5>1 DEF Leads
      <4> QED BY <3>2, <4>1 DEF Leads
    <3>5. b \in Found(s[1])
      BY <2>2, <2>3, <3>2, <3>4 DEF Found
    <3> QED BY <1>1, <3>2, <3>3, <3>5 DEF FoundAt
  <2> QED BY <2>4, <2>5
<1>3. ASSUME NEW i \in DOMAIN Captures[l], NEW b \in FoundAt(f, l, i)
      PROVE  b \in Found(l)
  <2>1. PICK m : m = Captures[l][i].of
    OBVIOUS
  <2>2. CASE m \in Literal
    <3>1. b \in Found(m)
      BY <1>1, <1>3, <2>1, <2>2 DEF FoundAt
    <3>2. PICK n \in Nat : \E s \in [0 .. n -> Literal] :
                 Leads(s, n, m) /\ \E j \in DOMAIN Captures[s[n]] : Captures[s[n]][j].of = b
      BY <3>1 DEF Found
    <3>3. PICK s \in [0 .. n -> Literal] :
                 Leads(s, n, m) /\ \E j \in DOMAIN Captures[s[n]] : Captures[s[n]][j].of = b
      BY <3>2
    <3>4. PICK r : r = [k \in 0 .. n + 1 |-> IF k = 0 THEN l ELSE s[k - 1]]
      OBVIOUS
    <3>5. n + 1 \in Nat /\ r \in [0 .. n + 1 -> Literal] /\ r[n + 1] = s[n] /\ r[0] = l
      BY <3>4
    <3>6. Leads(r, n + 1, l)
      <4>1. ASSUME NEW k \in 0 .. (n + 1) - 1
            PROVE  \E j \in DOMAIN Captures[r[k]] : Captures[r[k]][j].of = r[k + 1]
        <5>1. CASE k = 0
          <6>1. r[k] = l /\ r[k + 1] = m
            BY <3>3, <3>4, <5>1 DEF Leads
          <6> QED BY <2>1, <6>1
        <5>2. CASE k # 0
          <6>1. k - 1 \in 0 .. n - 1 /\ r[k] = s[k - 1] /\ r[k + 1] = s[(k - 1) + 1]
            BY <3>4, <5>2
          <6> QED BY <3>3, <6>1 DEF Leads
        <5> QED BY <5>1, <5>2
      <4> QED BY <3>5, <4>1 DEF Leads
    <3>7. b \in Byref
      BY <3>1 DEF Found
    <3> QED BY <3>3, <3>5, <3>6, <3>7 DEF Found
  <2>3. CASE m \notin Literal
    <3>1. b = m /\ b \in Byref
      BY <1>3, <2>1, <2>3 DEF FoundAt
    <3>2. PICK s : s = [k \in 0 .. 0 |-> l]
      OBVIOUS
    <3>3. s \in [0 .. 0 -> Literal] /\ s[0] = l /\ Leads(s, 0, l) /\ 0 \in Nat
      BY <3>2 DEF Leads
    <3> QED BY <2>1, <3>1, <3>3 DEF Found
  <2> QED BY <2>2, <2>3
<1> QED BY <1>1, <1>2, <1>3

\* The recursion of Reaches has a solution, so Reaches is one.
LEMMA ReachesIs ==
  ASSUME NEW l \in Literal
  PROVE  Reaches[l] = UNION {FoundAt(Reaches, l, i) : i \in DOMAIN Captures[l]}
<1>1. PICK f : f = [m \in Literal |-> Found(m)]
  OBVIOUS
<1> DEFINE Solves(g) == g = [m \in Literal |-> UNION {FoundAt(g, m, i) : i \in DOMAIN Captures[m]}]
<1>2. Solves(f)
  <2>1. \A m \in Literal : f[m] = UNION {FoundAt(f, m, i) : i \in DOMAIN Captures[m]}
    BY <1>1, FoundIsClosed
  <2> QED BY <1>1, <2>1
<1>3. Reaches = CHOOSE g : Solves(g)
  BY DEF Reaches, FoundAt
<1> HIDE DEF Solves
<1>4. Solves(Reaches)
  BY Zenon, <1>2, <1>3
<1> QED BY <1>4 DEF Solves

-----------------------------------------------------------------------------
(* Storage that acts as if it were allocated *)

\* A __block variable has one copy on the heap, dying ones included, with the value
\* last written once it is complete; its stack variable refers to it until the
\* function returns, and has the value itself until then if it was never copied.
HomesInv ==
  /\ \A a \in Heap : IsByref(a) =>
       /\ \A c \in Heap : IsByref(c) /\ mem[c].of = mem[a].of => c = a
       /\ scope = "open" => mem[a].of \in StackOwners(a)
       /\ scope = "closing" => mem[mem[a].of].forwarding = a
       /\ ~Fresh(a) => mem[a].val = written[mem[a].of]
  /\ \A b \in Byref : scope = "closing" /\ mem[b].forwarding = b => mem[b].val = written[b]

\* A captured Block that the compiler put there is there, also in a Block that is
\* being made: no malloc fails.
FilledCell(a) ==
  mem[a].kind = "block" =>
    \A i \in DOMAIN mem[a].fields :
      Captures[mem[a].lit][i].of \in Literal => mem[a].fields[i] \notin {NULL, GlobalBlock}

\* The program copies literals and held Blocks; a copy helper copies what was captured.
Copies(p) ==
  LET f == FrameAt(p) IN
  f.fn = "copy" =>
    IF IsVar(f.dest)
    THEN f.arg # GlobalBlock /\ (f.arg \in Heap => \E v \in busy[p[1]] : var[v] = f.arg)
    ELSE Awaited(f.dest).of \in Literal => f.arg \notin {NULL, GlobalBlock}

CapturedInv ==
  /\ \A a \in Heap : FilledCell(a)
  /\ \A p \in LiveFrames : Copies(p)
  /\ \A v \in Var : var[v] # GlobalBlock

\* A copy on the heap is not dying as long as the scope is open.
LEMMA OpenKeepsCopies ==
  ASSUME CoreInv, HomesInv, scope = "open", NEW a \in Heap, IsByref(a)
  PROVE  LiveCopy(a)
<1>1. StackOwners(a) # {}
  BY DEF HomesInv
<1> QED BY <1>1, Owned DEF CoreInv, LiveCopy

LEMMA HomesKept ==
  ASSUME CoreInv, HomesInv, NEW t \in Thread, StepKept(t), NothingMoves(t)
  PROVE  HomesInv'
<1>1. \A a : Fresh(a)' <=> Fresh(a)
  BY MovesKept
<1>2. scope' = scope /\ written' = written /\ \A b \in Byref : mem'[b] = mem[b]
  BY DEF StepKept, ProgramKept, NothingMoves
<1>3. ASSUME NEW a \in Heap PROVE StackOwners(a)' = StackOwners(a)
  <2>1. ~Idle(t) => ~(FrameAt(Top(t)).fn = "byrefCopy" /\ FrameAt(Top(t)).pc = "publish")
    BY DEF NothingMoves, Moves
  <2>2. \A p \in LiveFrames' : p \notin LiveFrames \/ p = Top(t) =>
          ~(FrameAt(p)'.fn = "byrefCopy" /\ FrameAt(p)'.pc = "publish")
    BY DEF NothingMoves, Moves, Changed
  <2>3. \A b \in Byref : mem'[b].forwarding = mem[b].forwarding
    BY <1>2
  <2> QED BY <2>1, <2>2, <2>3, StackOwnersKept
<1>4. ASSUME NEW a \in Heap, IsByref(a)'
      PROVE  IsByref(a) /\ mem'[a].of = mem[a].of /\ mem'[a].val = mem[a].val /\ mem[a].of \in Byref
  <2>1. IsByref(a) /\ mem'[a].of = mem[a].of /\ mem'[a].val = mem[a].val
    BY <1>4 DEF IsByref, NothingMoves, Recounted
  <2>2. mem[a] \in HeapByref
    BY <2>1 DEF CoreInv, HeapInv, HeapBlock, FreeCell, IsByref
  <2> QED BY <2>1, <2>2 DEF HeapByref
<1>5. \A b \in Byref : scope' = "closing" /\ mem'[b].forwarding = b => mem'[b].val = written'[b]
  BY <1>2 DEF HomesInv
<1>6. ASSUME NEW a \in Heap, IsByref(a)'
      PROVE  /\ \A c \in Heap : IsByref(c)' /\ mem'[c].of = mem'[a].of => c = a
             /\ scope' = "open" => mem'[a].of \in StackOwners(a)'
             /\ scope' = "closing" => mem'[mem'[a].of].forwarding = a
             /\ ~(Fresh(a)') => mem'[a].val = written'[mem'[a].of]
  BY <1>1, <1>2, <1>3, <1>4, <1>6 DEF HomesInv
<1> QED BY <1>5, <1>6 DEF HomesInv

\* While the scope is open, the copies on the heap are those that somebody owns.
LEMMA OpenHomes ==
  ASSUME VariableInv', scope' = "open", \A a \in Heap : IsByref(a)' => LiveCopy(a)'
  PROVE  HomesInv'
<1>1. /\ \A a \in Heap : LiveCopy(a)' =>
           /\ \A c \in Heap : LiveCopy(c)' /\ mem'[c].of = mem'[a].of => c = a
           /\ mem'[a].of \in StackOwners(a)'
           /\ ~(Fresh(a)') => mem'[a].val = written'[mem'[a].of]
  BY DEF VariableInv, CopiesInv, ValuesInv
<1> QED BY <1>1 DEF HomesInv

LEMMA CopyFirstHomes ==
  ASSUME IInv, VariableInv, HomesInv, NEW t \in Thread, ByrefCopyFirst(t)
  PROVE  HomesInv'
<1>1. CoreInv /\ StepKept(t) /\ VariableInv'
  BY ByrefCopyFirstStep, CopyFirstIsOne DEF IInv
<1>2. PICK P, b, c : /\ MoveGoesOn(t, P, b, c, "publish") /\ mem'[c].kind = "byref" /\ ~mem'[c].dying
  BY Zenon, ByrefCopyFirstStep
<1>3. scope = "open" /\ scope' = "open" /\ \A a \in Heap : a # c => mem'[a] = mem[a]
  BY <1>1, <1>2 DEF MoveGoesOn, StepKept, ProgramKept
<1>4. ASSUME NEW a \in Heap, IsByref(a)' PROVE LiveCopy(a)'
  <2>1. CASE a = c
    BY <1>2, <1>4, <2>1 DEF LiveCopy
  <2>2. CASE a # c
    <3>1. IsByref(a) /\ mem'[a] = mem[a]
      BY <1>3, <1>4, <2>2 DEF IsByref
    <3>2. LiveCopy(a)
      BY <1>1, <1>3, <3>1, OpenKeepsCopies
    <3> QED BY <1>4, <3>1, <3>2 DEF LiveCopy
  <2> QED BY <2>1, <2>2
<1> QED BY <1>1, <1>3, <1>4, OpenHomes

LEMMA PublishHomes ==
  ASSUME IInv, VariableInv, HomesInv, NEW t \in Thread, ByrefPublish(t)
  PROVE  HomesInv'
<1>1. CoreInv /\ StepKept(t) /\ VariableInv'
  BY ByrefPublishStep, PublishIsOne DEF IInv
<1>2. PICK P, b, c :
        /\ MoveGoesOn(t, P, b, c, "payload") /\ FrameAt(P).pc = "publish" /\ FrameAt(P).copy = c
        /\ mem[b].forwarding = b /\ mem'[b].forwarding = c /\ mem'[b].val = mem[b].val
        /\ mem'[c] = mem[c]
  BY Zenon, ByrefPublishStep
<1>3. scope = "open" /\ scope' = "open" /\ \A a \in Heap : mem'[a] = mem[a]
  BY <1>1, <1>2 DEF MoveGoesOn, StepKept, ProgramKept
<1>4. ASSUME NEW a \in Heap, IsByref(a)' PROVE LiveCopy(a)'
  <2>1. IsByref(a) /\ mem'[a] = mem[a]
    BY <1>3, <1>4 DEF IsByref
  <2>2. LiveCopy(a)
    BY <1>1, <1>3, <2>1, OpenKeepsCopies
  <2> QED BY <1>4, <2>1, <2>2 DEF LiveCopy
<1> QED BY <1>1, <1>3, <1>4, OpenHomes

LEMMA PayloadHomes ==
  ASSUME IInv, VariableInv, HomesInv, NEW t \in Thread, ByrefPayload(t)
  PROVE  HomesInv'
<1>1. CoreInv /\ StepKept(t) /\ VariableInv'
  BY ByrefPayloadStep, PayloadIsOne DEF IInv
<1>2. PICK P, b, c :
        /\ MoveGoesOn(t, P, b, c, "return") /\ FrameAt(P).pc = "payload" /\ FrameAt(P).copy = c
        /\ mem'[b] = mem[b]
        /\ mem'[c].kind = "byref" /\ mem'[c].of = mem[c].of /\ mem'[c].dying = mem[c].dying
        /\ mem'[c].val = mem[b].val
  BY Zenon, ByrefPayloadStep
<1>3. /\ scope = "open" /\ scope' = "open" /\ \A a \in Heap : a # c => mem'[a] = mem[a]
      /\ P \in LiveFrames /\ FrameAt(P).fn = "byrefCopy"
  BY <1>1, <1>2 DEF MoveGoesOn, StepKept, ProgramKept
<1>4. IsByref(c)
  <2>1. PICK f, y : f = FrameAt(P) /\ y = f.arg
    OBVIOUS
  <2>2. Moves(f) /\ c = f.copy
    BY <1>2, <1>3, <2>1 DEF Moves
  <2> QED BY <1>1, <1>3, <2>1, <2>2, FreshIsAlone DEF VariableInv, LiveCopy
<1>5. ASSUME NEW a \in Heap, IsByref(a)' PROVE LiveCopy(a)'
  <2>1. IsByref(a) /\ mem'[a].dying = mem[a].dying
    BY <1>2, <1>3, <1>4, <1>5 DEF IsByref
  <2>2. LiveCopy(a)
    BY <1>1, <1>3, <2>1, OpenKeepsCopies
  <2> QED BY <1>5, <2>1, <2>2 DEF LiveCopy
<1> QED BY <1>1, <1>3, <1>5, OpenHomes

\* A write after the scope has closed goes to the copy on the heap.
LEMMA WriteHomes ==
  ASSUME IInv, WellCaptured, ~SharedFrame, VariableInv, HomesInv, NEW t \in Thread, WriteVariable(t)
  PROVE  HomesInv'
<1>1. CoreInv /\ VariableInv'
  BY WriteIsOne DEF IInv
<1>2. UNCHANGED <<var, stack, busy, scope, retains>>
  BY DEF WriteVariable
<1>3. PICK b \in Byref, c \in Addr :
        /\ mem' = [mem EXCEPT ![c].val = 1 - written[b]]
        /\ written' = [written EXCEPT ![b] = 1 - written[b]]
        /\ \/ c = b /\ scope = "open"
           \/ IsByref(c) /\ ~mem[c].dying /\ mem[c].of = b
  BY WriteTarget
<1>4. PICK x : x = 1 - written[b]
  OBVIOUS
<1>5. /\ mem = [a \in Addr |-> mem[a]] /\ \A a \in Byref \cup Heap : a \in Addr
      /\ written \in [Byref -> Value] /\ b \notin Heap
  BY <1>1, Apart DEF CoreInv, StackInv, ProgramInv, Addr, Stack
<1>6. /\ \A a \in Addr : a # c => mem'[a] = mem[a]
      /\ mem'[c] = [mem[c] EXCEPT !.val = x]
      /\ written'[b] = x /\ \A y \in Byref : y # b => written'[y] = written[y]
  BY <1>3, <1>4, <1>5
<1>7. \A p : LiveFrames' = LiveFrames /\ FrameAt(p)' = FrameAt(p)
  BY <1>2 DEF LiveFrames, FrameAt
<1>8. \A a \in Heap : IsByref(a) => mem[a] \in HeapByref
  BY <1>1 DEF CoreInv, HeapInv, HeapBlock, FreeCell, IsByref
<1>9. CASE scope = "open"
  <2>1. ASSUME NEW a \in Heap, IsByref(a)' PROVE LiveCopy(a)'
    <3>1. IsByref(a) /\ mem'[a].dying = mem[a].dying
      <4>1. CASE a # c
        BY <1>5, <1>6, <2>1, <4>1 DEF IsByref
      <4>2. CASE a = c
        <5>1. IsByref(c) /\ mem[c] \in HeapByref
          BY <1>3, <1>5, <1>8, <4>2
        <5> QED BY <1>6, <4>2, <5>1 DEF HeapByref
      <4> QED BY <4>1, <4>2
    <3>2. LiveCopy(a)
      BY <1>1, <1>9, <3>1, OpenKeepsCopies
    <3> QED BY <2>1, <3>1, <3>2 DEF LiveCopy
  <2>2. scope' = "open"
    BY <1>2, <1>9
  <2> QED BY <1>1, <2>1, <2>2, OpenHomes
<1>10. CASE scope # "open"
  <2>1. IsByref(c) /\ mem[c].of = b /\ c \in Heap /\ mem[c] \in HeapByref
    BY <1>3, <1>8, <1>10 DEF IsByref
  <2>2. mem'[c].kind = "byref" /\ mem'[c].of = b /\ mem'[c].val = x /\ mem'[c].forwarding = mem[c].forwarding
    BY <1>6, <2>1 DEF HeapByref
  <2>3. \A y \in Byref : mem'[y] = mem[y]
    BY <1>5, <1>6, <2>1, Apart
  <2>4. ASSUME NEW a \in Heap, IsByref(a)'
        PROVE  IsByref(a) /\ mem'[a].of = mem[a].of /\ mem[a].of \in Byref
    <3>1. IsByref(a)
      BY <1>5, <1>6, <2>1, <2>4 DEF IsByref
    <3>2. mem[a].of \in Byref
      BY <1>8, <3>1 DEF HeapByref
    <3> QED BY <1>5, <1>6, <2>1, <2>2, <3>1, <3>2
  <2>5. \A a : Fresh(a)' <=> Fresh(a)
    BY <1>7 DEF Fresh, Moves
  <2>6. ASSUME NEW a \in Heap, IsByref(a)', ~(Fresh(a)') PROVE mem'[a].val = written'[mem'[a].of]
    <3>1. CASE a = c
      BY <1>6, <2>2, <3>1
    <3>2. CASE a # c
      <4>1. IsByref(a) /\ mem'[a] = mem[a] /\ mem[a].of \in Byref
        BY <1>5, <1>6, <2>4, <2>6, <3>2
      <4>2. mem[a].of # b
        BY <2>1, <3>2, <4>1 DEF HomesInv
      <4> QED BY <1>6, <2>5, <2>6, <4>1, <4>2 DEF HomesInv
    <3> QED BY <3>1, <3>2
  <2>7. \A y \in Byref : scope' = "closing" /\ mem'[y].forwarding = y => mem'[y].val = written'[y]
    <3>1. scope = "closing" => mem[b].forwarding = c
      BY <2>1 DEF HomesInv
    <3>2. b # c
      BY <1>5, <2>1
    <3> QED BY <1>2, <1>6, <2>3, <3>1, <3>2 DEF HomesInv
  <2>8. scope' = scope
    BY <1>2
  <2>9. \A a \in Heap : IsByref(a)' =>
          /\ \A d \in Heap : IsByref(d)' /\ mem'[d].of = mem'[a].of => d = a
          /\ scope' = "closing" => mem'[mem'[a].of].forwarding = a
    BY <2>3, <2>4, <2>8 DEF HomesInv
  <2> QED BY <1>10, <2>6, <2>7, <2>8, <2>9 DEF HomesInv
<1> QED BY <1>9, <1>10

LEMMA ScopeHomes ==
  ASSUME IInv, VariableInv, HomesInv, CloseScope
  PROVE  HomesInv'
<1>1. CoreInv /\ FreshInv /\ ValuesInv
  BY DEF IInv, VariableInv
<1>2. scope = "open" /\ scope' = "closing" /\ written' = written
  BY DEF CloseScope
<1>3. /\ mem' = mem /\ Idle(Main)
      /\ \A p \in LiveFrames : p \in LiveFrames' /\ FrameAt(p)' = FrameAt(p)
      /\ \A p \in LiveFrames' : p \notin LiveFrames => FrameAt(p)'.fn = "byrefRelease"
  BY <1>1, ScopeFrames
<1>4. \A p \in LiveFrames : ~Moves(FrameAt(p))
  BY <1>1, <1>3, MovesAtTop
<1>5. \A a : ~Fresh(a)
  BY <1>4 DEF Fresh
<1>6. ASSUME NEW a \in Heap, IsByref(a) PROVE mem[mem[a].of].forwarding = a
  <2>1. StackOwns(mem[a].of, a)
    BY <1>2, <1>6 DEF HomesInv, StackOwners
  <2> QED BY <1>4, <2>1 DEF StackOwns, Moves
<1>7. \A b \in Byref : mem[b].forwarding = b => mem[b].val = written[b]
  BY <1>1, <1>2 DEF ValuesInv
<1>8. \A a \in Heap : (IsByref(a)' <=> IsByref(a)) /\ (IsByref(a) => mem[a].val = written[mem[a].of])
  BY <1>3, <1>5 DEF HomesInv, IsByref
<1> QED BY <1>2, <1>3, <1>6, <1>7, <1>8 DEF HomesInv

LEMMA LeaveHomes ==
  ASSUME IInv, VariableInv, HomesInv, LeaveFrame
  PROVE  HomesInv'
<1>1. CoreInv /\ FreshInv
  BY DEF IInv, VariableInv
<1>2. /\ scope = "closing" /\ scope' = "closed" /\ written' = written /\ stack' = stack
      /\ mem' = [a \in Addr |-> IF a \in Byref \cup Literal THEN FreeCell ELSE mem[a]]
  BY DEF LeaveFrame
<1>3. \A a \in Heap : mem'[a] = mem[a]
  BY <1>2, Apart DEF Addr
<1>4. \A p \in LiveFrames : ~Moves(FrameAt(p))
  BY <1>1, <1>2, MovesAtTop
<1>5. \A a \in Heap : ~Fresh(a) /\ (IsByref(a)' <=> IsByref(a))
  BY <1>3, <1>4 DEF Fresh, IsByref
<1> QED BY <1>2, <1>3, <1>5 DEF HomesInv

LEMMA StaysHome ==
  ASSUME HomesInv, UNCHANGED vars
  PROVE  HomesInv'
<1>1. UNCHANGED <<mem, var, stack, busy, scope, retains, written>>
  BY DEF vars
<1>2. LiveFrames' = LiveFrames /\ \A p : FrameAt(p)' = FrameAt(p)
  BY <1>1 DEF LiveFrames, FrameAt
<1>3. \A a : (IsByref(a)' <=> IsByref(a)) /\ (Fresh(a)' <=> Fresh(a)) /\ StackOwners(a)' = StackOwners(a)
  <2>1. \A a : (IsByref(a)' <=> IsByref(a)) /\ (Fresh(a)' <=> Fresh(a))
    BY <1>1, <1>2 DEF IsByref, Fresh, Moves
  <2>2. \A a : StackOwners(a)' = StackOwners(a)
    BY <1>1, <1>2 DEF StackOwners, StackOwns
  <2> QED BY <2>1, <2>2
<1> QED BY <1>1, <1>3 DEF HomesInv

LEMMA InitHomes ==
  ASSUME Init
  PROVE  HomesInv
<1>1. ASSUME NEW a \in Heap PROVE ~IsByref(a)
  <2>1. a \in Addr /\ a \notin Literal /\ a \notin Byref /\ a # GlobalBlock
    BY Apart DEF Addr
  <2>2. mem[a] = FreeCell
    BY <2>1 DEF Init
  <2> QED BY <2>2 DEF FreeCell, IsByref
<1>2. scope = "open"
  BY DEF Init
<1> QED BY <1>1, <1>2 DEF HomesInv

LEMMA RuntimeHomes ==
  ASSUME IInv, WellCaptured, VariableInv, HomesInv, NEW t \in Thread, RuntimeStep(t)
  PROVE  HomesInv'
<1>0. CoreInv
  BY DEF IInv
<1>1. CASE CopyNull(t) \/ CopyHeap(t) \/ CopyGlobal(t) \/ CopyStackFails(t)
  <2>1. IInv' /\ StepKept(t) /\ NothingMoves(t)
    BY Zenon, <1>1, CopyReturns
  <2> QED BY Zenon, <1>0, <2>1, HomesKept
<1>2. CASE CopyStack(t) \/ AssignInPlace(t) \/ AssignBlockOrByref(t) \/ CopyDone(t)
  <2>1. IInv' /\ StepKept(t) /\ NothingMoves(t)
    BY Zenon, <1>2, CopyStackStep, AssignInPlaceStep, AssignBlockOrByrefStep, CopyDoneStep
  <2> QED BY Zenon, <1>0, <2>1, HomesKept
<1>3. CASE ByrefCopyAgain(t) \/ ByrefIncrement(t) \/ ByrefCopyReturn(t)
  <2>1. IInv' /\ StepKept(t) /\ NothingMoves(t)
    BY Zenon, <1>3, ByrefCopyAgainStep, ByrefIncrementStep, ByrefCopyReturnStep
  <2> QED BY Zenon, <1>0, <2>1, HomesKept
<1>4. CASE ReleaseNothing(t) \/ ReleaseShared(t) \/ ReleaseDone(t) \/ ByrefReleaseShared(t) \/ ByrefReleaseDone(t)
  <2>1. IInv' /\ StepKept(t) /\ NothingMoves(t)
    BY Zenon, <1>4, ReleaseReturns, ByrefReleaseReturns
  <2> QED BY Zenon, <1>0, <2>1, HomesKept
<1>5. CASE ReleaseLast(t) \/ DisposeInPlace(t) \/ DisposeBlockOrByref(t)
  <2>1. IInv' /\ StepKept(t) /\ NothingMoves(t)
    BY Zenon, <1>5, ReleaseLastStep, DisposeInPlaceStep, DisposeBlockOrByrefStep
  <2> QED BY Zenon, <1>0, <2>1, HomesKept
<1>6. CASE ByrefReleaseLoad(t) \/ ByrefReleaseLast(t)
  <2>1. IInv' /\ StepKept(t) /\ NothingMoves(t)
    BY Zenon, <1>6, ByrefReleaseLoadStep, ByrefReleaseLastStep
  <2> QED BY Zenon, <1>0, <2>1, HomesKept
<1>7. CASE ByrefCopyFirst(t) \/ ByrefPublish(t) \/ ByrefPayload(t)
  BY Zenon, <1>7, CopyFirstHomes, PublishHomes, PayloadHomes
<1> QED BY Zenon, <1>1, <1>2, <1>3, <1>4, <1>5, <1>6, <1>7 DEF RuntimeStep

LEMMA ProgramHomes ==
  ASSUME IInv, WellCaptured, ~SharedFrame, VariableInv, HomesInv, NEW t \in Thread, ProgramStep(t)
  PROVE  HomesInv'
<1>0. CoreInv
  BY DEF IInv
<1>1. CASE CopyBlock(t) \/ CopyNested(t) \/ DropBlock(t)
  <2>1. IInv' /\ StepKept(t) /\ NothingMoves(t)
    BY Zenon, <1>1, CopyBlockStep, CopyNestedStep, DropBlockStep
  <2> QED BY Zenon, <1>0, <2>1, HomesKept
<1>2. CASE WriteVariable(t)
  BY Zenon, <1>2, WriteHomes
<1> QED BY Zenon, <1>1, <1>2 DEF ProgramStep

LEMMA NextHomes ==
  ASSUME IInv, WellCaptured, ~SharedFrame, VariableInv, HomesInv, [Next]_vars
  PROVE  HomesInv'
BY Zenon, RuntimeHomes, ProgramHomes, ScopeHomes, LeaveHomes, StaysHome DEF Next

-----------------------------------------------------------------------------
(* What was captured is there *)

\* A step of t leaves the fields of the Blocks on the heap as they are.
FieldsStay ==
  \A a \in Heap : mem'[a].kind = "block" =>
    mem[a].kind = "block" /\ mem'[a].lit = mem[a].lit /\ mem'[a].fields = mem[a].fields

LEMMA CapturedKept ==
  ASSUME CoreInv, CapturedInv, NEW t \in Thread, StepKept(t),
         \A a \in Heap : FilledCell(a)', \A p \in Changed(t) : Copies(p)', \A v \in Var : var'[v] # GlobalBlock
  PROVE  CapturedInv'
<1>1. ASSUME NEW p \in LiveFrames, p # Top(t) PROVE Copies(p)'
  <2>1. PICK f : f = FrameAt(p)
    OBVIOUS
  <2>2. FrameAt(p)' = f
    BY <1>1, <2>1 DEF StepKept, CallsKept
  <2>3. SUFFICES ASSUME f.fn = "copy" PROVE Copies(p)'
    BY <2>2 DEF Copies
  <2>4. CASE IsVar(f.dest)
    <3>1. f.arg # GlobalBlock /\ (f.arg \in Heap => \E v \in busy[p[1]] : var[v] = f.arg)
      BY <1>1, <2>1, <2>3, <2>4 DEF CapturedInv, Copies
    <3>2. busy'[p[1]] = busy[p[1]] /\ \A v \in busy[p[1]] : var'[v] = var[v]
      BY <1>1, OtherCalls
    <3> QED BY <2>2, <2>4, <3>1, <3>2 DEF Copies
  <2>5. CASE ~IsVar(f.dest)
    <3>1. Awaited(f.dest).of \in Literal => f.arg \notin {NULL, GlobalBlock}
      BY <1>1, <2>1, <2>3, <2>5 DEF CapturedInv, Copies
    <3>2. Awaited(f.dest)' = Awaited(f.dest)
      BY <1>1, <2>1, <2>3, <2>5, DestKept
    <3> QED BY <2>2, <2>5, <3>1, <3>2 DEF Copies
  <2> QED BY <2>4, <2>5
<1> QED BY <1>1 DEF CapturedInv, Changed

LEMMA FilledStays ==
  ASSUME CapturedInv, FieldsStay
  PROVE  \A a \in Heap : FilledCell(a)'
BY DEF CapturedInv, FilledCell, FieldsStay


LEMMA QuietKeepsCaptured ==
  ASSUME CoreInv, CapturedInv, NEW t \in Thread, StepKept(t), FieldsStay, NoCopy(t),
         \A v \in Var : var'[v] \in {var[v], NULL}
  PROVE  CapturedInv'
<1>1. \A p \in Changed(t) : Copies(p)'
  BY DEF NoCopy, Copies
<1>2. \A v \in Var : var'[v] # GlobalBlock
  BY Apart DEF CapturedInv
<1> QED BY <1>1, <1>2, FilledStays, CapturedKept

\* The memory m has the Blocks of the heap with their fields.
KeepsFields(m) ==
  /\ m = [a \in Addr |-> m[a]]
  /\ \A a \in Heap : m[a].kind = "block" =>
       mem[a].kind = "block" /\ m[a].lit = mem[a].lit /\ m[a].fields = mem[a].fields

LEMMA KeptFields ==
  ASSUME CoreInv, NEW c, NEW n
  PROVE  /\ KeepsFields(mem)
         /\ KeepsFields([mem EXCEPT ![c].count = n])
         /\ KeepsFields([mem EXCEPT ![c].count = 0, ![c].dying = TRUE])
         /\ KeepsFields([mem EXCEPT ![c] = FreeCell])
<1>1. mem = [a \in Addr |-> mem[a]] /\ Heap \subseteq Addr
  BY DEF CoreInv, StackInv, Addr
<1>2. ASSUME NEW a \in Heap
      PROVE  /\ [mem[a] EXCEPT !.count = n].kind = mem[a].kind
             /\ [[mem[a] EXCEPT !.count = 0] EXCEPT !.dying = TRUE].kind = mem[a].kind
             /\ mem[a].kind = "block" =>
                  /\ [mem[a] EXCEPT !.count = n].lit = mem[a].lit
                  /\ [mem[a] EXCEPT !.count = n].fields = mem[a].fields
                  /\ [[mem[a] EXCEPT !.count = 0] EXCEPT !.dying = TRUE].lit = mem[a].lit
                  /\ [[mem[a] EXCEPT !.count = 0] EXCEPT !.dying = TRUE].fields = mem[a].fields
  <2>1. mem[a] \in {FreeCell} \cup HeapBlock \cup HeapByref
    BY DEF CoreInv, HeapInv
  <2>2. CASE mem[a] = FreeCell
    BY <2>2 DEF FreeCell
  <2>3. CASE mem[a] \in HeapBlock
    BY <2>3 DEF HeapBlock
  <2>4. CASE mem[a] \in HeapByref
    BY <2>4 DEF HeapByref
  <2> QED BY <2>1, <2>2, <2>3, <2>4
<1>3. KeepsFields(mem)
  BY <1>1 DEF KeepsFields
<1>4. KeepsFields([mem EXCEPT ![c].count = n])
  <2>1. PICK m : m = [mem EXCEPT ![c].count = n]
    OBVIOUS
  <2>2. m = [a \in Addr |-> m[a]] /\ \A a \in Addr : m[a] = IF a = c THEN [mem[a] EXCEPT !.count = n] ELSE mem[a]
    BY <1>1, <2>1
  <2>3. ASSUME NEW a \in Heap, m[a].kind = "block"
        PROVE  mem[a].kind = "block" /\ m[a].lit = mem[a].lit /\ m[a].fields = mem[a].fields
    <3>1. CASE a = c
      <4>1. m[a] = [mem[a] EXCEPT !.count = n]
        BY <1>1, <2>2, <3>1
      <4> QED BY <1>2, <2>3, <4>1
    <3>2. CASE a # c
      BY <1>1, <2>2, <2>3, <3>2
    <3> QED BY <3>1, <3>2
  <2>4. KeepsFields(m)
    BY <2>2, <2>3 DEF KeepsFields
  <2> QED BY <2>1, <2>4
<1>5. KeepsFields([mem EXCEPT ![c].count = 0, ![c].dying = TRUE])
  <2>1. PICK m : m = [mem EXCEPT ![c].count = 0, ![c].dying = TRUE]
    OBVIOUS
  <2>2. /\ m = [a \in Addr |-> m[a]]
        /\ \A a \in Addr : m[a] = IF a = c THEN [[mem[a] EXCEPT !.count = 0] EXCEPT !.dying = TRUE] ELSE mem[a]
    BY <1>1, <2>1
  <2>3. ASSUME NEW a \in Heap, m[a].kind = "block"
        PROVE  mem[a].kind = "block" /\ m[a].lit = mem[a].lit /\ m[a].fields = mem[a].fields
    <3>1. CASE a = c
      <4>1. m[a] = [[mem[a] EXCEPT !.count = 0] EXCEPT !.dying = TRUE]
        BY <1>1, <2>2, <3>1
      <4> QED BY <1>2, <2>3, <4>1
    <3>2. CASE a # c
      BY <1>1, <2>2, <2>3, <3>2
    <3> QED BY <3>1, <3>2
  <2>4. KeepsFields(m)
    BY <2>2, <2>3 DEF KeepsFields
  <2> QED BY <2>1, <2>4
<1>6. KeepsFields([mem EXCEPT ![c] = FreeCell])
  <2>1. PICK m : m = [mem EXCEPT ![c] = FreeCell]
    OBVIOUS
  <2>2. m = [a \in Addr |-> m[a]] /\ \A a \in Addr : m[a] = IF a = c THEN FreeCell ELSE mem[a]
    BY <1>1, <2>1
  <2> QED BY <1>1, <2>1, <2>2 DEF KeepsFields, FreeCell
<1> QED BY <1>3, <1>4, <1>5, <1>6

LEMMA FieldsLeft ==
  ASSUME NEW t \in Thread, NEW m, KeepsFields(m), mem' = m \/ ReturnFrom(t, m)
  PROVE  FieldsStay
<1>1. \A a \in Heap : a \in Addr /\ a # Inner[t]
  BY Apart DEF Addr
<1>2. \A a \in Heap : mem'[a] = m[a]
  BY <1>1 DEF KeepsFields, ReturnFrom
<1> QED BY <1>2 DEF KeepsFields, FieldsStay

\* A step that is neither about a copy of a Block nor about a field it fills
LEMMA QuietRuntimeCaptured ==
  ASSUME IInv, IInv', WellCaptured, CapturedInv, NEW t \in Thread, StepKept(t),
         \/ AssignInPlace(t) \/ ByrefCopyAgain(t) \/ ByrefIncrement(t)
         \/ ReleaseNothing(t) \/ ReleaseShared(t) \/ ReleaseDone(t)
         \/ ByrefReleaseShared(t) \/ ByrefReleaseDone(t) \/ ByrefReleaseLoad(t) \/ ByrefReleaseLast(t)
  PROVE  CapturedInv'
<1>1. CoreInv /\ var' = var
  BY DEF IInv, AssignInPlace, ByrefCopyAgain, ByrefIncrement, ReleaseNothing, ReleaseShared, ReleaseDone,
         ByrefReleaseShared, ByrefReleaseDone, ByrefReleaseLoad, ByrefReleaseLast
<1>2. NoCopy(t)
  <2>1. ~(AssignInPlace(t) /\ AssignBlockOrByref(t))
    BY Zenon DEF AssignInPlace, AssignBlockOrByref
  <2>2. ~AssignInPlace(t) => ~AssignBlockOrByref(t)
    <3>1. AssignBlockOrByref(t) => Head(stack[t]).fn = "copyHelper"
      BY DEF AssignBlockOrByref, In
    <3>2. ~AssignInPlace(t) => Head(stack[t]).fn \in {"byrefCopy", "release", "disposeHelper", "byrefRelease"}
      BY DEF ByrefCopyAgain, ByrefIncrement, ReleaseNothing, ReleaseShared, ReleaseDone,
             ByrefReleaseShared, ByrefReleaseDone, ByrefReleaseLoad, ByrefReleaseLast, In, InAt
    <3> QED BY <3>1, <3>2
  <2> QED BY Zenon, <2>1, <2>2, QuietReturns, QuietGoesOn
<1>3. FieldsStay
  <2>1. \E m : KeepsFields(m) /\ (mem' = m \/ ReturnFrom(t, m))
    <3>1. CASE AssignInPlace(t) \/ ByrefCopyAgain(t)
      BY <1>1, <3>1, KeptFields DEF AssignInPlace, ByrefCopyAgain
    <3>2. CASE ByrefIncrement(t)
      <4>1. PICK c : mem' = [mem EXCEPT ![c].count = @ + 1]
        BY <3>2 DEF ByrefIncrement
      <4>2. mem' = [mem EXCEPT ![c].count = mem[c].count + 1]
        BY <4>1
      <4> QED BY <1>1, <4>2, KeptFields
    <3>3. CASE ReleaseNothing(t) \/ ByrefReleaseLoad(t)
      BY <1>1, <3>3, KeptFields DEF ReleaseNothing, ByrefReleaseLoad
    <3>4. CASE ReleaseShared(t) \/ ByrefReleaseShared(t)
      <4>1. PICK c : ReturnFrom(t, [mem EXCEPT ![c].count = IF @ = 0 THEN 0 ELSE @ - 1])
        BY <3>4 DEF ReleaseShared, ByrefReleaseShared
      <4>2. PICK m : m = [mem EXCEPT ![c].count = IF @ = 0 THEN 0 ELSE @ - 1]
        OBVIOUS
      <4>3. PICK n : n = IF mem[c].count = 0 THEN 0 ELSE mem[c].count - 1
        OBVIOUS
      <4>4. m = [mem EXCEPT ![c].count = n]
        BY <4>2, <4>3
      <4> QED BY <1>1, <4>1, <4>2, <4>4, KeptFields
    <3>5. CASE ReleaseDone(t) \/ ByrefReleaseDone(t)
      BY <1>1, <3>5, KeptFields DEF ReleaseDone, ByrefReleaseDone
    <3>6. CASE ByrefReleaseLast(t)
      BY <1>1, <3>6, KeptFields DEF ByrefReleaseLast
    <3> QED BY <3>1, <3>2, <3>3, <3>4, <3>5, <3>6
  <2>2. PICK m : KeepsFields(m) /\ (mem' = m \/ ReturnFrom(t, m))
    BY <2>1
  <2> QED BY <2>2, FieldsLeft
<1> QED BY <1>1, <1>2, <1>3, QuietKeepsCaptured

\* A dispose helper starts, goes on, or calls the runtime.
LEMMA DisposeCaptured ==
  ASSUME IInv, IInv', CapturedInv, NEW t \in Thread, StepKept(t),
         ReleaseLast(t) \/ DisposeInPlace(t) \/ DisposeBlockOrByref(t)
  PROVE  CapturedInv'
<1>1. CoreInv /\ var' = var
  BY DEF IInv, ReleaseLast, DisposeInPlace, DisposeBlockOrByref
<1>2. CallsInv /\ CallsInv' /\ ~Idle(t)
  BY Zenon DEF IInv, CoreInv, ReleaseLast, DisposeInPlace, DisposeBlockOrByref, In, Idle
<1>3. PICK f, P : f = Head(stack[t]) /\ P = Top(t)
  BY Zenon
<1>4. f \in Frame
  BY <1>1, <1>2, <1>3, Running
<1>5. NoCopy(t)
  <2>1. CASE ReleaseLast(t)
    <3>1. PICK a, i : Continue(t, <<DisposeHelperFrame(a, i)>>)
      BY <2>1 DEF ReleaseLast
    <3>2. Changed(t) = {P} /\ FrameAt(P)' = DisposeHelperFrame(a, i)
      BY <1>2, <1>3, <3>1, NewCalls
    <3> QED BY <3>2 DEF NoCopy, DisposeHelperFrame
  <2>2. CASE DisposeInPlace(t)
    <3>1. f.fn = "disposeHelper" /\ Continue(t, <<[f EXCEPT !.i = @ + 1]>>)
      BY Zenon, <1>3, <2>2 DEF DisposeInPlace, In
    <3>2. [f EXCEPT !.i = @ + 1].fn = "disposeHelper"
      BY <1>4, <3>1 DEF Frame
    <3>3. PICK g : g = [f EXCEPT !.i = @ + 1]
      OBVIOUS
    <3>4. Changed(t) = {P} /\ FrameAt(P)' = g
      BY <1>2, <1>3, <3>1, <3>3, NewCalls
    <3> QED BY <3>2, <3>3, <3>4 DEF NoCopy
  <2>3. CASE DisposeBlockOrByref(t)
    <3>1. f.fn = "disposeHelper" /\ \E g : Continue(t, <<g, [f EXCEPT !.i = @ + 1]>>) /\ g.fn # "copy"
      <4>1. PICK kind, call : /\ kind = DisposeKind(FlagsOf(mem[f.arg], f.i))
                              /\ call = [block |-> ReleaseFrame(mem[f.arg].fields[f.i]),
                                         byref |-> ByrefReleaseFrame(mem[f.arg].fields[f.i], "load")]
        BY Zenon
      <4>2. f.fn = "disposeHelper" /\ Continue(t, <<call[kind], [f EXCEPT !.i = @ + 1]>>) /\ kind \in {"block", "byref"}
        BY Zenon, <1>3, <2>3, <4>1 DEF DisposeBlockOrByref, In
      <4>3. call[kind].fn # "copy"
        BY <4>1, <4>2 DEF ReleaseFrame, ByrefReleaseFrame
      <4> QED BY <4>2, <4>3
    <3>2. PICK g : Continue(t, <<g, [f EXCEPT !.i = @ + 1]>>) /\ g.fn # "copy"
      BY <3>1
    <3>3. [f EXCEPT !.i = @ + 1].fn = "disposeHelper"
      BY <1>4, <3>1 DEF Frame
    <3>4. PICK h : h = [f EXCEPT !.i = @ + 1]
      OBVIOUS
    <3>5. Continue(t, <<g, h>>) => \E Q : /\ Changed(t) = {P, Q} /\ FrameAt(P)' = h /\ FrameAt(Q)' = g
                     /\ Q # P /\ P = <<Q[1], Q[2] - 1>> /\ Q[2] > 1
      BY <1>2, <1>3, NewCalls
    <3>6. \E Q : Changed(t) = {P, Q} /\ FrameAt(P)' = h /\ FrameAt(Q)' = g
      BY <3>2, <3>4, <3>5
    <3> QED BY <3>2, <3>3, <3>4, <3>6 DEF NoCopy
  <2> QED BY <2>1, <2>2, <2>3
<1>6. FieldsStay
  <2>1. mem' = mem \/ \E c : mem' = [mem EXCEPT ![c].count = 0, ![c].dying = TRUE]
    BY DEF ReleaseLast, DisposeInPlace, DisposeBlockOrByref
  <2>2. \E m : KeepsFields(m) /\ mem' = m
    BY <1>1, <2>1, KeptFields
  <2> QED BY <2>2, FieldsLeft
<1> QED BY <1>1, <1>5, <1>6, QuietKeepsCaptured

\* What moves or writes a __block variable is not about Blocks.
LEMMA MoveCaptured ==
  ASSUME IInv, CapturedInv, NEW t \in Thread, ByrefCopyFirst(t) \/ ByrefPublish(t) \/ ByrefPayload(t)
  PROVE  CapturedInv'
<1>1. CoreInv /\ var' = var
  BY DEF IInv, ByrefCopyFirst, ByrefPublish, ByrefPayload
<1>2. /\ StepKept(t)
      /\ \E P, b, c, to : MoveGoesOn(t, P, b, c, to) /\ (mem'[c] = mem[c] \/ mem'[c].kind = "byref")
  <2>1. CASE ByrefCopyFirst(t)
    <3>1. PICK P, b, c : /\ MoveGoesOn(t, P, b, c, "publish") /\ mem'[c].kind = "byref" /\ ~mem'[c].dying
      BY Zenon, <2>1, ByrefCopyFirstStep
    <3> QED BY <2>1, <3>1, ByrefCopyFirstStep
  <2>2. CASE ByrefPublish(t)
    <3>1. PICK P, b, c :
            /\ MoveGoesOn(t, P, b, c, "payload") /\ FrameAt(P).pc = "publish" /\ FrameAt(P).copy = c
            /\ mem[b].forwarding = b /\ mem'[b].forwarding = c /\ mem'[b].val = mem[b].val
            /\ mem'[c] = mem[c]
      BY Zenon, <2>2, ByrefPublishStep
    <3> QED BY <2>2, <3>1, ByrefPublishStep
  <2>3. CASE ByrefPayload(t)
    <3>1. PICK P, b, c :
            /\ MoveGoesOn(t, P, b, c, "return") /\ FrameAt(P).pc = "payload" /\ FrameAt(P).copy = c
            /\ mem'[b] = mem[b]
            /\ mem'[c].kind = "byref" /\ mem'[c].of = mem[c].of /\ mem'[c].dying = mem[c].dying
            /\ mem'[c].val = mem[b].val
      BY Zenon, <2>3, ByrefPayloadStep
    <3> QED BY <2>3, <3>1, ByrefPayloadStep
  <2> QED BY <2>1, <2>2, <2>3
<1>3. PICK P, b, c, to : MoveGoesOn(t, P, b, c, to) /\ (mem'[c] = mem[c] \/ mem'[c].kind = "byref")
  BY <1>2
<1>4. NoCopy(t)
  BY <1>3 DEF NoCopy, MoveGoesOn
<1>5. FieldsStay
  BY <1>3 DEF FieldsStay, MoveGoesOn
<1> QED BY <1>1, <1>2, <1>4, <1>5, QuietKeepsCaptured

LEMMA WriteCaptured ==
  ASSUME IInv, WellCaptured, ~SharedFrame, CapturedInv, NEW t \in Thread, WriteVariable(t)
  PROVE  CapturedInv'
<1>1. CoreInv /\ IInv' /\ StepKept(t) /\ var' = var
  BY WriteVariableStep DEF IInv, WriteVariable
<1>2. NoCopy(t)
  BY <1>1, QuietProgram
<1>3. PICK b \in Byref, c \in Addr :
           /\ mem' = [mem EXCEPT ![c].val = 1 - written[b]]
           /\ written' = [written EXCEPT ![b] = 1 - written[b]]
           /\ \/ c = b /\ scope = "open"
              \/ IsByref(c) /\ ~mem[c].dying /\ mem[c].of = b
           /\ c = b => mem[b].forwarding = b
           /\ t = Main \/ (IsByref(c) /\ FieldOwners(c) # {})
  BY Zenon, WriteTarget
<1>4. FieldsStay
  <2>1. ASSUME NEW a \in Heap, mem'[a].kind = "block" PROVE mem'[a] = mem[a]
    <3>1. a \in Addr /\ mem = [x \in Addr |-> mem[x]]
      BY <1>1 DEF Addr, CoreInv, StackInv
    <3>2. CASE a = c
      <4>1. mem[a] \in HeapByref /\ mem'[a] = [mem[a] EXCEPT !.val = 1 - written[b]]
        <5>1. IsByref(c)
          BY <1>3, <3>2, Apart
        <5>2. mem[a] \in HeapByref
          BY <1>1, <3>2, <5>1 DEF CoreInv, HeapInv, HeapBlock, FreeCell, IsByref
        <5> QED BY <1>3, <3>1, <3>2, <5>2
      <4> QED BY <2>1, <4>1 DEF HeapByref
    <3>3. CASE a # c
      BY <1>3, <3>1, <3>3
    <3> QED BY <3>2, <3>3
  <2> QED BY <2>1 DEF FieldsStay
<1> QED BY <1>1, <1>2, <1>4, QuietKeepsCaptured

LEMMA DropCaptured ==
  ASSUME IInv, CapturedInv, NEW t \in Thread, DropBlock(t)
  PROVE  CapturedInv'
<1>1. CoreInv /\ CoreInv' /\ StepKept(t)
  BY DropBlockStep DEF IInv
<1>2. PICK v \in Var : var' = [var EXCEPT ![v] = NULL] /\ Call(t, <<ReleaseFrame(var[v])>>, {})
  BY DEF DropBlock
<1>3. mem' = mem /\ var \in [Var -> Heap \cup {GlobalBlock, NULL}]
  BY <1>1 DEF DropBlock, CoreInv, ProgramInv
<1>4. NoCopy(t)
  <2>1. PICK Q : Q = <<t, 1>>
    OBVIOUS
  <2>2. Changed(t) = {Q} /\ FrameAt(Q)' = ReleaseFrame(var[v])
    BY <1>1, <1>2, <2>1, NewCall
  <2> QED BY <2>2 DEF NoCopy, ReleaseFrame
<1>5. FieldsStay
  BY <1>3 DEF FieldsStay
<1>6. \A w \in Var : var'[w] \in {var[w], NULL}
  BY <1>2, <1>3
<1> QED BY <1>1, <1>4, <1>5, <1>6, QuietKeepsCaptured

LEMMA CapturedUntouched ==
  ASSUME CoreInv, CapturedInv, \A a \in Heap : mem'[a] = mem[a], var' = var, busy' = busy,
         \A p \in LiveFrames : FrameAt(p)' = FrameAt(p),
         \A p \in LiveFrames' : p \notin LiveFrames => FrameAt(p)'.fn # "copy"
  PROVE  CapturedInv'
<1>1. \A a \in Heap : FilledCell(a)'
  BY DEF CapturedInv, FilledCell
<1>2. ASSUME NEW p \in LiveFrames PROVE Copies(p)'
  <2>1. PICK f : f = FrameAt(p) /\ f \in Frame
    BY LiveShape DEF CoreInv
  <2>2. FrameAt(p)' = f
    BY <2>1
  <2>3. CASE f.fn = "copy"
    <3>1. f.dest \in Dest
      BY <2>1, <2>3, FrameShape
    <3>2. ~IsVar(f.dest) => Awaited(f.dest)' = Awaited(f.dest)
      BY <3>1, DestShape DEF Awaited
    <3> QED BY <2>1, <2>2, <3>2 DEF CapturedInv, Copies
  <2>4. CASE f.fn # "copy"
    BY <2>2, <2>4 DEF Copies
  <2> QED BY <2>3, <2>4
<1>3. ASSUME NEW p \in LiveFrames', p \notin LiveFrames PROVE Copies(p)'
  BY <1>3 DEF Copies
<1> QED BY <1>1, <1>2, <1>3 DEF CapturedInv

LEMMA ScopeCaptured ==
  ASSUME IInv, CapturedInv, CloseScope \/ LeaveFrame \/ UNCHANGED vars
  PROVE  CapturedInv'
<1>1. CoreInv
  BY DEF IInv
<1>2. CASE CloseScope
  <2>1. /\ mem' = mem /\ Idle(Main)
        /\ \A p \in LiveFrames : p \in LiveFrames' /\ FrameAt(p)' = FrameAt(p)
        /\ \A p \in LiveFrames' : p \notin LiveFrames => FrameAt(p)'.fn = "byrefRelease"
    BY <1>1, <1>2, ScopeFrames
  <2>2. var' = var /\ busy' = [busy EXCEPT ![Main] = {}]
    BY <1>2 DEF CloseScope, Call
  <2>3. busy' = busy
    BY <1>1, <2>1, <2>2, ProgramAssumption DEF CoreInv, ProgramInv
  <2> QED BY <1>1, <2>1, <2>2, <2>3, CapturedUntouched
<1>3. CASE LeaveFrame
  <2>1. /\ var' = var /\ busy' = busy /\ stack' = stack
        /\ mem' = [a \in Addr |-> IF a \in Byref \cup Literal THEN FreeCell ELSE mem[a]]
    BY <1>3 DEF LeaveFrame
  <2>2. \A a \in Heap : mem'[a] = mem[a]
    BY <2>1, Apart DEF Addr
  <2>3. LiveFrames' = LiveFrames /\ \A p : FrameAt(p)' = FrameAt(p)
    BY <2>1 DEF LiveFrames, FrameAt
  <2> QED BY <1>1, <2>1, <2>2, <2>3, CapturedUntouched
<1>4. CASE UNCHANGED vars
  <2>1. var' = var /\ busy' = busy /\ stack' = stack /\ mem' = mem
    BY <1>4 DEF vars
  <2>3. LiveFrames' = LiveFrames /\ \A p : FrameAt(p)' = FrameAt(p)
    BY <2>1 DEF LiveFrames, FrameAt
  <2> QED BY <1>1, <2>1, <2>3, CapturedUntouched
<1> QED BY <1>2, <1>3, <1>4

LEMMA InitCaptured ==
  ASSUME Init
  PROVE  CapturedInv
<1>1. ASSUME NEW a \in Heap PROVE FilledCell(a)
  <2>1. a \in Addr /\ a \notin Literal /\ a \notin Byref /\ a # GlobalBlock
    BY Apart DEF Addr
  <2>2. mem[a] = FreeCell
    BY <2>1 DEF Init
  <2> QED BY <2>2 DEF FreeCell, FilledCell
<1>2. LiveFrames = {}
  BY DEF Init, LiveFrames
<1>3. \A v \in Var : var[v] # GlobalBlock
  BY Apart DEF Init
<1> QED BY <1>1, <1>2, <1>3 DEF CapturedInv

\* A Block on a stack has what its literal captured.
LEMMA StackFilled ==
  ASSUME CoreInv, CapturedInv, NEW t \in Thread, NEW a, StackBlock(t, a)
  PROVE  mem[a].kind = "block" /\ FilledCell(a)
<1>1. ASSUME NEW l \in Literal, mem[a] = LiteralCell(l) PROVE mem[a].kind = "block" /\ FilledCell(a)
  <2>1. mem[a].kind = "block" /\ mem[a].lit = l /\ mem[a].fields = [i \in DOMAIN Captures[l] |-> Captures[l][i].of]
    BY <1>1 DEF LiteralCell, Block
  <2> QED BY <2>1, Apart DEF FilledCell
<1>2. CASE a \in Literal /\ scope = "open"
  BY <1>1, <1>2 DEF CoreInv, StackInv
<1>3. CASE a = Inner[t] /\ mem[a].kind = "block"
  <2>1. Mirrors(t)
    BY <1>3 DEF CoreInv, ProgramInv, FreeCell
  <2>2. ASSUME NEW v \in busy[t], IsBlock(var[v]),
               mem[a] = Block("stack", "stack", 0, mem[var[v]].lit, mem[var[v]].fields)
        PROVE  FilledCell(a)
    <3>1. FilledCell(var[v])
      BY <2>2 DEF CapturedInv, IsBlock
    <3>2. mem[a].lit = mem[var[v]].lit /\ mem[a].fields = mem[var[v]].fields
      BY <2>2 DEF Block
    <3> QED BY <2>2, <3>1, <3>2 DEF FilledCell, IsBlock
  <2> QED BY <1>1, <1>3, <2>1, <2>2 DEF Mirrors
<1> QED BY <1>2, <1>3 DEF StackBlock

LEMMA CopyStackCaptured ==
  ASSUME IInv, CapturedInv, NEW t \in Thread, CopyStack(t)
  PROVE  CapturedInv'
<1>1. CoreInv /\ IInv' /\ StepKept(t) /\ var' = var
  BY CopyStackStep DEF IInv, CopyStack
<1>2. PICK f, P, a, c : f = Head(stack[t]) /\ P = Top(t) /\ a = f.arg /\ c = Malloc
  OBVIOUS
<1>3. f.fn = "copy" /\ ~Idle(t) /\ HeapFree # {} /\ a # NULL /\ mem[a].where = "stack"
  BY <1>2 DEF CopyStack, In, Idle
<1>4. CopyInv(P) /\ FrameAt(P) = f /\ P[1] = t
  BY <1>1, <1>2, <1>3, Running DEF FrameInv
<1>5. StackBlock(t, a)
  BY <1>1, <1>2, <1>3, <1>4, CopyArgCell DEF CopyInv
<1>6. c \in Heap
  BY <1>2, <1>3, MallocFree
<1>7. mem[a].kind = "block" /\ FilledCell(a)
  BY <1>1, <1>5, StackFilled
<1>8. mem' = [mem EXCEPT ![c] = [mem[a] EXCEPT !.where = "heap", !.count = 1]]
  BY <1>2 DEF CopyStack
<1>9. mem'[c].lit = mem[a].lit /\ mem'[c].fields = mem[a].fields /\ \A h \in Heap : h # c => mem'[h] = mem[h]
  <2>1. PICK l \in Literal, fs \in Seq(Pointer) : mem[a] = Block("stack", "stack", 0, l, fs)
    BY <1>1, <1>5, StackBlockCell
  <2>2. c \in Addr /\ mem = [b \in Addr |-> mem[b]]
    BY <1>1, <1>6 DEF Addr, CoreInv, StackInv
  <2>3. PICK k : k = [mem[a] EXCEPT !.where = "heap", !.count = 1]
    OBVIOUS
  <2>4. k.lit = mem[a].lit /\ k.fields = mem[a].fields
    BY <2>1, <2>3 DEF Block
  <2>5. mem'[c] = k /\ \A h \in Heap : h # c => mem'[h] = mem[h]
    BY <1>8, <2>2, <2>3
  <2> QED BY <2>4, <2>5
<1>10. \A h \in Heap : FilledCell(h)'
  <2>1. FilledCell(c)'
    BY <1>7, <1>9 DEF FilledCell
  <2>2. ASSUME NEW h \in Heap, h # c PROVE FilledCell(h)'
    BY <1>9, <2>2 DEF FilledCell, CapturedInv
  <2> QED BY <2>1, <2>2
<1>11. NoCopy(t)
  <2>1. ~AssignBlockOrByref(t)
    BY <1>2, <1>3 DEF AssignBlockOrByref, In
  <2> QED BY Zenon, <1>1, <2>1, QuietGoesOn
<1>12. \A p \in Changed(t) : Copies(p)'
  BY <1>11 DEF NoCopy, Copies
<1>13. \A v \in Var : var'[v] # GlobalBlock
  BY <1>1 DEF CapturedInv
<1> QED BY <1>1, <1>10, <1>12, <1>13, CapturedKept

LEMMA AssignCaptured ==
  ASSUME IInv, WellCaptured, CapturedInv, NEW t \in Thread, AssignBlockOrByref(t)
  PROVE  CapturedInv'
<1>1. CoreInv /\ CoreInv' /\ StepKept(t) /\ var' = var /\ mem' = mem
  <2>1. IInv' /\ StepKept(t)
    BY AssignBlockOrByrefStep
  <2> QED BY <2>1 DEF IInv, AssignBlockOrByref
<1>2. PICK f, P : f = Head(stack[t]) /\ P = Top(t)
  OBVIOUS
<1>3. f.fn = "copyHelper" /\ ~Idle(t) /\ f.i <= Len(mem[f.arg].fields)
  BY Zenon, <1>2 DEF AssignBlockOrByref, In, Idle
<1>4. CopyHelperInv(P) /\ FrameAt(P) = f /\ P[1] = t /\ f \in Frame
  BY <1>1, <1>2, <1>3, Running DEF FrameInv
<1>5. /\ StackBlock(t, f.arg) /\ IsBlock(f.result) /\ mem[f.result].lit = mem[f.arg].lit
      /\ f.i \in 1 .. Len(mem[f.arg].fields) + 1
  BY <1>3, <1>4 DEF CopyHelperInv
<1>6. PICK s, v, kind, d, call :
        /\ s = mem[f.arg].fields /\ v = mem[f.arg].fields[f.i] /\ kind = AssignKind(FlagsOf(mem[f.arg], f.i))
        /\ d = ToField(f.result, f.i)
        /\ call = [block |-> CopyFrame(v, d), byref |-> ByrefCopyFrame(v, d, "check", NULL)]
  BY Zenon
<1>7. kind \in {"block", "byref"} /\ Continue(t, <<call[kind], [f EXCEPT !.i = @ + 1]>>)
  BY Zenon, <1>2, <1>6 DEF AssignBlockOrByref
<1>8. PICK g, h : g = call[kind] /\ h = [f EXCEPT !.i = @ + 1]
  OBVIOUS
<1>9. h.fn = "copyHelper"
  BY <1>3, <1>4, <1>8 DEF Frame
<1>10. \E Q : Changed(t) = {P, Q} /\ FrameAt(P)' = h /\ FrameAt(Q)' = g
  <2>1. CallsInv /\ CallsInv'
    BY <1>1 DEF CoreInv
  <2>2. Continue(t, <<g, h>>) => \E Q : /\ Changed(t) = {P, Q} /\ FrameAt(P)' = h /\ FrameAt(Q)' = g
                     /\ Q # P /\ P = <<Q[1], Q[2] - 1>> /\ Q[2] > 1
    BY <1>2, <1>3, <2>1, NewCalls
  <2>3. Continue(t, <<g, h>>)
    BY <1>7, <1>8
  <2> QED BY <2>2, <2>3
<1>11. PICK Q : Changed(t) = {P, Q} /\ FrameAt(P)' = h /\ FrameAt(Q)' = g
  BY <1>10
<1>12. Copies(P)'
  BY <1>9, <1>11 DEF Copies
<1>13. Copies(Q)'
  <2>1. CASE kind = "byref"
    <3>1. g.fn = "byrefCopy"
      BY <1>6, <1>8, <2>1 DEF ByrefCopyFrame
    <3> QED BY <1>11, <3>1 DEF Copies
  <2>2. CASE kind = "block"
    <3>1. g = CopyFrame(v, d) /\ g.arg = v /\ g.dest = d
      BY <1>6, <1>8, <2>2 DEF CopyFrame
    <3>2. ~IsVar(d) /\ d.block = f.result /\ d.field = f.i
      BY <1>6 DEF IsVar, ToField
    <3>3. Awaited(d)' = Captures[mem[f.arg].lit][f.i]
      BY <1>1, <1>5, <3>2 DEF Awaited
    <3>4. f.i \in DOMAIN s
      <4>1. PICK l \in Literal, fs \in Seq(Pointer) : mem[f.arg] = Block("stack", "stack", 0, l, fs)
        BY <1>1, <1>5, StackBlockCell
      <4>2. s \in Seq(Pointer)
        BY <1>6, <4>1 DEF Block
      <4> QED BY <1>3, <1>5, <1>6, <4>2
    <3>5. Captures[mem[f.arg].lit][f.i].of \in Literal => v \notin {NULL, GlobalBlock}
      <4>1. mem[f.arg].kind = "block" /\ FilledCell(f.arg)
        BY <1>1, <1>5, StackFilled
      <4> QED BY <1>6, <3>4, <4>1 DEF FilledCell
    <3> QED BY <1>11, <3>1, <3>2, <3>3, <3>5 DEF Copies
  <2> QED BY <1>7, <2>1, <2>2
<1>14. FieldsStay
  BY <1>1 DEF FieldsStay
<1>15. \A p \in Changed(t) : Copies(p)'
  BY <1>11, <1>12, <1>13
<1>16. \A w \in Var : var'[w] # GlobalBlock
  BY <1>1 DEF CapturedInv
<1> QED BY <1>1, <1>14, <1>15, <1>16, FilledStays, CapturedKept

\* The program copies a Block: a literal, or one that a variable holds meanwhile.
LEMMA CopyCallCaptured ==
  ASSUME IInv, IInv', CapturedInv, NEW t \in Thread, StepKept(t), NEW a, NEW v, NEW used,
         Call(t, <<CopyFrame(a, ToVar(v))>>, used), var' = var, \A h \in Heap : mem'[h] = mem[h],
         a # GlobalBlock, a \in Heap => \E w \in used : var[w] = a
  PROVE  CapturedInv'
<1>1. CoreInv /\ CoreInv'
  BY DEF IInv
<1>2. PICK Q, g : Q = <<t, 1>> /\ g = CopyFrame(a, ToVar(v))
  OBVIOUS
<1>3. Changed(t) = {Q} /\ FrameAt(Q)' = g
  BY <1>1, <1>2, NewCall
<1>4. busy'[t] = used
  BY <1>1 DEF Call, CoreInv, ProgramInv
<1>5. g.arg = a /\ IsVar(g.dest) /\ Q[1] = t
  BY <1>2 DEF CopyFrame, ToVar, IsVar
<1>6. Copies(Q)'
  BY <1>3, <1>4, <1>5 DEF Copies
<1>7. \A h \in Heap : FilledCell(h)'
  BY DEF FilledCell, CapturedInv
<1>8. \A w \in Var : var'[w] # GlobalBlock
  BY DEF CapturedInv
<1> QED BY <1>1, <1>3, <1>6, <1>7, <1>8, CapturedKept

LEMMA CopyBlockCaptured ==
  ASSUME IInv, ~SharedFrame, CapturedInv, NEW t \in Thread, CopyBlock(t)
  PROVE  CapturedInv'
<1>1. IInv' /\ StepKept(t) /\ CoreInv
  BY CopyBlockStep DEF IInv
<1>2. PICK s \in Source(t), v \in EmptyVars :
        Call(t, <<CopyFrame(s.block, ToVar(v))>>, s.reads \cup {v})
  BY DEF CopyBlock
<1>3. mem' = mem /\ var' = var
  BY DEF CopyBlock
<1>4. \/ /\ t = Main /\ scope = "open" /\ s.block \in Literal /\ s.reads = {}
         /\ mem[s.block] = LiteralCell(s.block)
      \/ \E w \in Var : /\ s.block = var[w] /\ s.reads = {w} /\ var[w] # NULL
                        /\ var[w] = GlobalBlock \/ Whole(var[w])
  BY <1>1, SourceShape
<1>5. PICK a, used : a = s.block /\ used = s.reads \cup {v}
  OBVIOUS
<1>6. a # GlobalBlock /\ (a \in Heap => \E w \in used : var[w] = a)
  BY <1>4, <1>5, Apart DEF CapturedInv
<1> QED BY Zenon, <1>1, <1>2, <1>3, <1>5, <1>6, CopyCallCaptured

LEMMA CopyNestedCaptured ==
  ASSUME IInv, ~SharedFrame, CapturedInv, NEW t \in Thread, CopyNested(t)
  PROVE  CapturedInv'
<1>1. IInv' /\ StepKept(t) /\ CoreInv
  BY CopyNestedStep DEF IInv
<1>2. PICK s \in Source(t), v \in EmptyVars :
        /\ mem[s.block].where # "global"
        /\ mem' = [mem EXCEPT ![Inner[t]] =
             Block("stack", "stack", 0, mem[s.block].lit, mem[s.block].fields)]
        /\ Call(t, <<CopyFrame(Inner[t], ToVar(v))>>, s.reads \cup {v})
  BY Zenon DEF CopyNested
<1>3. var' = var
  BY DEF CopyNested
<1>4. \A h \in Heap : mem'[h] = mem[h]
  BY <1>1, <1>2, Apart DEF CoreInv, StackInv, Addr
<1>5. PICK a, used : a = Inner[t] /\ used = s.reads \cup {v}
  OBVIOUS
<1>6. a # GlobalBlock /\ a \notin Heap
  BY <1>5, Apart
<1> QED BY Zenon, <1>1, <1>2, <1>3, <1>4, <1>5, <1>6, CopyCallCaptured

\* The scope, or a Block that a variable holds, names the literal l.
Known(l) == scope = "open" \/ \E u \in Var : IsBlock(var[u]) /\ mem[var[u]].lit = l

\* The call f of t returns r: to a variable a copy of a Block that was known, or NULL,
\* to a field what was captured there.
Answer(t, f, r, m) ==
  /\ ~Idle(t) /\ f = Head(stack[t]) /\ f = FrameAt(Top(t)) /\ f.fn \in {"copy", "copyHelper", "byrefCopy"}
  /\ Result(f, r, m) /\ Returns(t, f, r, m)
  /\ IF IsVar(f.dest) THEN r # GlobalBlock /\ (r \in Heap => IsBlock(r) /\ Known(mem[r].lit))
     ELSE Awaited(f.dest).of \in Literal => r \notin {NULL, GlobalBlock}

LEMMA StackBlockKnown ==
  ASSUME CoreInv, NEW t \in Thread, NEW a, StackBlock(t, a)
  PROVE  Known(mem[a].lit)
<1>1. CASE scope = "open"
  BY <1>1 DEF Known
<1>2. CASE scope # "open"
  <2>1. a = Inner[t] /\ mem[a].kind = "block"
    BY <1>2 DEF StackBlock
  <2>2. Mirrors(t)
    BY <2>1 DEF CoreInv, ProgramInv, FreeCell
  <2>3. PICK v \in busy[t] : /\ IsBlock(var[v])
                             /\ mem[a] = Block("stack", "stack", 0, mem[var[v]].lit, mem[var[v]].fields)
    BY <1>2, <2>1, <2>2 DEF Mirrors
  <2>4. v \in Var
    BY <2>3 DEF CoreInv, ProgramInv
  <2> QED BY <2>3, <2>4 DEF Known, Block
<1> QED BY <1>1, <1>2

LEMMA Answers ==
  ASSUME IInv, CapturedInv, ~MallocFails, NEW t \in Thread,
         \/ CopyNull(t) \/ CopyHeap(t) \/ CopyGlobal(t) \/ CopyStackFails(t) \/ CopyDone(t)
         \/ ByrefCopyReturn(t)
  PROVE  \E f, r, m : Answer(t, f, r, m)
<1>1. CoreInv
  BY DEF IInv
<1>2. PICK f, P : f = Head(stack[t]) /\ P = Top(t)
  BY Zenon
<1>3. ~Idle(t) /\ f.fn \in {"copy", "copyHelper", "byrefCopy"}
  BY Zenon, <1>2 DEF CopyNull, CopyHeap, CopyGlobal, CopyStackFails, CopyDone, ByrefCopyReturn, In, InAt, Idle
<1>4. P \in LiveFrames /\ FrameAt(P) = f /\ f \in Frame /\ P[1] = t /\ FrameInv(P)
  BY <1>1, <1>2, <1>3, Running
<1>5. Copies(P)
  BY <1>4 DEF CapturedInv
<1>6. CASE CopyNull(t) \/ CopyHeap(t) \/ CopyGlobal(t) \/ CopyStackFails(t)
  <2>1. f.fn = "copy" /\ ~CopyStackFails(t)
    BY <1>2, <1>6 DEF CopyNull, CopyHeap, CopyGlobal, CopyStackFails, In
  <2>2. CopyArg(t, f.arg)
    BY <1>4, <2>1 DEF FrameInv, CopyInv
  <2>3. PICK r, m : r = f.arg /\ m = IF CopyHeap(t) THEN [mem EXCEPT ![f.arg].count = @ + 1] ELSE mem
    BY Zenon
  <2>4. Returns(t, f, r, m)
    <3>1. CASE CopyNull(t)
      <4>1. ~CopyHeap(t)
        BY <3>1 DEF CopyNull, CopyHeap
      <4> QED BY <1>2, <2>3, <3>1, <4>1 DEF CopyNull, Returns
    <3>2. CASE CopyGlobal(t)
      <4>1. ~CopyHeap(t)
        BY <3>2 DEF CopyGlobal, CopyHeap
      <4> QED BY <1>2, <2>3, <3>2, <4>1 DEF CopyGlobal, Returns
    <3>3. CASE CopyHeap(t)
      BY SMTT(20), <1>2, <2>3, <3>3 DEF CopyHeap, Returns
    <3> QED BY <1>6, <2>1, <3>1, <3>2, <3>3
  <2>5. /\ CopyNull(t) => r = NULL
        /\ CopyGlobal(t) => r = GlobalBlock
        /\ CopyHeap(t) => IsBlock(r) /\ (VarOwners(r) # {} \/ FieldOwners(r) # {})
    BY <1>1, <1>2, <2>2, <2>3, CopyArgCell DEF CopyNull, CopyGlobal, CopyHeap
  <2>6. Result(f, r, m)
    <3>1. CASE CopyHeap(t)
      BY <2>1, <2>3, <2>5, <3>1 DEF Result, IsBlock
    <3>2. CASE ~CopyHeap(t)
      <4>1. r \in {NULL, GlobalBlock} /\ m = mem
        BY <1>6, <2>1, <2>3, <2>5, <3>2
      <4> QED BY <2>1, <4>1 DEF Result
    <3> QED BY <3>1, <3>2
  <2>7. IF IsVar(f.dest) THEN r # GlobalBlock /\ (r \in Heap => IsBlock(r) /\ Known(mem[r].lit))
        ELSE Awaited(f.dest).of \in Literal => r \notin {NULL, GlobalBlock}
    <3>1. CASE IsVar(f.dest)
      <4>1. r # GlobalBlock /\ (r \in Heap => \E v \in busy[t] : var[v] = r)
        BY <1>4, <1>5, <2>1, <2>3, <3>1 DEF Copies
      <4>2. ASSUME r \in Heap PROVE IsBlock(r) /\ Known(mem[r].lit)
        <5>1. IsBlock(r)
          BY <1>6, <2>1, <2>5, <4>2, Apart
        <5>2. PICK v \in Var : var[v] = r
          BY <4>1, <4>2, <1>1 DEF CoreInv, ProgramInv
        <5> QED BY <5>1, <5>2 DEF Known
      <4> QED BY <3>1, <4>1, <4>2
    <3>2. CASE ~IsVar(f.dest)
      BY <1>4, <1>5, <2>1, <2>3, <3>2 DEF Copies
    <3> QED BY <3>1, <3>2
  <2> QED BY <1>2, <1>3, <1>4, <2>4, <2>6, <2>7 DEF Answer
<1>7. CASE CopyDone(t)
  <2>1. f.fn = "copyHelper"
    BY <1>2, <1>7 DEF CopyDone, In
  <2>2. /\ StackBlock(t, f.arg) /\ IsBlock(f.result) /\ mem[f.result].lit = mem[f.arg].lit
        /\ Len(mem[f.result].fields) = Len(mem[f.arg].fields)
    BY <1>4, <2>1 DEF FrameInv, CopyHelperInv
  <2>3. PICK r, m : r = f.result /\ m = [mem EXCEPT ![f.result].isa = "malloc"]
    BY Zenon
  <2>4. Returns(t, f, r, m)
    BY <1>2, <1>7, <2>3 DEF CopyDone, Returns
  <2>5. Result(f, r, m)
    BY Zenon, <1>2, <1>7, <2>1, <2>2, <2>3 DEF CopyDone, Result, Builds
  <2>6. IsBlock(r) /\ Known(mem[r].lit) /\ r \notin {NULL, GlobalBlock}
    BY <1>1, <2>2, <2>3, StackBlockKnown, Apart DEF IsBlock
  <2> QED BY <1>2, <1>3, <1>4, <2>4, <2>5, <2>6 DEF Answer
<1>8. CASE ByrefCopyReturn(t)
  <2>1. f.fn = "byrefCopy" /\ f.pc = "return"
    BY <1>2, <1>8 DEF ByrefCopyReturn, InAt, In
  <2>2. PICK r, m : r = mem[f.arg].forwarding /\ m = mem
    OBVIOUS
  <2>3. Returns(t, f, r, m)
    BY <1>2, <1>8, <2>2 DEF ByrefCopyReturn, Returns
  <2>4. r \in Heap /\ ~IsVar(f.dest)
    BY <1>4, <2>1, <2>2 DEF FrameInv, ByrefCopyInv
  <2>5. Result(f, r, m)
    BY <2>1, <2>2, <2>4 DEF Result, FrameOwns
  <2> QED BY <1>2, <1>3, <1>4, <2>3, <2>4, <2>5, Apart DEF Answer
<1> QED BY <1>6, <1>7, <1>8

\* What a return changes of a Block is a field, if any.
LEMMA ReturnedFieldsStay ==
  ASSUME CoreInv, NEW d, NEW r, NEW f, NEW a \in Heap, IsVar(d) \/ a # d.block,
         NEW c, c = ReturnedCell(d, r, f, a), c.kind = "block"
  PROVE  mem[a].kind = "block" /\ c.lit = mem[a].lit /\ c.fields = mem[a].fields
<1>1. mem[a] \in {FreeCell} \cup HeapBlock \cup HeapByref
  BY DEF CoreInv, HeapInv
<1>2. \E n : c = [mem[a] EXCEPT !.count = n] \/ c = [mem[a] EXCEPT !.isa = "malloc"] \/ c = mem[a]
  BY DEF ReturnedCell
<1>3. PICK n : c = [mem[a] EXCEPT !.count = n] \/ c = [mem[a] EXCEPT !.isa = "malloc"] \/ c = mem[a]
  BY <1>2
<1>4. CASE mem[a] = FreeCell
  BY <1>3, <1>4 DEF FreeCell
<1>5. CASE mem[a] \in HeapBlock
  BY <1>3, <1>5 DEF HeapBlock
<1>6. CASE mem[a] \in HeapByref
  BY <1>3, <1>6 DEF HeapByref
<1> QED BY <1>1, <1>4, <1>5, <1>6

LEMMA AnswerCaptured ==
  ASSUME IInv, CapturedInv, NEW t \in Thread, NEW f, NEW r, NEW m, Answer(t, f, r, m)
  PROVE  CapturedInv'
<1>1. CoreInv
  BY DEF IInv
<1>2. PICK P : P = Top(t)
  OBVIOUS
<1>3. /\ ~Idle(t) /\ f = FrameAt(P) /\ f.fn \in {"copy", "copyHelper", "byrefCopy"}
      /\ Result(f, r, m) /\ Returns(t, f, r, m)
  BY <1>2 DEF Answer
<1>4. /\ StepKept(t) /\ Changed(t) = {}
      /\ \A b \in Byref \cup {GlobalBlock} : mem'[b] = mem[b]
  BY Zenon, <1>1, <1>2, <1>3, ReturnedKept
<1>5. /\ P \in LiveFrames /\ P[1] = t
      /\ IsVar(f.dest) =>
           /\ f.dest.var \in Var /\ var[f.dest.var] = NULL
           /\ Len(stack[t]) = 1
           /\ \A u \in Thread : u # t => f.dest.var \notin busy[u]
      /\ ~IsVar(f.dest) =>
           /\ IsBlock(f.dest.block) /\ mem[f.dest.block].isa = "stack" /\ ~mem[f.dest.block].dying
           /\ f.dest.field \in DOMAIN mem[f.dest.block].fields
           /\ f.dest.block # r
           /\ \A p \in LiveFrames : Builds(FrameAt(p), f.dest.block) =>
                p # P /\ FrameAt(p).i = f.dest.field + 1
      /\ r \in Heap =>
           /\ mem[r].kind # "free" /\ ~mem[r].dying /\ mem[r].count >= 1
           /\ \A p \in LiveFrames : Builds(FrameAt(p), r) => p = P
      /\ r \in Heap \cup {NULL, GlobalBlock}
  BY <1>1, <1>2, <1>3, ReturnedShape
<1>6. /\ mem' = [a \in Addr |-> mem'[a]]
      /\ \A a \in Addr : a # Inner[t] => mem'[a] = ReturnedCell(f.dest, r, f, a)
      /\ mem'[Inner[t]] = IF Len(stack[t]) = 1 THEN FreeCell ELSE mem[Inner[t]]
      /\ busy' = IF Len(stack[t]) = 1 THEN [busy EXCEPT ![t] = {}] ELSE busy
      /\ var' = IF IsVar(f.dest) THEN [var EXCEPT ![f.dest.var] = r] ELSE var
      /\ scope' = scope /\ retains' = retains /\ written' = written
      /\ stack' \in [Thread -> Seq(Frame)]
      /\ LiveFrames' = LiveFrames \ {P}
      /\ \A p \in LiveFrames : p # P => FrameAt(p)' = FrameAt(p)
      /\ Idle(t)' <=> Len(stack[t]) = 1
      /\ \A u \in Thread : u # t => stack'[u] = stack[u]
  BY <1>1, <1>2, <1>3, ReturnedCells
<1>7. \A a \in Heap : mem'[a] = ReturnedCell(f.dest, r, f, a)
  BY <1>6, Apart DEF Addr
<1>8. \A v \in Var : var'[v] # GlobalBlock
  <2>1. var \in [Var -> Heap \cup {GlobalBlock, NULL}]
    BY <1>1 DEF CoreInv, ProgramInv
  <2>2. IsVar(f.dest) => r # GlobalBlock
    BY DEF Answer
  <2> QED BY <1>5, <1>6, <2>1, <2>2 DEF CapturedInv
<1>9. ASSUME NEW a \in Heap, IsVar(f.dest) \/ a # f.dest.block PROVE FilledCell(a)'
  <2>1. mem'[a].kind = "block" =>
          mem[a].kind = "block" /\ mem'[a].lit = mem[a].lit /\ mem'[a].fields = mem[a].fields
    BY <1>1, <1>7, <1>9, ReturnedFieldsStay
  <2> QED BY <2>1 DEF CapturedInv, FilledCell
<1>10. ASSUME NEW a \in Heap, ~IsVar(f.dest), a = f.dest.block PROVE FilledCell(a)'
  <2>1. mem'[a] = [mem[a] EXCEPT !.fields[f.dest.field] = r]
    BY <1>7, <1>10 DEF ReturnedCell
  <2>2. mem[a] \in HeapBlock /\ mem[a].kind = "block"
    BY <1>1, <1>5, <1>10 DEF CoreInv, HeapInv, IsBlock, HeapByref, FreeCell
  <2>3. mem'[a].lit = mem[a].lit /\ mem'[a].fields = [mem[a].fields EXCEPT ![f.dest.field] = r]
    BY <2>1, <2>2 DEF HeapBlock
  <2>4. Awaited(f.dest).of \in Literal => r \notin {NULL, GlobalBlock}
    BY <1>10 DEF Answer
  <2>5. ASSUME NEW i \in DOMAIN mem[a].fields, Captures[mem[a].lit][i].of \in Literal
        PROVE  mem'[a].fields[i] \notin {NULL, GlobalBlock}
    <3>1. CASE i = f.dest.field
      BY <1>10, <2>3, <2>4, <2>5, <3>1 DEF Awaited
    <3>2. CASE i # f.dest.field
      BY <2>2, <2>3, <2>5, <3>2 DEF CapturedInv, FilledCell
    <3> QED BY <3>1, <3>2
  <2>6. DOMAIN mem'[a].fields = DOMAIN mem[a].fields
    BY <2>3
  <2> QED BY <2>3, <2>5, <2>6 DEF FilledCell
<1>11. \A a \in Heap : FilledCell(a)'
  BY <1>9, <1>10
<1>12. \A p \in Changed(t) : Copies(p)'
  BY <1>4
<1> QED BY <1>1, <1>4, <1>8, <1>11, <1>12, CapturedKept

LEMMA RuntimeCaptured ==
  ASSUME IInv, WellCaptured, ~MallocFails, CapturedInv, NEW t \in Thread, RuntimeStep(t)
  PROVE  CapturedInv'
<1>1. CASE \/ CopyNull(t) \/ CopyHeap(t) \/ CopyGlobal(t) \/ CopyStackFails(t) \/ CopyDone(t)
           \/ ByrefCopyReturn(t)
  BY Zenon, <1>1, Answers, AnswerCaptured
<1>2. CASE CopyStack(t) \/ AssignBlockOrByref(t)
  BY Zenon, <1>2, CopyStackCaptured, AssignCaptured
<1>3. CASE ByrefCopyFirst(t) \/ ByrefPublish(t) \/ ByrefPayload(t)
  BY Zenon, <1>3, MoveCaptured
<1>4. CASE AssignInPlace(t) \/ ByrefCopyAgain(t) \/ ByrefIncrement(t)
  <2>1. IInv' /\ StepKept(t)
    BY Zenon, <1>4, AssignInPlaceStep, ByrefCopyAgainStep, ByrefIncrementStep
  <2> QED BY Zenon, <1>4, <2>1, QuietRuntimeCaptured
<1>5. CASE ReleaseNothing(t) \/ ReleaseShared(t) \/ ReleaseDone(t) \/ ByrefReleaseShared(t) \/ ByrefReleaseDone(t)
  <2>1. IInv' /\ StepKept(t)
    BY Zenon, <1>5, ReleaseReturns, ByrefReleaseReturns
  <2> QED BY Zenon, <1>5, <2>1, QuietRuntimeCaptured
<1>6. CASE ByrefReleaseLoad(t) \/ ByrefReleaseLast(t)
  <2>1. IInv' /\ StepKept(t)
    BY Zenon, <1>6, ByrefReleaseLoadStep, ByrefReleaseLastStep
  <2> QED BY Zenon, <1>6, <2>1, QuietRuntimeCaptured
<1>7. CASE ReleaseLast(t) \/ DisposeInPlace(t) \/ DisposeBlockOrByref(t)
  <2>1. IInv' /\ StepKept(t)
    BY Zenon, <1>7, ReleaseLastStep, DisposeInPlaceStep, DisposeBlockOrByrefStep
  <2> QED BY Zenon, <1>7, <2>1, DisposeCaptured
<1> QED BY Zenon, <1>1, <1>2, <1>3, <1>4, <1>5, <1>6, <1>7 DEF RuntimeStep

LEMMA NextCaptured ==
  ASSUME IInv, WellCaptured, ~SharedFrame, ~MallocFails, CapturedInv, [Next]_vars
  PROVE  CapturedInv'
<1>1. ASSUME NEW t \in Thread, ProgramStep(t) PROVE CapturedInv'
  BY Zenon, <1>1, CopyBlockCaptured, CopyNestedCaptured, WriteCaptured, DropCaptured DEF ProgramStep
<1> QED BY Zenon, <1>1, RuntimeCaptured, ScopeCaptured DEF Next

\* A field of a Block with all of its fields is as it was captured.
LEMMA CapturedField ==
  ASSUME IInv, WellCaptured, NEW a, Whole(a)
  PROVE  /\ mem[a].lit \in Literal /\ DOMAIN mem[a].fields = DOMAIN Captures[mem[a].lit]
         /\ \A i \in DOMAIN mem[a].fields :
              LET x == <<a, i>>   c == Captures[mem[a].lit][i] IN
              /\ x \in HelpedFields /\ Field(x) = mem[a].fields[i] /\ KindOf(x) = AssignKind(c.flags)
              /\ KindOf(x) \in {"block", "byref"} => x \in FieldOwners(Field(x))
<1>1. CoreInv
  BY DEF IInv
<1>2. mem[a] \in HeapBlock /\ Len(mem[a].fields) = Len(Captures[mem[a].lit])
  BY <1>1 DEF Whole, IsBlock, CoreInv, HeapInv, FreeCell, HeapByref
<1>3. PICK l \in Literal : l = mem[a].lit
  BY <1>2 DEF HeapBlock
<1>4. mem[a].fields \in Seq(Pointer) /\ Captures[l] \in Seq([flags : SUBSET Bit, of : Pointer])
  BY Zenon, <1>2, ProgramAssumption DEF HeapBlock
<1>5. DOMAIN mem[a].fields = DOMAIN Captures[l]
  BY <1>2, <1>3, <1>4
<1>6. ASSUME NEW i \in DOMAIN mem[a].fields, NEW x, x = <<a, i>>
      PROVE  /\ x \in HelpedFields /\ Field(x) = mem[a].fields[i] /\ KindOf(x) = AssignKind(Captures[l][i].flags)
             /\ KindOf(x) \in {"block", "byref"} => x \in FieldOwners(Field(x))
  <2>1. x \in HelpedFields
    BY <1>6 DEF Whole
  <2>2. Field(x) = mem[a].fields[i] /\ KindOf(x) = AssignKind(Captures[l][i].flags)
    BY <1>3, <1>6 DEF Field, KindOf, FlagsOf
  <2> QED BY <2>1, <2>2 DEF FieldOwners
<1> QED BY <1>3, <1>5, <1>6

LEMMA BlockCapture ==
  ASSUME WellCaptured, NEW l \in Literal, NEW i \in DOMAIN Captures[l], NEW c, c = Captures[l][i]
  PROVE  /\ c.of \in Literal => AssignKind(c.flags) = "block"
         /\ c.of \in Byref => AssignKind(c.flags) = "byref"
<1>1. PICK kind : kind = AssignKind(c.flags)
  BY Zenon
<1>2. /\ kind = "block" => c.of \in Literal \cup {GlobalBlock, NULL}
      /\ kind = "byref" => c.of \in Byref
      /\ kind = "object" => c.of \in Object \cup {NULL}
      /\ kind \notin {"block", "byref", "object"} => c.of \notin Stack
  BY <1>1 DEF WellCaptured
<1> QED BY <1>1, <1>2, Apart

Reached(b) == \E a \in Heap : LiveCopy(a) /\ mem[a].of = b /\ FieldOwners(a) # {}

\* A Block on the heap that lacks a variable captured one that lacks it.
LEMMA LackIsCaptured ==
  ASSUME IInv, WellCaptured, CapturedInv, NEW b \in Byref, ~Reached(b),
         NEW a, Whole(a), b \in Reaches[mem[a].lit]
  PROVE  \E c : /\ Whole(c) /\ b \in Reaches[mem[c].lit]
                /\ \E i \in DOMAIN Captures[mem[a].lit] : Captures[mem[a].lit][i].of = mem[c].lit
<1>1. CoreInv /\ FieldsInv /\ HeapInv /\ CallsInv /\ OwnersInv
  BY DEF IInv, CoreInv
<1>2. PICK l : l = mem[a].lit
  OBVIOUS
<1>3. /\ mem[a].lit \in Literal /\ DOMAIN mem[a].fields = DOMAIN Captures[mem[a].lit]
      /\ \A i \in DOMAIN mem[a].fields :
           LET x == <<a, i>>   c == Captures[mem[a].lit][i] IN
           /\ x \in HelpedFields /\ Field(x) = mem[a].fields[i] /\ KindOf(x) = AssignKind(c.flags)
           /\ KindOf(x) \in {"block", "byref"} => x \in FieldOwners(Field(x))
  BY CapturedField
<1>4. Reaches[l] = UNION {FoundAt(Reaches, l, i) : i \in DOMAIN Captures[l]}
  BY <1>2, <1>3, ReachesIs
<1>5. PICK i \in DOMAIN Captures[l] : b \in FoundAt(Reaches, l, i)
  BY <1>2, <1>4
<1>6. PICK x, c, p : x = <<a, i>> /\ c = Captures[l][i] /\ p = mem[a].fields[i]
  OBVIOUS
<1>7. /\ x \in HelpedFields /\ Field(x) = p /\ KindOf(x) = AssignKind(c.flags)
      /\ KindOf(x) \in {"block", "byref"} => FieldOwners(p) # {}
  BY <1>2, <1>3, <1>5, <1>6
<1>8. FieldOk(x) /\ x[1] = a /\ x[2] = i
  BY <1>1, <1>6, <1>7 DEF FieldsInv
<1>9. CASE c.of \in Literal
  <2>1. KindOf(x) = "block"
    BY <1>2, <1>3, <1>5, <1>6, <1>7, <1>9, BlockCapture
  <2>2. p \notin {NULL, GlobalBlock}
    BY <1>2, <1>3, <1>5, <1>6, <1>9 DEF CapturedInv, FilledCell, Whole, IsBlock
  <2>3. IsBlock(p) /\ mem[p].lit = c.of
    BY <1>2, <1>6, <1>7, <1>8, <2>1, <2>2 DEF FieldOk
  <2>4. Whole(p)
    BY <1>1, <1>7, <2>1, <2>3, SharedIsWhole
  <2>5. b \in Reaches[mem[p].lit]
    BY <1>5, <1>6, <1>9, <2>3 DEF FoundAt
  <2> QED BY <1>2, <1>5, <1>6, <2>3, <2>4, <2>5
<1>10. CASE c.of \notin Literal
  <2>1. c.of = b
    BY <1>5, <1>6, <1>10 DEF FoundAt
  <2>2. KindOf(x) = "byref"
    BY <1>2, <1>3, <1>5, <1>6, <1>7, <2>1, BlockCapture
  <2>3. IsByref(p) /\ mem[p].of = b
    BY <1>2, <1>6, <1>7, <1>8, <2>1, <2>2 DEF FieldOk
  <2>4. p \in Heap /\ FieldOwners(p) # {}
    BY <1>7, <2>2, <2>3 DEF IsByref
  <2>5. ~mem[p].dying
    BY <1>1, <2>4, Owned
  <2> QED BY <2>3, <2>4, <2>5 DEF Reached, LiveCopy
<1> QED BY <1>9, <1>10

\* A held Block keeps the variables that its literal reaches on the heap.
LEMMA HeldReaches ==
  ASSUME IInv, WellCaptured, CapturedInv, NEW v \in Var, var[v] \in Heap,
         NEW b \in Byref, b \in Reaches[mem[var[v]].lit]
  PROVE  Reached(b)
<1>1. SUFFICES ASSUME ~Reached(b) PROVE FALSE
  OBVIOUS
<1>2. CoreInv
  BY DEF IInv
<1>3. PICK rank \in [Literal -> Nat] : \A l \in Literal : \A i \in DOMAIN Captures[l] :
        Captures[l][i].of \in Literal => rank[Captures[l][i].of] < rank[l]
  BY DEF WellCaptured
<1>4. PICK A : A = {a \in Heap : Whole(a) /\ b \in Reaches[mem[a].lit]}
  OBVIOUS
<1>5. Whole(var[v])
  BY <1>2, HeldIsWhole DEF CoreInv
<1>6. var[v] \in A
  BY <1>4, <1>5
<1>7. \A a \in A : mem[a].lit \in Literal
  BY <1>4, CapturedField
<1>8. PICK S : S = {rank[mem[a].lit] : a \in A}
  OBVIOUS
<1>9. S \subseteq Nat /\ S # {}
  BY <1>6, <1>7, <1>8
<1>10. PICK n \in S : \A k \in S : ~(<<k, n>> \in OpToRel(<, Nat))
  BY <1>9, NatLessThanWellFounded, WFMin
<1>11. \A k \in S : ~(k < n)
  <2>1. \A k \in S : k \in Nat /\ n \in Nat
    BY <1>9
  <2> QED BY <1>10, <2>1, Zenon DEF OpToRel
<1>12. PICK a \in A : n = rank[mem[a].lit]
  BY <1>8
<1>13. Whole(a) /\ b \in Reaches[mem[a].lit]
  BY <1>4
<1>14. PICK c : /\ Whole(c) /\ b \in Reaches[mem[c].lit]
                /\ \E i \in DOMAIN Captures[mem[a].lit] : Captures[mem[a].lit][i].of = mem[c].lit
  BY <1>1, <1>13, LackIsCaptured
<1>15. c \in A
  BY <1>4, <1>14 DEF Whole, IsBlock
<1>16. rank[mem[c].lit] < rank[mem[a].lit]
  BY <1>3, <1>7, <1>14, <1>15
<1> QED BY <1>8, <1>11, <1>12, <1>15, <1>16

\* Who writes to a __block variable after the scope is closed has a Block that
\* captured it.
LEMMA WriterHolds ==
  ASSUME IInv, WellCaptured, ~SharedFrame, NEW t \in Thread, WriteVariable(t), scope # "open",
         NEW b \in Byref, written' = [written EXCEPT ![b] = 1 - written[b]]
  PROVE  \E v \in Var : var[v] \in Heap /\ b \in Reaches[mem[var[v]].lit]
<1>1. CoreInv /\ FieldsInv
  BY DEF IInv
<1>2. PICK s \in Source(t) : \E i \in ByrefFields(mem[s.block]) : Write(mem[s.block].fields[i])
  BY DEF WriteVariable, InFrame
<1>3. PICK i \in ByrefFields(mem[s.block]) : Write(mem[s.block].fields[i])
  BY <1>2
<1>4. PICK a, p : a = s.block /\ p = mem[a].fields[i]
  OBVIOUS
<1>5. i \in DOMAIN mem[a].fields /\ FlagsOf(mem[a], i) \cap BLOCK_FIELD_IS_BYREF # {} /\ Write(p)
  BY <1>3, <1>4 DEF ByrefFields
<1>6. PICK w \in Var : /\ s.block = var[w] /\ s.reads = {w} /\ var[w] # NULL
                       /\ var[w] = GlobalBlock \/ Whole(var[w])
  BY <1>1, SourceShape
<1>7. Whole(a) /\ a = var[w] /\ a \in Heap
  <2>1. mem[GlobalBlock].fields = <<>>
    BY <1>1 DEF CoreInv, StackInv, Block
  <2> QED BY <1>4, <1>5, <1>6, <2>1 DEF Whole, IsBlock
<1>8. /\ mem[a].lit \in Literal /\ DOMAIN mem[a].fields = DOMAIN Captures[mem[a].lit]
      /\ \A j \in DOMAIN mem[a].fields :
           LET x == <<a, j>>   c == Captures[mem[a].lit][j] IN
           /\ x \in HelpedFields /\ Field(x) = mem[a].fields[j] /\ KindOf(x) = AssignKind(c.flags)
           /\ KindOf(x) \in {"block", "byref"} => x \in FieldOwners(Field(x))
  BY <1>7, CapturedField
<1>9. PICK l, x, c : l = mem[a].lit /\ x = <<a, i>> /\ c = Captures[l][i]
  OBVIOUS
<1>10. l \in Literal /\ i \in DOMAIN Captures[l] /\ x \in HelpedFields /\ Field(x) = p /\ KindOf(x) = AssignKind(c.flags)
  BY <1>4, <1>5, <1>8, <1>9
<1>11. c.flags = FlagsOf(mem[a], i) /\ AssignKind(c.flags) = "byref" /\ c.of \in Byref
  <2>1. c.flags = FlagsOf(mem[a], i)
    BY <1>9 DEF FlagsOf
  <2> QED BY <1>5, <1>9, <1>10, <2>1 DEF WellCaptured
<1>12. IsByref(p) /\ mem[p].of = c.of
  BY <1>1, <1>9, <1>10, <1>11 DEF FieldsInv, FieldOk
<1>13. c.of = b
  <2>1. written' = [written EXCEPT ![c.of] = 1 - written[c.of]]
    BY <1>5, <1>12 DEF Write
  <2>2. written \in [Byref -> Value]
    BY <1>1 DEF CoreInv, ProgramInv
  <2>3. written'[b] # written[b]
    BY <2>2 DEF Value
  <2>4. \A d \in Byref : d # c.of => written'[d] = written[d]
    BY <2>1, <2>2
  <2> QED BY <2>3, <2>4
<1>14. b \in Reaches[l]
  <2>1. Reaches[l] = UNION {FoundAt(Reaches, l, j) : j \in DOMAIN Captures[l]}
    BY <1>10, ReachesIs
  <2>2. b \in FoundAt(Reaches, l, i)
    BY <1>9, <1>13, Apart DEF FoundAt
  <2> QED BY <1>10, <2>1, <2>2
<1> QED BY <1>7, <1>9, <1>14

-----------------------------------------------------------------------------
(* Where a __block variable lives *)

\* It has a complete copy on the heap, or is still on the stack.
HasCopy(b) == \E a \in Heap : IsByref(a) /\ mem[a].of = b /\ ~Fresh(a)
Here(b) == HasCopy(b) \/ (mem[b].kind = "byref" /\ (mem[b].forwarding = b \/ PayloadMoving(b)))

\* the literal whose copy v owns
Holds(v) == IF var[v] = NULL THEN NULL ELSE mem[var[v]].lit

\* The open scope or a held Block can use b.
Needed(b) == scope = "open" \/ \E v \in Var : Holds(v) \in Literal /\ b \in Reaches[Holds(v)]

\* A __block variable that is somewhere has the value last written, and one that is
\* needed is somewhere.
HereInv ==
  \A b \in Byref :
    /\ CurrentValue(b) = IF Here(b) THEN written[b] ELSE NULL
    /\ Needed(b) => Here(b)

LEMMA HomesAre ==
  ASSUME NEW b
  PROVE  HeapHomes(b) = {a \in Heap : IsByref(a) /\ mem[a].of = b /\ ~Fresh(a)}
BY DEF HeapHomes, IsByref, Fresh, Moves

LEMMA ValueIs ==
  ASSUME IInv, VariableInv, HomesInv, NEW b \in Byref
  PROVE  CurrentValue(b) = IF Here(b) THEN written[b] ELSE NULL
<1>1. CASE HasCopy(b)
  <2>1. HeapHomes(b) # {}
    BY <1>1, HomesAre DEF HasCopy
  <2>2. PICK a : a = CHOOSE c \in HeapHomes(b) : TRUE
    OBVIOUS
  <2>3. a \in HeapHomes(b)
    BY <2>1, <2>2
  <2>4. a \in Heap /\ IsByref(a) /\ mem[a].of = b /\ ~Fresh(a)
    BY <2>3, HomesAre
  <2>5. mem[a].val = written[b]
    BY <2>4 DEF HomesInv
  <2> QED BY <1>1, <2>1, <2>2, <2>5 DEF CurrentValue, Here
<1>2. CASE ~HasCopy(b)
  <2>1. HeapHomes(b) = {}
    BY <1>2, HomesAre DEF HasCopy
  <2>2. ASSUME Here(b) PROVE mem[b].val = written[b]
    <3>1. mem[b].kind = "byref" /\ (mem[b].forwarding = b \/ PayloadMoving(b))
      BY <1>2, <2>2 DEF Here
    <3>2. scope \in {"open", "closing"}
      <4>1. StackInv /\ scope \in {"open", "closing", "closed"}
        BY DEF IInv, CoreInv, ProgramInv
      <4>2. scope = "closed" => mem[b] = FreeCell
        BY <4>1 DEF StackInv
      <4> QED BY <3>1, <4>1, <4>2 DEF FreeCell
    <3>3. PayloadMoving(b) => scope = "open"
      BY MovesAtTop DEF PayloadMoving, Moves, IInv, VariableInv
    <3> QED BY <3>1, <3>2, <3>3 DEF VariableInv, ValuesInv, HomesInv
  <2> QED BY <1>2, <2>1, <2>2 DEF CurrentValue, Here
<1> QED BY <1>1, <1>2

LEMMA OpenIsHere ==
  ASSUME IInv, VariableInv, scope = "open", NEW b \in Byref
  PROVE  Here(b)
<1>1. CoreInv
  BY DEF IInv
<1>2. PICK a : a = mem[b].forwarding
  OBVIOUS
<1>3. mem[b].kind = "byref" /\ (a = b \/ (a \in Heap /\ IsByref(a) /\ mem[a].of = b))
  <2>1. StackInv
    BY <1>1 DEF CoreInv
  <2>2. /\ mem[b] = ByrefCell("stack", 0, mem[b].forwarding, b, mem[b].val)
        /\ mem[b].forwarding # b => IsByref(mem[b].forwarding) /\ mem[mem[b].forwarding].of = b
    BY <2>1 DEF StackInv
  <2>3. mem[b].kind = "byref"
    BY <2>2 DEF ByrefCell
  <2> QED BY <1>2, <2>2, <2>3 DEF IsByref
<1>4. SUFFICES ASSUME a # b, Fresh(a) PROVE PayloadMoving(b)
  BY <1>2, <1>3 DEF Here, HasCopy
<1>5. PICK p \in LiveFrames : Moves(FrameAt(p)) /\ FrameAt(p).copy = a
  BY <1>4 DEF Fresh
<1>6. PICK f, c : f = FrameAt(p) /\ c = f.arg
  OBVIOUS
<1>7. mem[a].of = c /\ mem[c].forwarding = IF f.pc = "publish" THEN c ELSE a
  BY <1>1, <1>5, <1>6, FreshIsAlone DEF VariableInv
<1> QED BY <1>2, <1>3, <1>4, <1>5, <1>6, <1>7 DEF PayloadMoving, Moves

LEMMA HoldsShape ==
  ASSUME IInv, CapturedInv, NEW v \in Var
  PROVE  /\ \/ var[v] = NULL /\ Holds(v) = NULL
            \/ var[v] \in Heap /\ Whole(var[v]) /\ Holds(v) = mem[var[v]].lit
         /\ Holds(v) \in Literal \cup {NULL} /\ (Holds(v) \in Literal <=> var[v] # NULL)
<1>1. CoreInv
  BY DEF IInv
<1>2. var[v] = NULL \/ var[v] \in Heap
  BY <1>1 DEF CapturedInv, CoreInv, ProgramInv
<1>3. CASE var[v] \in Heap
  <2>1. Whole(var[v]) /\ var[v] # NULL
    BY <1>1, <1>3, HeldIsWhole, Apart DEF CoreInv
  <2>2. mem[var[v]] \in HeapBlock
    BY <1>1, <2>1 DEF Whole, IsBlock, CoreInv, HeapInv, FreeCell, HeapByref
  <2>3. mem[var[v]].lit \in Literal
    BY <2>2 DEF HeapBlock
  <2> QED BY <1>3, <2>1, <2>3 DEF Holds
<1>4. CASE var[v] = NULL
  <2>1. NULL \notin Literal
    BY Apart
  <2>2. Holds(v) = NULL
    BY <1>4 DEF Holds
  <2> QED BY <1>4, <2>1, <2>2
<1> QED BY <1>2, <1>3, <1>4

LEMMA NeededIsHere ==
  ASSUME IInv, WellCaptured, VariableInv, CapturedInv, NEW b \in Byref, Needed(b)
  PROVE  Here(b)
<1>1. CASE scope = "open"
  BY <1>1, OpenIsHere
<1>2. CASE scope # "open"
  <2>1. PICK v \in Var : Holds(v) \in Literal /\ b \in Reaches[Holds(v)]
    BY <1>2 DEF Needed
  <2>2. var[v] \in Heap /\ b \in Reaches[mem[var[v]].lit]
    BY <2>1, HoldsShape
  <2>3. PICK a \in Heap : LiveCopy(a) /\ mem[a].of = b /\ FieldOwners(a) # {}
    BY <2>2, HeldReaches DEF Reached
  <2>4. ~Fresh(a)
    BY <2>3, FreshIsAlone DEF Fresh, IInv, VariableInv
  <2> QED BY <2>3, <2>4 DEF Here, HasCopy, LiveCopy
<1> QED BY <1>1, <1>2

LEMMA HereFollows ==
  ASSUME IInv, WellCaptured, VariableInv, HomesInv, CapturedInv
  PROVE  HereInv
BY ValueIs, NeededIsHere DEF HereInv

\* A step of t keeps what the variables hold that it does not set,
LEMMA HoldsKept ==
  ASSUME IInv, CapturedInv, NEW t \in Thread, StepKept(t), NEW v \in Var, var'[v] = var[v]
  PROVE  Holds(v)' = Holds(v)
<1>1. CASE var[v] = NULL
  BY <1>1 DEF Holds
<1>2. CASE var[v] # NULL
  <2>1. var[v] \in Heap /\ Whole(var[v])
    BY <1>2, HoldsShape
  <2>2. CellKept(var[v])
    BY <2>1 DEF Whole, IsBlock, StepKept, MemKept
  <2>3. mem'[var[v]].lit = mem[var[v]].lit
    BY <2>1, <2>2 DEF Whole, IsBlock, CellKept
  <2> QED BY <2>3 DEF Holds
<1> QED BY <1>1, <1>2

\* and brings no __block variable back.
LEMMA HereKept ==
  ASSUME CoreInv, NEW t \in Thread, StepKept(t), NothingMoves(t), NEW b \in Byref
  PROVE  /\ Here(b)' => Here(b)
         /\ Here(b) /\ (\A a \in Heap : IsByref(a) => IsByref(a)') => Here(b)'
<1>1. \A a : (Fresh(a)' <=> Fresh(a)) /\ (PayloadMoving(a)' <=> PayloadMoving(a))
  BY MovesKept
<1>2. mem'[b] = mem[b]
  BY DEF NothingMoves
<1>3. \A a \in Heap : IsByref(a)' => IsByref(a) /\ mem'[a].of = mem[a].of
  BY DEF IsByref, NothingMoves, Recounted
<1>4. HasCopy(b)' => HasCopy(b)
  BY <1>1, <1>3 DEF HasCopy
<1>5. HasCopy(b) /\ (\A a \in Heap : IsByref(a) => IsByref(a)') => HasCopy(b)'
  BY <1>1, <1>3 DEF HasCopy
<1> QED BY <1>1, <1>2, <1>4, <1>5 DEF Here

-----------------------------------------------------------------------------
(* Refinement of AllocatedVariables *)

LEMMA UsedIsNeeded ==
  ASSUME NEW b
  PROVE  Allocated!Used(b) <=> Needed(b)
BY DEF Allocated!Used, Needed, Holds

\* A step that a program does not see recovers the variables that nobody needs.
LEMMA MapsRecover ==
  ASSUME HereInv, HereInv', \A v \in Var : Holds(v)' = Holds(v), written' = written,
         scope' = "open" <=> scope = "open", \A b \in Byref : Here(b)' => Here(b)
  PROVE  Allocated!Next
<1>1. PICK B \in SUBSET Byref : B = {b \in Byref : Here(b) /\ ~(Here(b)')}
  OBVIOUS
<1>2. ASSUME NEW b \in B PROVE ~Allocated!Used(b)
  <2>1. SUFFICES ASSUME Needed(b) PROVE FALSE
    BY UsedIsNeeded
  <2>2. Needed(b)'
    BY <2>1 DEF Needed
  <2>3. Here(b)'
    BY <2>2 DEF HereInv
  <2> QED BY <1>1, <2>3
<1>3. ASSUME NEW b \in Byref PROVE CurrentValue(b)' = IF b \in B THEN NULL ELSE CurrentValue(b)
  BY <1>1 DEF HereInv
<1>4. [v \in Var |-> IF var[v] = NULL THEN NULL ELSE mem[var[v]].lit]'
        = [v \in Var |-> IF var[v] = NULL THEN NULL ELSE mem[var[v]].lit]
  BY DEF Holds
<1>5. [b \in Byref |-> CurrentValue(b)]'
        = [b \in Byref |-> IF b \in B THEN NULL ELSE [c \in Byref |-> CurrentValue(c)][b]]
  BY <1>3
<1>6. (scope' = "open") = (scope = "open")
  OBVIOUS
<1>7. Allocated!Recover(B)
  BY <1>2, <1>4, <1>5, <1>6 DEF Allocated!Recover
<1> QED BY <1>7 DEF Allocated!Next

\* ... such as one that neither sets a variable nor moves one.
LEMMA MapsQuiet ==
  ASSUME IInv, CapturedInv, HereInv, HereInv', NEW t \in Thread, StepKept(t), NothingMoves(t), var' = var
  PROVE  Allocated!Next
<1>1. \A v \in Var : Holds(v)' = Holds(v)
  BY HoldsKept
<1>2. \A b \in Byref : Here(b)' => Here(b)
  BY HereKept DEF IInv
<1>3. scope' = scope /\ written' = written
  BY DEF StepKept, ProgramKept, NothingMoves
<1> QED BY <1>1, <1>2, <1>3, MapsRecover

\* Moving a variable is not seen either: it is here all the time.
LEMMA MapsMove ==
  ASSUME IInv, CapturedInv, HereInv, HereInv', NEW t \in Thread,
         ByrefCopyFirst(t) \/ ByrefPublish(t) \/ ByrefPayload(t)
  PROVE  Allocated!Next
<1>1. StepKept(t) /\ \E P, b, c, to : MoveGoesOn(t, P, b, c, to)
  BY Zenon, ByrefCopyFirstStep, ByrefPublishStep, ByrefPayloadStep
<1>2. scope = "open" /\ written' = written
  BY <1>1 DEF MoveGoesOn
<1>3. var' = var /\ scope' = scope
  BY <1>1 DEF StepKept, ProgramKept, ByrefCopyFirst, ByrefPublish, ByrefPayload
<1>4. \A v \in Var : Holds(v)' = Holds(v)
  BY <1>1, <1>3, HoldsKept
<1>5. \A b \in Byref : Here(b)
  BY <1>2 DEF HereInv, Needed
<1> QED BY <1>2, <1>3, <1>4, <1>5, MapsRecover

\* What a program sees of a step that sets v to a copy of l, or to NULL.
HoldsSet(v, l) == \A u \in Var : Holds(u)' = IF u = v THEN l ELSE Holds(u)

LEMMA SeenSet ==
  ASSUME HereInv, HereInv', NEW v \in Var, NEW l, HoldsSet(v, l), written' = written, scope' = scope,
         \A b \in Byref : Here(b)' <=> Here(b)
  PROVE  /\ [u \in Var |-> IF var[u] = NULL THEN NULL ELSE mem[var[u]].lit]'
              = [[u \in Var |-> IF var[u] = NULL THEN NULL ELSE mem[var[u]].lit] EXCEPT ![v] = l]
         /\ [b \in Byref |-> CurrentValue(b)]' = [b \in Byref |-> CurrentValue(b)]
         /\ (scope' = "open") = (scope = "open")
<1>1. \A b \in Byref : CurrentValue(b)' = CurrentValue(b)
  BY DEF HereInv
<1>2. \A u \in Var : (IF var'[u] = NULL THEN NULL ELSE mem'[var'[u]].lit)
                        = IF u = v THEN l ELSE IF var[u] = NULL THEN NULL ELSE mem[var[u]].lit
  BY DEF HoldsSet, Holds
<1> QED BY <1>1, <1>2

\* A call that answers the program has copied a Block that it knows.
LEMMA MapsCopied ==
  ASSUME IInv, CapturedInv, HereInv, HereInv', NEW t \in Thread, StepKept(t), NothingMoves(t),
         NEW f, NEW r, NEW m, Answer(t, f, r, m), IsVar(f.dest), r \in Heap
  PROVE  Allocated!Next
<1>1. CoreInv
  BY DEF IInv
<1>2. /\ ~Idle(t) /\ f = FrameAt(Top(t)) /\ f.fn \in {"copy", "copyHelper", "byrefCopy"}
      /\ Result(f, r, m) /\ Returns(t, f, r, m) /\ IsBlock(r) /\ Known(mem[r].lit)
  BY DEF Answer
<1>3. PICK v, l : v = f.dest.var /\ l = mem[r].lit
  OBVIOUS
<1>4. v \in Var /\ var[v] = NULL
  BY <1>1, <1>2, <1>3, ReturnedShape
<1>5. /\ \A a \in Addr : a # Inner[t] => mem'[a] = ReturnedCell(f.dest, r, f, a)
      /\ var' = IF IsVar(f.dest) THEN [var EXCEPT ![f.dest.var] = r] ELSE var
      /\ scope' = scope /\ written' = written
  BY <1>1, <1>2, ReturnedCells
<1>6. \A a \in Heap : mem'[a] = ReturnedCell(f.dest, r, f, a)
  BY <1>5, Apart DEF Addr
<1>7. \A a \in Heap : mem[a].kind # "free" => mem'[a].kind = mem[a].kind
  <2>1. ASSUME NEW a \in Heap, mem[a].kind # "free" PROVE mem'[a].kind = mem[a].kind
    <3>1. mem[a] \in HeapBlock \cup HeapByref
      BY <1>1, <2>1 DEF CoreInv, HeapInv, FreeCell
    <3>2. mem'[a] = mem[a] \/ mem'[a] = [mem[a] EXCEPT !.count = @ + 1]
            \/ mem'[a] = [mem[a] EXCEPT !.isa = "malloc"]
      BY <1>6 DEF ReturnedCell
    <3> QED BY <3>1, <3>2 DEF HeapBlock, HeapByref
  <2> QED BY <2>1
<1>8. mem'[r].lit = l /\ l \in Literal
  <2>1. mem[r] \in HeapBlock
    BY <1>1, <1>2 DEF IsBlock, CoreInv, HeapInv, FreeCell, HeapByref
  <2>2. mem'[r] = mem[r] \/ mem'[r] = [mem[r] EXCEPT !.count = @ + 1]
          \/ mem'[r] = [mem[r] EXCEPT !.isa = "malloc"]
    BY <1>6 DEF ReturnedCell
  <2> QED BY <1>3, <2>1, <2>2 DEF HeapBlock
<1>9. var' = [var EXCEPT ![v] = r] /\ var \in [Var -> Heap \cup {GlobalBlock, NULL}] /\ r # NULL
  BY <1>1, <1>3, <1>5, Apart DEF CoreInv, ProgramInv
<1>10. HoldsSet(v, l)
  <2>1. ASSUME NEW u \in Var PROVE Holds(u)' = IF u = v THEN l ELSE Holds(u)
    <3>1. CASE u = v
      <4>1. var'[u] = r
        BY <1>4, <1>9, <3>1
      <4> QED BY <1>8, <1>9, <3>1, <4>1 DEF Holds
    <3>2. CASE u # v
      <4>1. var'[u] = var[u]
        BY <1>9, <3>2
      <4> QED BY <3>2, <4>1, HoldsKept
    <3> QED BY <3>1, <3>2
  <2> QED BY <2>1 DEF HoldsSet
<1>11. \A b \in Byref : Here(b)' <=> Here(b)
  <2>1. \A a \in Heap : IsByref(a) => IsByref(a)'
    BY <1>7 DEF IsByref
  <2> QED BY <1>1, <2>1, HereKept
<1>12. Holds(v) = NULL
  BY <1>4 DEF Holds
<1>13. scope = "open" \/ \E u \in Var : Holds(u) = l
  BY <1>2, <1>3, Apart DEF Known, Holds, IsBlock
<1>14. /\ [u \in Var |-> IF var[u] = NULL THEN NULL ELSE mem[var[u]].lit]'
            = [[u \in Var |-> IF var[u] = NULL THEN NULL ELSE mem[var[u]].lit] EXCEPT ![v] = l]
       /\ [b \in Byref |-> CurrentValue(b)]' = [b \in Byref |-> CurrentValue(b)]
       /\ (scope' = "open") = (scope = "open")
  BY <1>4, <1>5, <1>10, <1>11, SeenSet
<1>15. Allocated!Copy(v, l)
  BY <1>4, <1>12, <1>13, <1>14 DEF Allocated!Copy, Holds
<1> QED BY <1>4, <1>8, <1>15 DEF Allocated!Next

LEMMA MapsReturn ==
  ASSUME IInv, CapturedInv, ~MallocFails, HereInv, HereInv', NEW t \in Thread,
         \/ CopyNull(t) \/ CopyHeap(t) \/ CopyGlobal(t) \/ CopyStackFails(t) \/ CopyDone(t)
         \/ ByrefCopyReturn(t)
  PROVE  Allocated!Next
<1>1. CoreInv /\ StepKept(t) /\ NothingMoves(t)
  BY Zenon, CopyReturns, CopyDoneStep, ByrefCopyReturnStep DEF IInv
<1>2. PICK f, r, m : Answer(t, f, r, m)
  BY Zenon, Answers
<1>3. /\ ~Idle(t) /\ f = FrameAt(Top(t)) /\ f.fn \in {"copy", "copyHelper", "byrefCopy"}
      /\ Result(f, r, m) /\ Returns(t, f, r, m) /\ (IsVar(f.dest) => r # GlobalBlock)
  BY <1>2 DEF Answer
<1>4. CASE IsVar(f.dest) /\ r \in Heap
  BY <1>1, <1>2, <1>4, MapsCopied
<1>5. CASE ~(IsVar(f.dest) /\ r \in Heap)
  <2>1. /\ r \in Heap \cup {NULL, GlobalBlock}
        /\ IsVar(f.dest) => f.dest.var \in Var /\ var[f.dest.var] = NULL
    BY <1>1, <1>3, ReturnedShape
  <2>2. var' = IF IsVar(f.dest) THEN [var EXCEPT ![f.dest.var] = r] ELSE var
    BY <1>1, <1>3, ReturnedCells
  <2>3. var \in [Var -> Heap \cup {GlobalBlock, NULL}]
    BY <1>1 DEF CoreInv, ProgramInv
  <2>4. var' = var
    BY <1>3, <1>5, <2>1, <2>2, <2>3
  <2> QED BY <1>1, <2>4, MapsQuiet
<1> QED BY <1>4, <1>5

\* A variable that is dropped no longer holds a Block.
LEMMA MapsDrop ==
  ASSUME IInv, CapturedInv, HereInv, HereInv', NEW t \in Thread, DropBlock(t)
  PROVE  Allocated!Next
<1>1. CoreInv /\ StepKept(t) /\ NothingMoves(t)
  BY DropBlockStep DEF IInv
<1>2. PICK v \in Var : var[v] # NULL /\ var' = [var EXCEPT ![v] = NULL]
  BY DEF DropBlock
<1>3. mem' = mem /\ scope' = scope /\ written' = written
  BY DEF DropBlock
<1>4. var \in [Var -> Heap \cup {GlobalBlock, NULL}]
  BY <1>1 DEF CoreInv, ProgramInv
<1>5. HoldsSet(v, NULL)
  BY <1>2, <1>3, <1>4 DEF HoldsSet, Holds
<1>6. \A b \in Byref : Here(b)' <=> Here(b)
  <2>1. \A a \in Heap : IsByref(a) => IsByref(a)'
    BY <1>3 DEF IsByref
  <2> QED BY <1>1, <2>1, HereKept
<1>7. /\ [u \in Var |-> IF var[u] = NULL THEN NULL ELSE mem[var[u]].lit]'
           = [[u \in Var |-> IF var[u] = NULL THEN NULL ELSE mem[var[u]].lit] EXCEPT ![v] = NULL]
      /\ [b \in Byref |-> CurrentValue(b)]' = [b \in Byref |-> CurrentValue(b)]
      /\ (scope' = "open") = (scope = "open")
  BY <1>3, <1>5, <1>6, SeenSet
<1>8. Holds(v) # NULL
  BY <1>2, HoldsShape, Apart
<1>9. Allocated!Release(v)
  BY <1>7, <1>8 DEF Allocated!Release, Holds
<1> QED BY <1>9 DEF Allocated!Next

\* The calls stay: what is here is a matter of the cells.
LEMMA HereFrom ==
  ASSUME \A p : (p \in LiveFrames' /\ Moves(FrameAt(p))') <=> (p \in LiveFrames /\ Moves(FrameAt(p))),
         \A p \in LiveFrames : Moves(FrameAt(p)) => FrameAt(p)' = FrameAt(p),
         \A a \in Heap : (IsByref(a)' <=> IsByref(a)) /\ (IsByref(a) => mem'[a].of = mem[a].of),
         NEW b \in Byref
  PROVE  /\ HasCopy(b)' <=> HasCopy(b)
         /\ mem'[b].kind = mem[b].kind /\ mem'[b].forwarding = mem[b].forwarding => (Here(b)' <=> Here(b))
<1>1. \A a : Fresh(a)' <=> Fresh(a)
  BY DEF Fresh
<1>2. PayloadMoving(b)' <=> PayloadMoving(b)
  BY DEF PayloadMoving, Moves
<1>3. HasCopy(b)' <=> HasCopy(b)
  BY <1>1 DEF HasCopy
<1> QED BY <1>2, <1>3 DEF Here

\* A write is seen: the variable has the other value.
LEMMA MapsWrite ==
  ASSUME IInv, WellCaptured, ~SharedFrame, CapturedInv, HereInv, HereInv', NEW t \in Thread, WriteVariable(t)
  PROVE  Allocated!Next
<1>1. CoreInv /\ UNCHANGED <<var, stack, scope>>
  BY DEF IInv, WriteVariable
<1>2. PICK b \in Byref, c \in Addr :
        /\ mem' = [mem EXCEPT ![c].val = 1 - written[b]]
        /\ written' = [written EXCEPT ![b] = 1 - written[b]]
        /\ \/ c = b /\ scope = "open"
           \/ IsByref(c) /\ ~mem[c].dying /\ mem[c].of = b
  BY WriteTarget
<1>3. PICK x : x = 1 - written[b]
  OBVIOUS
<1>4. /\ mem = [a \in Addr |-> mem[a]] /\ \A a \in Byref \cup Heap : a \in Addr
      /\ written \in [Byref -> Value]
  BY <1>1, Apart DEF CoreInv, StackInv, ProgramInv, Addr, Stack
<1>5. /\ \A a \in Addr : a # c => mem'[a] = mem[a]
      /\ mem'[c] = [mem[c] EXCEPT !.val = x]
      /\ written'[b] = x /\ \A y \in Byref : y # b => written'[y] = written[y]
  BY <1>2, <1>3, <1>4
<1>6. mem[c].kind = "byref" /\ mem'[c].kind = "byref" /\ mem'[c].of = mem[c].of /\ mem'[c].forwarding = mem[c].forwarding
  <2>1. CASE IsByref(c)
    <3>1. mem[c] \in HeapByref
      BY <1>1, <2>1 DEF CoreInv, HeapInv, HeapBlock, FreeCell, IsByref
    <3> QED BY <1>5, <3>1 DEF HeapByref
  <2>2. CASE c = b /\ scope = "open"
    <3>1. mem[c] = ByrefCell("stack", 0, mem[c].forwarding, c, mem[c].val)
      BY <1>1, <2>2 DEF CoreInv, StackInv
    <3> QED BY <1>5, <3>1 DEF ByrefCell
  <2> QED BY <1>2, <2>1, <2>2
<1>7. \A a \in Byref \cup Heap :
        mem'[a].kind = mem[a].kind /\ mem'[a].of = mem[a].of /\ mem'[a].forwarding = mem[a].forwarding
  BY <1>4, <1>5, <1>6
<1>8. \A p : LiveFrames' = LiveFrames /\ FrameAt(p)' = FrameAt(p)
  BY <1>1 DEF LiveFrames, FrameAt
<1>9. ASSUME NEW y \in Byref PROVE Here(y)' <=> Here(y)
  <2>1. \A a \in Heap : (IsByref(a)' <=> IsByref(a)) /\ (IsByref(a) => mem'[a].of = mem[a].of)
    BY <1>7 DEF IsByref
  <2>2. /\ \A p : (p \in LiveFrames' /\ Moves(FrameAt(p))') <=> (p \in LiveFrames /\ Moves(FrameAt(p)))
        /\ \A p \in LiveFrames : Moves(FrameAt(p)) => FrameAt(p)' = FrameAt(p)
    BY <1>8 DEF Moves
  <2> QED BY <1>7, <2>1, <2>2, HereFrom
<1>10. ASSUME NEW v \in Var PROVE Holds(v)' = Holds(v)
  <2>1. CASE var[v] = NULL
    BY <1>1, <2>1 DEF Holds
  <2>2. CASE var[v] # NULL
    <3>1. IsBlock(var[v])
      BY <2>2, HoldsShape DEF Whole
    <3>2. mem'[var[v]] = mem[var[v]]
      BY <1>4, <1>5, <1>6, <3>1 DEF IsBlock
    <3> QED BY <1>1, <3>2 DEF Holds
  <2> QED BY <2>1, <2>2
<1>11. Needed(b)
  <2>1. CASE scope = "open"
    BY <2>1 DEF Needed
  <2>2. CASE scope # "open"
    <3>1. PICK v \in Var : var[v] \in Heap /\ b \in Reaches[mem[var[v]].lit]
      BY <1>2, <2>2, WriterHolds
    <3>2. Holds(v) \in Literal /\ Holds(v) = mem[var[v]].lit
      BY <3>1, HoldsShape, Apart
    <3> QED BY <3>1, <3>2 DEF Needed
  <2> QED BY <2>1, <2>2
<1>12. /\ CurrentValue(b) = written[b] /\ CurrentValue(b)' = 1 - CurrentValue(b)
       /\ \A y \in Byref : y # b => CurrentValue(y)' = CurrentValue(y)
  BY <1>3, <1>5, <1>9, <1>11 DEF HereInv
<1>13. [y \in Byref |-> CurrentValue(y)]'
         = [[y \in Byref |-> CurrentValue(y)] EXCEPT ![b] = 1 - @]
  BY <1>12
<1>14. /\ [u \in Var |-> IF var[u] = NULL THEN NULL ELSE mem[var[u]].lit]'
            = [u \in Var |-> IF var[u] = NULL THEN NULL ELSE mem[var[u]].lit]
       /\ (scope' = "open") = (scope = "open")
  BY <1>1, <1>10 DEF Holds
<1>15. Allocated!Write(b)
  BY <1>11, <1>13, <1>14, UsedIsNeeded DEF Allocated!Write
<1> QED BY <1>15 DEF Allocated!Next

\* The end of the scope moves nothing and frees nothing.
LEMMA MapsCloseScope ==
  ASSUME IInv, VariableInv, CapturedInv, HereInv, HereInv', CloseScope
  PROVE  Allocated!Next
<1>1. CoreInv /\ FreshInv
  BY DEF IInv, VariableInv
<1>2. /\ mem' = mem /\ Idle(Main)
      /\ \A p \in LiveFrames : p \in LiveFrames' /\ FrameAt(p)' = FrameAt(p)
      /\ \A p \in LiveFrames' : p \notin LiveFrames => FrameAt(p)'.fn = "byrefRelease"
  BY <1>1, ScopeFrames
<1>3. scope = "open" /\ scope' = "closing" /\ var' = var /\ written' = written
  BY DEF CloseScope
<1>4. \A p \in LiveFrames : ~Moves(FrameAt(p))
  BY <1>1, <1>2, MovesAtTop
<1>5. \A p \in LiveFrames' : ~(Moves(FrameAt(p))')
  BY <1>2, <1>4 DEF Moves
<1>6. ASSUME NEW b \in Byref PROVE Here(b)' <=> Here(b)
  <2>1. \A a \in Heap : (IsByref(a)' <=> IsByref(a)) /\ (IsByref(a) => mem'[a].of = mem[a].of)
    BY <1>2 DEF IsByref
  <2> QED BY <1>2, <1>4, <1>5, <2>1, HereFrom
<1>7. \A v \in Var : Holds(v)' = Holds(v)
  BY <1>2, <1>3 DEF Holds
<1>8. \A b \in Byref : CurrentValue(b)' = CurrentValue(b)
  BY <1>3, <1>6 DEF HereInv
<1>9. /\ [u \in Var |-> IF var[u] = NULL THEN NULL ELSE mem[var[u]].lit]'
           = [u \in Var |-> IF var[u] = NULL THEN NULL ELSE mem[var[u]].lit]
      /\ [y \in Byref |-> CurrentValue(y)]' = [y \in Byref |-> CurrentValue(y)]
      /\ (scope' = "open") = FALSE /\ scope = "open"
  BY <1>3, <1>7, <1>8 DEF Holds
<1>10. Allocated!CloseScope
  BY <1>9 DEF Allocated!CloseScope
<1> QED BY <1>10 DEF Allocated!Next

\* When the function returns, the variables that were never copied are recovered.
LEMMA MapsLeaveFrame ==
  ASSUME IInv, CapturedInv, HereInv, HereInv', LeaveFrame
  PROVE  Allocated!Next
<1>1. /\ scope = "closing" /\ scope' = "closed" /\ written' = written /\ stack' = stack /\ var' = var
      /\ mem' = [a \in Addr |-> IF a \in Byref \cup Literal THEN FreeCell ELSE mem[a]]
  BY DEF LeaveFrame
<1>2. \A a \in Heap : mem'[a] = mem[a]
  BY <1>1, Apart DEF Addr
<1>3. LiveFrames' = LiveFrames /\ \A p : FrameAt(p)' = FrameAt(p)
  BY <1>1 DEF LiveFrames, FrameAt
<1>4. ASSUME NEW b \in Byref, Here(b)' PROVE Here(b)
  <2>1. b \in Addr
    BY DEF Addr, Stack
  <2>2. mem'[b] = FreeCell
    BY <1>1, <2>1
  <2>3. HasCopy(b)'
    BY <1>4, <2>2 DEF Here, FreeCell
  <2>4. \A a : Fresh(a)' <=> Fresh(a)
    BY <1>3 DEF Fresh, Moves
  <2>5. HasCopy(b)
    BY <1>2, <2>3, <2>4 DEF HasCopy, IsByref
  <2> QED BY <2>5 DEF Here
<1>5. ASSUME NEW v \in Var PROVE Holds(v)' = Holds(v)
  <2>1. var[v] = NULL \/ var[v] \in Heap
    BY HoldsShape
  <2> QED BY <1>1, <1>2, <2>1 DEF Holds
<1>6. scope' = "open" <=> scope = "open"
  BY <1>1
<1> QED BY <1>1, <1>4, <1>5, <1>6, MapsRecover

LEMMA MapsStutter ==
  ASSUME HereInv, HereInv', UNCHANGED vars
  PROVE  Allocated!Next
<1>1. UNCHANGED <<mem, var, stack, scope, written>>
  BY DEF vars
<1>2. LiveFrames' = LiveFrames /\ \A p : FrameAt(p)' = FrameAt(p)
  BY <1>1 DEF LiveFrames, FrameAt
<1>3. ASSUME NEW b \in Byref PROVE Here(b)' => Here(b)
  <2>1. \A a \in Heap : (IsByref(a)' <=> IsByref(a)) /\ (IsByref(a) => mem'[a].of = mem[a].of)
    BY <1>1 DEF IsByref
  <2>2. /\ \A p : (p \in LiveFrames' /\ Moves(FrameAt(p))') <=> (p \in LiveFrames /\ Moves(FrameAt(p)))
        /\ \A p \in LiveFrames : Moves(FrameAt(p)) => FrameAt(p)' = FrameAt(p)
    BY <1>2 DEF Moves
  <2> QED BY <1>1, <2>1, <2>2, HereFrom
<1>4. \A v \in Var : Holds(v)' = Holds(v)
  BY <1>1 DEF Holds
<1> QED BY <1>1, <1>3, <1>4, MapsRecover

LEMMA MapsInit ==
  ASSUME Init, HereInv
  PROVE  Allocated!Init
<1>1. scope = "open" /\ var = [v \in Var |-> NULL] /\ written = [b \in Byref |-> 0]
  BY DEF Init
<1>2. \A b \in Byref : CurrentValue(b) = 0
  BY <1>1 DEF HereInv, Needed
<1> QED BY <1>1, <1>2 DEF Allocated!Init

LEMMA MapsRuntime ==
  ASSUME IInv, WellCaptured, ~MallocFails, VariableInv, CapturedInv, HereInv, HereInv',
         NEW t \in Thread, RuntimeStep(t)
  PROVE  Allocated!Next
<1>1. CASE \/ CopyNull(t) \/ CopyHeap(t) \/ CopyGlobal(t) \/ CopyStackFails(t) \/ CopyDone(t)
           \/ ByrefCopyReturn(t)
  BY Zenon, <1>1, MapsReturn
<1>2. CASE CopyStack(t) \/ AssignInPlace(t) \/ AssignBlockOrByref(t)
  <2>1. StepKept(t) /\ NothingMoves(t)
    BY Zenon, <1>2, CopyStackStep, AssignInPlaceStep, AssignBlockOrByrefStep
  <2>2. var' = var
    BY <1>2 DEF CopyStack, AssignInPlace, AssignBlockOrByref
  <2> QED BY Zenon, <2>1, <2>2, MapsQuiet
<1>3. CASE ByrefCopyAgain(t) \/ ByrefIncrement(t)
  <2>1. StepKept(t) /\ NothingMoves(t)
    BY Zenon, <1>3, ByrefCopyAgainStep, ByrefIncrementStep
  <2>2. var' = var
    BY <1>3 DEF ByrefCopyAgain, ByrefIncrement
  <2> QED BY Zenon, <2>1, <2>2, MapsQuiet
<1>4. CASE ReleaseNothing(t) \/ ReleaseShared(t) \/ ReleaseDone(t) \/ ByrefReleaseShared(t) \/ ByrefReleaseDone(t)
  <2>1. StepKept(t) /\ NothingMoves(t)
    BY Zenon, <1>4, ReleaseReturns, ByrefReleaseReturns
  <2>2. var' = var
    BY <1>4 DEF ReleaseNothing, ReleaseShared, ReleaseDone, ByrefReleaseShared, ByrefReleaseDone
  <2> QED BY Zenon, <2>1, <2>2, MapsQuiet
<1>5. CASE ReleaseLast(t) \/ DisposeInPlace(t) \/ DisposeBlockOrByref(t)
  <2>1. StepKept(t) /\ NothingMoves(t)
    BY Zenon, <1>5, ReleaseLastStep, DisposeInPlaceStep, DisposeBlockOrByrefStep
  <2>2. var' = var
    BY <1>5 DEF ReleaseLast, DisposeInPlace, DisposeBlockOrByref
  <2> QED BY Zenon, <2>1, <2>2, MapsQuiet
<1>6. CASE ByrefReleaseLoad(t) \/ ByrefReleaseLast(t)
  <2>1. StepKept(t) /\ NothingMoves(t)
    BY Zenon, <1>6, ByrefReleaseLoadStep, ByrefReleaseLastStep
  <2>2. var' = var
    BY <1>6 DEF ByrefReleaseLoad, ByrefReleaseLast
  <2> QED BY Zenon, <2>1, <2>2, MapsQuiet
<1>7. CASE ByrefCopyFirst(t) \/ ByrefPublish(t) \/ ByrefPayload(t)
  BY Zenon, <1>7, MapsMove
<1> QED BY Zenon, <1>1, <1>2, <1>3, <1>4, <1>5, <1>6, <1>7 DEF RuntimeStep

LEMMA MapsProgram ==
  ASSUME IInv, WellCaptured, ~SharedFrame, CapturedInv, HereInv, HereInv', NEW t \in Thread, ProgramStep(t)
  PROVE  Allocated!Next
<1>1. CASE CopyBlock(t) \/ CopyNested(t)
  <2>1. StepKept(t) /\ NothingMoves(t)
    BY Zenon, <1>1, CopyBlockStep, CopyNestedStep
  <2>2. var' = var
    BY <1>1 DEF CopyBlock, CopyNested
  <2> QED BY Zenon, <2>1, <2>2, MapsQuiet
<1> QED BY Zenon, <1>1, MapsWrite, MapsDrop DEF ProgramStep

LEMMA MapsNext ==
  ASSUME IInv, WellCaptured, ~SharedFrame, ~MallocFails, VariableInv, CapturedInv, HereInv, HereInv',
         [Next]_vars
  PROVE  Allocated!Next
BY Zenon, MapsRuntime, MapsProgram, MapsCloseScope, MapsLeaveFrame, MapsStutter DEF Next

\* __block variables act as if they were in allocated storage: no step of a copy, a
\* release or the end of the scope, however calls nest and threads interleave, changes
\* or splits a value, and what is recovered no Block can use any more.  A malloc that
\* fails leaves NULL in a field, which keeps nothing: the theorem is without.
THEOREM ActsAsAllocated ==
  ~SharedFrame /\ ~MallocFails /\ WellCaptured => (Spec => ActAsAllocated)
<1>1. SUFFICES ASSUME ~SharedFrame, ~MallocFails, WellCaptured PROVE Spec => ActAsAllocated
  OBVIOUS
<1>2. DEFINE One == IInv /\ VariableInv /\ HomesInv /\ CapturedInv
<1>3. Init => One
  BY InitInv, InitIsOne, InitHomes, InitCaptured
<1>4. One /\ [Next]_vars => One'
  <2>1. SUFFICES ASSUME IInv, VariableInv, HomesInv, CapturedInv, [Next]_vars
                 PROVE  IInv' /\ VariableInv' /\ HomesInv' /\ CapturedInv'
    OBVIOUS
  <2>2. IInv' /\ VariableInv'
    BY Zenon, <1>1, <2>1, NextInv, NextIsOne
  <2>3. HomesInv' /\ CapturedInv'
    BY Zenon, <1>1, <2>1, NextHomes, NextCaptured
  <2> QED BY <2>2, <2>3
<1>5. One => HereInv
  BY <1>1, HereFollows
<1>6. Init /\ HereInv => Allocated!Init
  BY MapsInit
<1>7. One /\ HereInv /\ HereInv' /\ [Next]_vars => [Allocated!Next]_Allocated!vars
  <2>1. SUFFICES ASSUME IInv, VariableInv, CapturedInv, HereInv, HereInv', [Next]_vars
                 PROVE  Allocated!Next
    OBVIOUS
  <2> QED BY Zenon, <1>1, <2>1, MapsNext
<1> QED BY <1>3, <1>4, <1>5, <1>6, <1>7, PTL DEF Spec, ActAsAllocated, Allocated!Spec

=============================================================================
