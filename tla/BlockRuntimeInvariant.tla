----------------------- MODULE BlockRuntimeInvariant ------------------------
(***************************************************************************)
(* The steps of the copy and dispose helpers, of _Block_release and of the *)
(* program keep the invariant: it holds in every reachable state.          *)
(***************************************************************************)
EXTENDS BlockRuntimeCalls

\* A call that is not about a stack variable goes on, and what it owns changes with
\* the count.
LEMMA CallSettles ==
  ASSUME CoreInv, NEW t \in Thread, ~Idle(t), StepKept(t), NEW P, P = Top(t), Changed(t) = {P},
         LiveFrames' = LiveFrames,
         NEW f, f = FrameAt(P), NEW g, g = FrameAt(P)', f.fn # "byrefCopy", g.fn # "byrefCopy",
         \A b \in Byref : mem'[b] = mem[b],
         NEW a \in Heap, NEW n \in {-1, 0, 1}, Held(a)' = Held(a) + n,
         n = 0 => (FrameOwns(FrameAt(P), a) <=> FrameOwns(FrameAt(P), a)'),
         n = 1 => ~FrameOwns(FrameAt(P), a) /\ FrameOwns(FrameAt(P), a)',
         n = -1 => FrameOwns(FrameAt(P), a) /\ ~FrameOwns(FrameAt(P), a)'
  PROVE  Settles(a)
<1>1. P \in LiveFrames
  BY TopFrame DEF CoreInv
<1>2. Grows(FrameOwners(a), FrameOwners(a)', n)
  <2>1. /\ (FrameOwns(FrameAt(P), a) <=> FrameOwns(FrameAt(P), a)') => Grows(FrameOwners(a), FrameOwners(a)', 0)
        /\ ~FrameOwns(FrameAt(P), a) /\ FrameOwns(FrameAt(P), a)' => Grows(FrameOwners(a), FrameOwners(a)', 1)
        /\ FrameOwns(FrameAt(P), a) /\ ~FrameOwns(FrameAt(P), a)' => Grows(FrameOwners(a), FrameOwners(a)', -1)
    BY <1>1, GoesOnOwners
  <2> QED BY <2>1
<1>3. StackOwners(a)' = StackOwners(a)
  <2>1. \A y \in LiveFrames' : y \notin LiveFrames \/ y = Top(t) => FrameAt(y)' = g
    BY <1>1
  <2>2. \A b \in Byref : mem'[b].forwarding = mem[b].forwarding
    OBVIOUS
  <2> QED BY <2>1, <2>2, StackOwnersKept
<1>4. Grows(StackOwners(a), StackOwners(a)', 0)
  BY <1>3 DEF Grows
<1>5. Held(a)' = Held(a) + n + 0
  <2>1. Held(a) \in Nat
    BY DEF Held, CoreInv, HeapInv, HeapBlock, HeapByref, FreeCell
  <2>2. n \in Int
    OBVIOUS
  <2> QED BY <2>1, <2>2
<1> QED BY <1>2, <1>4, <1>5 DEF Settles

\* A copy helper does not fill the Block that its own result goes to.
LEMMA DestElsewhere ==
  ASSUME CoreInv, NEW p \in LiveFrames, NEW f, f = FrameAt(p), f.fn = "copyHelper", NEW j
  PROVE  f.dest # ToField(f.result, j)
<1>1. SUFFICES ASSUME f.dest = ToField(f.result, j) PROVE FALSE
  OBVIOUS
<1>2. ~IsVar(f.dest) /\ f.dest.block = f.result
  BY <1>1 DEF IsVar, ToField
<1>3. PICK q : q = <<p[1], p[2] - 1>>
  BY Zenon
<1>4. q \in LiveFrames /\ FrameAt(q).fn = "copyHelper" /\ f.dest.block = FrameAt(q).result
  BY <1>2, <1>3, DestCaller DEF CoreInv
<1>5. q = p
  BY ZenonT(30), <1>2, <1>4, Draft DEF CoreInv, Builds
<1>6. p[2] \in Int /\ q[2] = p[2] - 1
  BY <1>3, LiveShape DEF CoreInv
<1> QED BY <1>5, <1>6

LEMMA AssignInPlaceStep ==
  ASSUME IInv, WellCaptured, NEW t \in Thread, AssignInPlace(t)
  PROVE  IInv' /\ StepKept(t) /\ NothingMoves(t)
<1>1. PICK f, P, a, r, i : f = Head(stack[t]) /\ P = Top(t) /\ a = f.arg /\ r = f.result /\ i = f.i
  OBVIOUS
<1>2. f.fn = "copyHelper" /\ ~Idle(t) /\ i <= Len(mem[a].fields)
  BY Zenon, <1>1 DEF AssignInPlace, In, Idle
<1>3. /\ FrameAt(P) = f /\ P[1] = t /\ f \in Frame /\ P \in LiveFrames /\ CoreInv /\ CopyHelperInv(P)
      /\ FieldsInv /\ RetainsInv
  BY <1>1, <1>2, Running DEF IInv, FrameInv
<1>4. PICK n : n = Len(mem[a].fields)
  BY Zenon
<1>5. /\ DestInv(P) /\ StackBlock(t, a) /\ r \in Heap
      /\ IsBlock(r) /\ mem[r].isa = "stack" /\ mem[r].count = 1
      /\ mem[r].lit = mem[a].lit /\ Len(mem[r].fields) = n
      /\ i \in 1 .. n + 1
      /\ \A j \in i .. n : mem[r].fields[j] = mem[a].fields[j]
      /\ ~IsVar(f.dest) =>
            AssignKind(Awaited(f.dest).flags) = "block" /\ mem[r].lit = Awaited(f.dest).of
  BY <1>1, <1>2, <1>3, <1>4 DEF CopyHelperInv, IsBlock
<1>6. /\ n \in Nat /\ DOMAIN mem[a].fields = 1 .. n /\ DOMAIN mem[r].fields = 1 .. n
  <2>1. PICK l \in Literal, fs \in Seq(Pointer) : mem[a] = Block("stack", "stack", 0, l, fs)
    BY <1>3, <1>5, StackBlockCell
  <2>2. mem[a].fields \in Seq(Pointer)
    BY <2>1 DEF Block
  <2>3. mem[r].fields \in Seq(Pointer)
    BY <1>3, <1>5 DEF CoreInv, HeapInv, HeapBlock, HeapByref, FreeCell, IsBlock
  <2> QED BY <1>4, <1>5, <2>2, <2>3
<1>7. i \in 1 .. n /\ i \in Nat
  BY <1>2, <1>4, <1>5, <1>6
<1>8. PICK g : g = [f EXCEPT !.i = @ + 1]
  BY Zenon
<1>9. g \in Frame /\ g.fn = "copyHelper" /\ g.arg = a /\ g.result = r /\ g.i = i + 1 /\ g.dest = f.dest
  <2>1. f \in [fn : {"copyHelper"}, result : Heap, arg : Addr, i : Nat, dest : Dest]
    BY <1>2, <1>3 DEF Frame
  <2>2. g \in [fn : {"copyHelper"}, result : Heap, arg : Addr, i : Nat, dest : Dest]
    BY <1>1, <1>7, <1>8, <2>1
  <2> QED BY <1>1, <1>2, <1>8, <2>1, <2>2 DEF Frame
<1>10. PICK v, kind, x0 : v = mem[a].fields[i] /\ kind = AssignKind(FlagsOf(mem[a], i)) /\ x0 = <<r, i>>
  BY Zenon
<1>11. /\ kind \notin {"block", "byref"}
       /\ retains' = IF kind = "object" THEN [retains EXCEPT ![v] = @ + 1] ELSE retains
       /\ Continue(t, <<g>>) /\ UNCHANGED <<mem, var, busy, scope, written>>
  BY Zenon, <1>1, <1>8, <1>10 DEF AssignInPlace
<1>12. /\ StepKept(t) /\ Changed(t) = {P}
       /\ LiveFrames' = LiveFrames /\ FrameAt(P)' = g
       /\ \A p \in LiveFrames : p # P => FrameAt(p)' = FrameAt(p)
       /\ P = Top(t)'
       /\ StackInv' /\ ProgramInv'
  <2>1. retains' = [o \in Object |-> retains'[o]]
    BY <1>3, <1>11 DEF CoreInv, ProgramInv
  <2>2. PICK c : c = NULL
    OBVIOUS
  <2>3. mem' = [b \in Addr |-> mem'[b]] /\ (\A b \in Addr : b # c => mem'[b] = mem[b])
        /\ c \in Heap \cup {NULL} /\ c \notin Heap
    BY <1>3, <1>11, <2>2, Apart DEF CoreInv, StackInv
  <2>4. CoreInv /\ ~Idle(t) /\ P = Top(t) /\ f = FrameAt(P) /\ g \in Frame /\ Continue(t, <<g>>)
        /\ UNCHANGED <<var, busy, scope, written>>
    BY <1>1, <1>2, <1>3, <1>9, <1>11
  <2> QED BY <2>1, <2>3, <2>4, GoesOn
<1>13. FrameInv(P)'
  <2>1. DestInv(P)'
    BY Zenon, <1>1, <1>2, <1>3, <1>5, <1>9, <1>11, <1>12, DestGoesOn
  <2>2. StackBlock(t, a)' /\ IsBlock(r)'
    BY <1>5, <1>11 DEF StackBlock, IsBlock
  <2>3. \A j \in g.i .. n : mem[r].fields[j] = mem[a].fields[j]
    BY <1>5, <1>6, <1>7, <1>9
  <2>4. g.i \in 1 .. n + 1
    BY <1>6, <1>7, <1>9
  <2>5. Awaited(f.dest)' = Awaited(f.dest)
    BY <1>11 DEF Awaited
  <2>6. CopyHelperInv(P)'
    BY ZenonT(30), <1>3, <1>4, <1>5, <1>9, <1>11, <1>12, <2>1, <2>2, <2>3, <2>4, <2>5 DEF CopyHelperInv
  <2> QED BY <1>9, <1>12, <2>6 DEF FrameInv, CopyInv, ByrefCopyInv, ReleaseInv
<1>14. CallsInv' /\ HeapInv'
  <2>1. \A b \in Heap : (Builds(f, b) <=> Builds(g, b)) /\ ~Disposes(f, b) /\ ~Disposes(g, b)
    BY <1>1, <1>2, <1>9 DEF Builds, Disposes
  <2>2. NULL \notin Heap /\ \A b \in Heap : mem'[b] = mem[b]
    BY <1>11, Apart
  <2>3. f = FrameAt(P) /\ P = Top(t) /\ ~Idle(t) /\ CoreInv
    BY <1>1, <1>2, <1>3
  <2>4. CallsInv'
    BY <1>12, <1>13, <2>1, <2>2, <2>3, GoesOnCalls
  <2> QED BY <1>3, <1>11, <2>4 DEF CoreInv, HeapInv
<1>15. FieldOk(x0) /\ KindOf(x0) = kind /\ Field(x0) = v /\ (kind = "object" => v \in Object \cup {NULL})
  <2>1. /\ kind = "object" => v \in Object \cup {NULL}
        /\ v \notin Stack
    BY <1>5, <1>6, <1>7, <1>10, <1>11, StackField
  <2>2. Field(x0) = v /\ KindOf(x0) = kind
    BY <1>5, <1>7, <1>10 DEF Field, KindOf, FlagsOf
  <2> QED BY <1>11, <2>1, <2>2 DEF FieldOk
<1>16. x0 \notin HelpedFields /\ HelpedFields' = HelpedFields \cup {x0}
  <2>1. IsField(x0) /\ \A x : IsField(x)' <=> IsField(x)
    BY <1>5, <1>6, <1>7, <1>10, <1>11 DEF IsField, IsBlock
  <2>2. ASSUME NEW p \in LiveFrames PROVE Withholds(FrameAt(p), x0) <=> p = P
    BY <1>1, <1>2, <1>3, <1>7, <1>10, <2>1, TopDraft
  <2>3. ~Withholds(g, x0)
    <3>1. g.dest # ToField(r, i)
      BY <1>1, <1>2, <1>3, <1>9, DestElsewhere
    <3> QED BY <1>7, <1>9, <1>10, <3>1 DEF Withholds
  <2>4. x0 \in HelpedFields'
    <3>1. \A p \in LiveFrames' : ~Withholds(FrameAt(p), x0)'
      BY <1>12, <2>2, <2>3 DEF Withholds, ToField
    <3>2. IsField(x0)'
      BY <2>1
    <3> QED BY <3>1, <3>2 DEF HelpedFields, IsField, IsBlock
  <2>5. ASSUME NEW x, x # x0 PROVE x \in HelpedFields' <=> x \in HelpedFields
    <3>1. IsField(x) => (Withholds(g, x) <=> Withholds(FrameAt(P), x))
      <4>1. ASSUME IsField(x), x[1] = r PROVE x[2] # i /\ x[2] \in Nat
        BY <1>6, <1>10, <2>5, <4>1 DEF IsField
      <4> QED BY <1>1, <1>2, <1>3, <1>7, <1>9, <4>1 DEF Withholds
    <3> QED BY <1>3, <1>12, <2>1, <3>1, GoesOnHelped
  <2>6. x0 \notin HelpedFields
    BY <1>3, <2>2, HelpedShape
  <2> QED BY <2>4, <2>5, <2>6
<1>17. /\ FieldsInv'
       /\ \A b : FieldOwners(b)' = FieldOwners(b)
       /\ \A o, x : x \in ObjectFields(o)' <=> x \in ObjectFields(o) \/ (x = x0 /\ v = o /\ kind = "object")
  <2>1. PICK L, G : L = {} /\ G = {x0}
    BY Zenon
  <2>2. HelpedFields' = (HelpedFields \ L) \cup G /\ G \cap HelpedFields = {}
    BY <1>16, <2>1
  <2>3. \A x \in HelpedFields \ L : FieldKept(x)
    BY <1>11 DEF FieldKept
  <2>4. \A x \in G : FieldOk(x)'
    BY <1>11, <1>15, <2>1 DEF FieldOk, Field, KindOf, FlagsOf, IsBlock, IsByref
  <2>5. /\ FieldsInv'
        /\ \A b, x : x \in FieldOwners(b)' <=>
             \/ x \in FieldOwners(b) /\ x \notin L
             \/ x \in G /\ Field(x)' = b /\ KindOf(x)' \in {"block", "byref"}
        /\ \A o, x : x \in ObjectFields(o)' <=>
             \/ x \in ObjectFields(o) /\ x \notin L
             \/ x \in G /\ Field(x)' = o /\ KindOf(x)' = "object"
    BY Zenon, <1>3, <1>12, <2>2, <2>3, <2>4, FieldsStep
  <2>6. Field(x0)' = v /\ KindOf(x0)' = kind
    BY <1>11, <1>15 DEF Field, KindOf, FlagsOf
  <2>7. \A b, x : x \in FieldOwners(b)' <=> x \in FieldOwners(b)
    BY <1>11, <2>1, <2>5, <2>6
  <2>8. ASSUME NEW b PROVE FieldOwners(b)' = FieldOwners(b)
    <3>1. PICK S, T : S = FieldOwners(b) /\ T = FieldOwners(b)'
      OBVIOUS
    <3>2. \A x : x \in T <=> x \in S
      BY <2>7, <3>1
    <3>3. S \subseteq HelpedFields /\ T \subseteq HelpedFields'
      BY <3>1 DEF FieldOwners
    <3> QED BY <3>1, <3>2, <3>3
  <2>9. \A o, x : x \in ObjectFields(o)' <=> x \in ObjectFields(o) \/ (x = x0 /\ v = o /\ kind = "object")
    BY <2>1, <2>5, <2>6
  <2> QED BY <2>5, <2>8, <2>9
<1>18. RetainsInv'
  <2>1. ASSUME NEW o \in Object
        PROVE  \E k : Grows(ObjectFields(o), ObjectFields(o)', k) /\ retains'[o] = retains[o] + k
    <3>1. retains = [b \in Object |-> retains[b]] /\ retains[o] \in Int
      <4>1. retains[o] = Cardinality(ObjectFields(o)) /\ IsFiniteSet(ObjectFields(o))
        BY <1>3, FieldsFinite, FS_Subset DEF RetainsInv, ObjectFields, CoreInv
      <4> QED BY <1>3, <4>1, FS_CardinalityType DEF CoreInv, ProgramInv
    <3>2. CASE kind = "object" /\ v = o
      <4>1. retains'[o] = retains[o] + 1
        BY <1>11, <3>1, <3>2
      <4>2. x0 \notin ObjectFields(o) /\ ObjectFields(o)' = ObjectFields(o) \cup {x0}
        BY <1>16, <1>17, <3>2 DEF ObjectFields
      <4>3. Grows(ObjectFields(o), ObjectFields(o)', 1)
        BY <4>2 DEF Grows
      <4> QED BY <4>1, <4>3
    <3>3. CASE ~(kind = "object" /\ v = o)
      <4>1. retains'[o] = retains[o] + 0
        BY <1>11, <3>1, <3>3
      <4>2. ObjectFields(o)' = ObjectFields(o)
        BY <1>17, <3>3
      <4>3. Grows(ObjectFields(o), ObjectFields(o)', 0)
        BY <4>2 DEF Grows
      <4> QED BY <4>1, <4>3
    <3> QED BY <3>2, <3>3
  <2> QED BY <1>3, <2>1, RetainsStep DEF CoreInv
<1>19. ASSUME NEW b \in Heap PROVE Settles(b)
  <2>1. (FrameOwns(FrameAt(P), b) <=> b = r) /\ (FrameOwns(FrameAt(P), b)' <=> b = r)
    BY <1>1, <1>2, <1>3, <1>9, <1>12 DEF FrameOwns
  <2>2. Held(b) \in Nat /\ Held(b)' = Held(b)
    BY <1>3, <1>11 DEF Held, CoreInv, HeapInv, HeapBlock, HeapByref, FreeCell
  <2>3. PICK k : k = 0
    OBVIOUS
  <2>4. k \in {-1, 0, 1} /\ Held(b)' = Held(b) + k
    BY <2>2, <2>3
  <2>5. /\ k = 0 => (FrameOwns(FrameAt(P), b) <=> FrameOwns(FrameAt(P), b)')
        /\ k = 1 => ~FrameOwns(FrameAt(P), b) /\ FrameOwns(FrameAt(P), b)'
        /\ k = -1 => FrameOwns(FrameAt(P), b) /\ ~FrameOwns(FrameAt(P), b)'
    BY <2>1, <2>3
  <2>6. f.fn # "byrefCopy" /\ g.fn # "byrefCopy" /\ \A y \in Byref : mem'[y] = mem[y]
    BY <1>2, <1>9, <1>11
  <2> QED BY Zenon, <1>1, <1>2, <1>3, <1>12, <2>4, <2>5, <2>6, CallSettles
<1>20. OwnersInv'
  <2>1. \A b \in Heap : VarOwners(b)' = VarOwners(b)
    BY <1>11 DEF VarOwners
  <2> QED BY <1>3, <1>17, <1>19, <2>1, CallsSettle
<1>21. NothingMoves(t)
  <2>1. ~Moves(f) /\ ~Moves(g)
    BY <1>2, <1>9 DEF Moves
  <2> QED BY <1>1, <1>3, <1>11, <1>12, <2>1, Still
<1> QED BY <1>12, <1>14, <1>17, <1>18, <1>20, <1>21 DEF IInv, CoreInv

LEMMA DisposeInPlaceStep ==
  ASSUME IInv, NEW t \in Thread, DisposeInPlace(t)
  PROVE  IInv' /\ StepKept(t) /\ NothingMoves(t)
<1>1. PICK f, P, r, i : f = Head(stack[t]) /\ P = Top(t) /\ r = f.arg /\ i = f.i
  OBVIOUS
<1>2. f.fn = "disposeHelper" /\ ~Idle(t) /\ i <= Len(mem[r].fields)
  BY Zenon, <1>1 DEF DisposeInPlace, In, Idle
<1>3. /\ FrameAt(P) = f /\ P[1] = t /\ f \in Frame /\ P \in LiveFrames /\ CoreInv /\ ReleaseInv(P)
      /\ FieldsInv /\ RetainsInv
  BY <1>1, <1>2, Running DEF IInv, FrameInv
<1>4. PICK n : n = Len(mem[r].fields)
  BY Zenon
<1>5. r \in Heap /\ IsBlock(r) /\ mem[r].dying /\ i \in 1 .. n + 1
  BY <1>1, <1>2, <1>3, <1>4 DEF ReleaseInv, IsBlock
<1>6. n \in Nat /\ DOMAIN mem[r].fields = 1 .. n
  <2>1. mem[r].fields \in Seq(Pointer)
    BY <1>3, <1>5 DEF CoreInv, HeapInv, HeapBlock, HeapByref, FreeCell, IsBlock
  <2> QED BY <1>4, <2>1
<1>7. i \in 1 .. n /\ i \in Nat
  BY <1>2, <1>4, <1>5, <1>6
<1>8. PICK g : g = [f EXCEPT !.i = @ + 1]
  BY Zenon
<1>9. g \in Frame /\ g.fn = "disposeHelper" /\ g.arg = r /\ g.i = i + 1
  <2>1. f \in [fn : {"disposeHelper"}, arg : Heap, i : Nat]
    BY <1>2, <1>3 DEF Frame
  <2>2. g \in [fn : {"disposeHelper"}, arg : Heap, i : Nat]
    BY <1>1, <1>7, <1>8, <2>1
  <2> QED BY <1>1, <1>2, <1>8, <2>1, <2>2 DEF Frame
<1>10. PICK v, kind, x0 : v = mem[r].fields[i] /\ kind = AssignKind(FlagsOf(mem[r], i)) /\ x0 = <<r, i>>
  BY Zenon
<1>11. /\ kind \notin {"block", "byref"}
       /\ retains' = IF kind = "object" THEN [retains EXCEPT ![v] = @ - 1] ELSE retains
       /\ Continue(t, <<g>>) /\ UNCHANGED <<mem, var, busy, scope, written>>
  <2>1. PICK k : k = DisposeKind(FlagsOf(mem[r], i))
    OBVIOUS
  <2>2. /\ k \notin {"block", "byref"}
        /\ retains' = IF k = "object" THEN [retains EXCEPT ![v] = @ - 1] ELSE retains
        /\ Continue(t, <<g>>) /\ UNCHANGED <<mem, var, busy, scope, written>>
    BY Zenon, <1>1, <1>8, <1>10, <2>1 DEF DisposeInPlace
  <2>3. k = IF kind \in {"object", "block", "byref"} THEN kind ELSE "nothing"
    BY <1>10, <2>1, KindsAgree
  <2>4. kind \notin {"block", "byref"} /\ (k = "object" <=> kind = "object")
    BY <2>2, <2>3
  <2> QED BY <2>2, <2>4
<1>12. /\ StepKept(t) /\ Changed(t) = {P}
       /\ LiveFrames' = LiveFrames /\ FrameAt(P)' = g
       /\ \A p \in LiveFrames : p # P => FrameAt(p)' = FrameAt(p)
       /\ P = Top(t)'
       /\ StackInv' /\ ProgramInv'
  <2>1. retains' = [o \in Object |-> retains'[o]]
    BY <1>3, <1>11 DEF CoreInv, ProgramInv
  <2>2. PICK c : c = NULL
    OBVIOUS
  <2>3. mem' = [b \in Addr |-> mem'[b]] /\ (\A b \in Addr : b # c => mem'[b] = mem[b])
        /\ c \in Heap \cup {NULL} /\ c \notin Heap
    BY <1>3, <1>11, <2>2, Apart DEF CoreInv, StackInv
  <2>4. CoreInv /\ ~Idle(t) /\ P = Top(t) /\ f = FrameAt(P) /\ g \in Frame /\ Continue(t, <<g>>)
        /\ UNCHANGED <<var, busy, scope, written>>
    BY <1>1, <1>2, <1>3, <1>9, <1>11
  <2> QED BY <2>1, <2>3, <2>4, GoesOn
<1>13. FrameInv(P)'
  <2>1. g.i \in 1 .. n + 1
    BY <1>6, <1>7, <1>9
  <2>2. ReleaseInv(P)'
    BY <1>4, <1>5, <1>9, <1>11, <1>12, <2>1 DEF ReleaseInv, IsBlock
  <2> QED BY <1>9, <1>12, <2>2 DEF FrameInv, CopyInv, ByrefCopyInv, CopyHelperInv
<1>14. CallsInv' /\ HeapInv'
  <2>1. \A b \in Heap : ~Builds(f, b) /\ (Disposes(f, b) <=> Disposes(g, b))
    BY <1>1, <1>2, <1>9 DEF Builds, Disposes
  <2>2. NULL \notin Heap /\ \A b \in Heap : mem'[b] = mem[b]
    BY <1>11, Apart
  <2>3. f = FrameAt(P) /\ P = Top(t) /\ ~Idle(t) /\ CoreInv
    BY <1>1, <1>2, <1>3
  <2>4. CallsInv'
    BY <1>12, <1>13, <2>1, <2>2, <2>3, GoesOnCalls
  <2> QED BY <1>3, <1>11, <2>4 DEF CoreInv, HeapInv
<1>15. x0 \in HelpedFields /\ HelpedFields' = HelpedFields \ {x0}
  <2>1. IsField(x0) /\ \A x : IsField(x)' <=> IsField(x)
    BY <1>5, <1>6, <1>7, <1>10, <1>11 DEF IsField, IsBlock
  <2>2. \A p \in LiveFrames : ~Withholds(FrameAt(p), x0)
    BY <1>1, <1>2, <1>3, <1>7, <1>10, <2>1, TopDisposal
  <2>3. x0 \in HelpedFields
    BY <2>1, <2>2, HelpedShape
  <2>4. Withholds(g, x0)
    BY <1>7, <1>9, <1>10 DEF Withholds
  <2>5. x0 \notin HelpedFields'
    <3>1. Withholds(FrameAt(P), x0)' /\ P \in LiveFrames'
      BY <1>3, <1>12, <2>4 DEF Withholds, ToField
    <3> QED BY <3>1 DEF HelpedFields
  <2>6. ASSUME NEW x, x # x0 PROVE x \in HelpedFields' <=> x \in HelpedFields
    <3>1. IsField(x) => (Withholds(g, x) <=> Withholds(FrameAt(P), x))
      <4>1. ASSUME IsField(x), x[1] = r PROVE x[2] # i /\ x[2] \in Nat
        BY <1>6, <1>10, <2>6, <4>1 DEF IsField
      <4> QED BY <1>1, <1>2, <1>3, <1>7, <1>9, <4>1 DEF Withholds
    <3> QED BY <1>3, <1>12, <2>1, <3>1, GoesOnHelped
  <2> QED BY <2>3, <2>5, <2>6
<1>16. KindOf(x0) = kind /\ Field(x0) = v
  BY <1>10 DEF Field, KindOf
<1>17. /\ FieldsInv'
       /\ \A b : FieldOwners(b)' = FieldOwners(b)
       /\ \A o, x : x \in ObjectFields(o)' <=> x \in ObjectFields(o) /\ x # x0
  <2>1. PICK L, G : L = {x0} /\ G = {}
    BY Zenon
  <2>2. HelpedFields' = (HelpedFields \ L) \cup G /\ G \cap HelpedFields = {}
    BY <1>15, <2>1
  <2>3. \A x \in HelpedFields \ L : FieldKept(x)
    BY <1>11 DEF FieldKept
  <2>4. \A x \in G : FieldOk(x)'
    BY <2>1
  <2>5. /\ FieldsInv'
        /\ \A b, x : x \in FieldOwners(b)' <=>
             \/ x \in FieldOwners(b) /\ x \notin L
             \/ x \in G /\ Field(x)' = b /\ KindOf(x)' \in {"block", "byref"}
        /\ \A o, x : x \in ObjectFields(o)' <=>
             \/ x \in ObjectFields(o) /\ x \notin L
             \/ x \in G /\ Field(x)' = o /\ KindOf(x)' = "object"
    BY Zenon, <1>3, <1>12, <2>2, <2>3, <2>4, FieldsStep
  <2>6. \A b : x0 \notin FieldOwners(b)
    BY <1>11, <1>16 DEF FieldOwners
  <2>7. \A b, x : x \in FieldOwners(b)' <=> x \in FieldOwners(b)
    BY <2>1, <2>5, <2>6
  <2>8. ASSUME NEW b PROVE FieldOwners(b)' = FieldOwners(b)
    <3>1. PICK S, T : S = FieldOwners(b) /\ T = FieldOwners(b)'
      OBVIOUS
    <3>2. \A x : x \in T <=> x \in S
      BY <2>7, <3>1
    <3>3. S \subseteq HelpedFields /\ T \subseteq HelpedFields'
      BY <3>1 DEF FieldOwners
    <3> QED BY <3>1, <3>2, <3>3
  <2>9. \A o, x : x \in ObjectFields(o)' <=> x \in ObjectFields(o) /\ x # x0
    BY <2>1, <2>5
  <2> QED BY <2>5, <2>8, <2>9
<1>18. RetainsInv'
  <2>1. ASSUME NEW o \in Object
        PROVE  \E k : Grows(ObjectFields(o), ObjectFields(o)', k) /\ retains'[o] = retains[o] + k
    <3>1. retains = [b \in Object |-> retains[b]] /\ retains[o] \in Int
      <4>1. retains[o] = Cardinality(ObjectFields(o)) /\ IsFiniteSet(ObjectFields(o))
        BY <1>3, FieldsFinite, FS_Subset DEF RetainsInv, ObjectFields, CoreInv
      <4> QED BY <1>3, <4>1, FS_CardinalityType DEF CoreInv, ProgramInv
    <3>2. CASE kind = "object" /\ v = o
      <4>1. retains'[o] = retains[o] + (-1)
        BY <1>11, <3>1, <3>2
      <4>2. x0 \in ObjectFields(o) /\ ObjectFields(o)' = ObjectFields(o) \ {x0}
        BY <1>15, <1>16, <1>17, <3>2 DEF ObjectFields
      <4>3. Grows(ObjectFields(o), ObjectFields(o)', -1)
        BY <4>2 DEF Grows
      <4> QED BY <4>1, <4>3
    <3>3. CASE ~(kind = "object" /\ v = o)
      <4>1. retains'[o] = retains[o] + 0
        BY <1>11, <3>1, <3>3
      <4>2. x0 \notin ObjectFields(o)
        BY <1>16, <3>3 DEF ObjectFields
      <4>3. ObjectFields(o)' = ObjectFields(o)
        BY <1>17, <4>2
      <4>4. Grows(ObjectFields(o), ObjectFields(o)', 0)
        BY <4>3 DEF Grows
      <4> QED BY <4>1, <4>4
    <3> QED BY <3>2, <3>3
  <2> QED BY <1>3, <2>1, RetainsStep DEF CoreInv
<1>19. ASSUME NEW b \in Heap PROVE Settles(b)
  <2>1. ~FrameOwns(FrameAt(P), b) /\ ~FrameOwns(FrameAt(P), b)'
    BY <1>1, <1>2, <1>3, <1>9, <1>12 DEF FrameOwns
  <2>2. Held(b) \in Nat /\ Held(b)' = Held(b)
    BY <1>3, <1>11 DEF Held, CoreInv, HeapInv, HeapBlock, HeapByref, FreeCell
  <2>3. PICK k : k = 0
    OBVIOUS
  <2>4. k \in {-1, 0, 1} /\ Held(b)' = Held(b) + k
    BY <2>2, <2>3
  <2>5. /\ k = 0 => (FrameOwns(FrameAt(P), b) <=> FrameOwns(FrameAt(P), b)')
        /\ k = 1 => ~FrameOwns(FrameAt(P), b) /\ FrameOwns(FrameAt(P), b)'
        /\ k = -1 => FrameOwns(FrameAt(P), b) /\ ~FrameOwns(FrameAt(P), b)'
    BY <2>1, <2>3
  <2>6. f.fn # "byrefCopy" /\ g.fn # "byrefCopy" /\ \A y \in Byref : mem'[y] = mem[y]
    BY <1>2, <1>9, <1>11
  <2> QED BY Zenon, <1>1, <1>2, <1>3, <1>12, <2>4, <2>5, <2>6, CallSettles
<1>20. OwnersInv'
  <2>1. \A b \in Heap : VarOwners(b)' = VarOwners(b)
    BY <1>11 DEF VarOwners
  <2> QED BY <1>3, <1>17, <1>19, <2>1, CallsSettle
<1>21. NothingMoves(t)
  <2>1. ~Moves(f) /\ ~Moves(g)
    BY <1>2, <1>9 DEF Moves
  <2> QED BY <1>1, <1>3, <1>11, <1>12, <2>1, Still
<1> QED BY <1>12, <1>14, <1>17, <1>18, <1>20, <1>21 DEF IInv, CoreInv

LEMMA CopyStackStep ==
  ASSUME IInv, NEW t \in Thread, CopyStack(t)
  PROVE  IInv' /\ StepKept(t) /\ NothingMoves(t)
<1>1. PICK f, P, a : f = Head(stack[t]) /\ P = Top(t) /\ a = f.arg
  OBVIOUS
<1>2. f.fn = "copy" /\ ~Idle(t) /\ HeapFree # {} /\ a # NULL /\ mem[a].where = "stack"
  BY <1>1 DEF CopyStack, In, Idle
<1>3. /\ FrameAt(P) = f /\ P[1] = t /\ f \in Frame /\ P \in LiveFrames /\ CoreInv /\ CopyInv(P)
      /\ FieldsInv /\ RetainsInv
  BY <1>1, <1>2, Running DEF IInv, FrameInv
<1>4. PICK c : c = Malloc
  OBVIOUS
<1>5. c \in Heap /\ mem[c].kind = "free"
  BY <1>2, <1>4, MallocFree
<1>6. StackBlock(t, a)
  BY <1>1, <1>2, <1>3, CopyArgCell DEF CopyInv
<1>7. a \in Addr /\ a # c
  BY <1>3, <1>5, <1>6, StackBlockCell, Apart DEF StackBlock
<1>8. PICK l \in Literal, fs \in Seq(Pointer) :
        mem[a] = Block("stack", "stack", 0, l, fs) /\ Len(fs) = Len(Captures[l])
  BY <1>3, <1>6, StackBlockCell
<1>9. PICK g : g = CopyHelperFrame(c, a, 1, f.dest)
  OBVIOUS
<1>10. g \in Frame /\ g.fn = "copyHelper" /\ g.arg = a /\ g.result = c /\ g.i = 1 /\ g.dest = f.dest
  <2>1. f.dest \in Dest
    BY <1>2, <1>3, FrameShape
  <2> QED BY <1>5, <1>7, <1>9, <2>1 DEF Frame, CopyHelperFrame
<1>11. Continue(t, <<g>>) /\ UNCHANGED <<var, busy, scope, retains, written>>
  BY <1>1, <1>4, <1>9 DEF CopyStack
<1>12. /\ mem' = [b \in Addr |-> mem'[b]]
       /\ \A b \in Addr : b # c => mem'[b] = mem[b]
       /\ mem'[c] = Block("heap", "stack", 1, l, fs)
  <2>1. mem' = [mem EXCEPT ![c] = [mem[a] EXCEPT !.where = "heap", !.count = 1]]
    BY <1>1, <1>4 DEF CopyStack
  <2>2. [mem[a] EXCEPT !.where = "heap", !.count = 1] = Block("heap", "stack", 1, l, fs)
    <3>1. PICK m : m = Block("stack", "stack", 0, l, fs)
      OBVIOUS
    <3>2. m.kind = "block" /\ m.isa = "stack" /\ m.dying = FALSE /\ m.lit = l /\ m.fields = fs
      BY <3>1 DEF Block
    <3>4. m = [kind |-> m.kind, where |-> m.where, isa |-> m.isa, count |-> m.count,
               dying |-> m.dying, lit |-> m.lit, fields |-> m.fields]
      BY <3>1 DEF Block
    <3>5. PICK k : k = [m EXCEPT !.where = "heap", !.count = 1]
      OBVIOUS
    <3>3. k = [kind |-> m.kind, where |-> "heap", isa |-> m.isa, count |-> 1, dying |-> m.dying,
               lit |-> m.lit, fields |-> m.fields]
      BY Zenon, <3>4, <3>5
    <3> QED BY Zenon, <1>8, <3>1, <3>2, <3>3, <3>5 DEF Block
  <2>3. c \in Addr /\ mem = [b \in Addr |-> mem[b]]
    BY <1>3, <1>5 DEF Addr, CoreInv, StackInv
  <2> QED BY Zenon, <2>1, <2>2, <2>3
<1>13. /\ mem'[c] \in HeapBlock /\ mem'[c].lit = l /\ mem'[c].fields = fs /\ mem'[c].kind = "block"
       /\ mem'[c].isa = "stack" /\ mem'[c].count = 1 /\ mem'[c].dying = FALSE
  BY <1>8, <1>12 DEF Block, HeapBlock
<1>14. /\ StepKept(t) /\ Changed(t) = {P}
       /\ LiveFrames' = LiveFrames /\ FrameAt(P)' = g
       /\ \A p \in LiveFrames : p # P => FrameAt(p)' = FrameAt(p)
       /\ \A b \in Heap : b # c => mem'[b] = mem[b]
       /\ \A y \in Byref \cup {GlobalBlock} : mem'[y] = mem[y]
       /\ P = Top(t)'
       /\ StackInv' /\ ProgramInv'
  <2>1. retains' = [o \in Object |-> retains'[o]]
    BY <1>3, <1>11 DEF CoreInv, ProgramInv
  <2> QED BY <1>1, <1>2, <1>3, <1>5, <1>10, <1>11, <1>12, <2>1, GoesOn
<1>15. HeapInv'
  <2>1. /\ mem'[c].kind = "block" => Len(mem'[c].fields) = Len(Captures[mem'[c].lit])
        /\ mem'[c].kind # "byref"
        /\ mem'[c].dying <=> mem'[c].count = 0
    BY <1>8, <1>13
  <2> QED BY <1>3, <1>5, <1>13, <1>14, <2>1, HeapStep DEF CoreInv
<1>16. FrameInv(P)'
  <2>1. DestInv(P)'
    BY Zenon, <1>1, <1>2, <1>3, <1>10, <1>11, <1>14, DestGoesOn DEF CopyInv
  <2>2. mem'[a] = mem[a]
    BY <1>7, <1>12
  <2>3. StackBlock(t, a)' /\ IsBlock(c)'
    BY <1>5, <1>6, <1>11, <1>13, <2>2 DEF StackBlock, IsBlock
  <2>4. /\ mem'[a].lit = l /\ mem'[a].fields = fs /\ mem[a].lit = l
        /\ Len(fs) \in Nat /\ g.i \in 1 .. Len(fs) + 1
    BY <1>8, <1>10, <2>2 DEF Block
  <2>5. ~IsVar(f.dest) =>
          /\ AssignKind(Awaited(f.dest).flags) = "block"
          /\ l = Awaited(f.dest).of
          /\ Awaited(f.dest)' = Awaited(f.dest)
    <3>1. SUFFICES ASSUME ~IsVar(f.dest) PROVE
          /\ AssignKind(Awaited(f.dest).flags) = "block"
          /\ l = Awaited(f.dest).of
          /\ Awaited(f.dest)' = Awaited(f.dest)
      OBVIOUS
    <3>2. a \notin {NULL, GlobalBlock}
      BY <1>6, Apart DEF StackBlock
    <3>3. AssignKind(Awaited(f.dest).flags) = "block" /\ l = Awaited(f.dest).of
      BY <1>1, <1>2, <1>3, <2>4, <3>1, <3>2 DEF CopyInv
    <3>4. PICK q : q = <<P[1], P[2] - 1>>
      BY Zenon
    <3>5. q \in LiveFrames /\ Builds(FrameAt(q), f.dest.block)
      BY <1>2, <1>3, <3>1, <3>4, DestCaller DEF CoreInv, Builds
    <3>6. f.dest.block \in Heap /\ f.dest.block # c
      BY <1>3, <1>5, <3>5, Draft DEF CoreInv, IsBlock
    <3> QED BY <1>14, <3>3, <3>6 DEF Awaited
  <2>6. CopyHelperInv(P)'
    BY <1>3, <1>10, <1>13, <1>14, <2>1, <2>3, <2>4, <2>5 DEF CopyHelperInv
  <2> QED BY <1>10, <1>14, <2>6 DEF FrameInv, CopyInv, ByrefCopyInv, ReleaseInv
<1>17. CallsInv'
  <2>1. \A b \in Heap : ~Builds(f, b) /\ ~Disposes(f, b) /\ ~Disposes(g, b)
    BY <1>2, <1>10 DEF Builds, Disposes
  <2>2. Builds(g, c) /\ ~mem'[c].dying
    BY <1>10, <1>13 DEF Builds
  <2>3. f = FrameAt(P) /\ P = Top(t) /\ ~Idle(t) /\ CoreInv
    BY <1>1, <1>2, <1>3
  <2> QED BY <1>14, <1>16, <2>1, <2>2, <2>3, GoesOnCalls
<1>18. HelpedFields' = HelpedFields /\ \A x \in HelpedFields : FieldKept(x)
  <2>1. ASSUME NEW x, x[1] = c PROVE x \notin HelpedFields /\ x \notin HelpedFields'
    <3>1. x \notin HelpedFields
      BY <1>5, <2>1, HelpedShape DEF IsField, IsBlock
    <3>2. ASSUME x \in HelpedFields' PROVE FALSE
      <4>1. x[2] \in DOMAIN fs
        BY <1>13, <2>1, <3>2 DEF HelpedFields
      <4>2. x[2] >= 1
        BY <4>1
      <4>3. Withholds(FrameAt(P), x)' /\ P \in LiveFrames'
        BY <1>3, <1>10, <1>14, <2>1, <4>2 DEF Withholds, ToField
      <4> QED BY <3>2, <4>3 DEF HelpedFields
    <3> QED BY <3>1, <3>2
  <2>2. ASSUME NEW x, x[1] # c PROVE x \in HelpedFields' <=> x \in HelpedFields
    <3>1. IsField(x)' <=> IsField(x)
      BY <1>14, <2>2 DEF IsField, IsBlock
    <3>2. Withholds(g, x) <=> Withholds(FrameAt(P), x)
      BY <1>2, <1>3, <1>10, <2>2 DEF Withholds
    <3> QED BY <1>3, <1>14, <3>1, <3>2, GoesOnHelped
  <2>3. \A x : x \in HelpedFields' <=> x \in HelpedFields
    BY <2>1, <2>2
  <2>4. ASSUME NEW x \in HelpedFields PROVE FieldKept(x)
    <3>1. x[1] # c /\ x[1] \in Heap
      BY <2>1, HelpedShape DEF IsField, IsBlock
    <3> QED BY <1>14, <3>1 DEF FieldKept
  <2> QED BY Zenon, <2>3, <2>4
<1>19. FieldsInv' /\ (\A b : FieldOwners(b)' = FieldOwners(b)) /\ RetainsInv'
  <2>1. /\ FieldsInv'
        /\ \A b : FieldOwners(b)' = FieldOwners(b)
        /\ \A o : ObjectFields(o)' = ObjectFields(o)
    BY <1>3, <1>14, <1>18, FieldsSame
  <2>2. RetainsInv'
    BY <1>3, <1>11, <2>1, RetainsSame
  <2> QED BY <2>1, <2>2
<1>20. ASSUME NEW b \in Heap PROVE Settles(b)
  <2>1. ~FrameOwns(FrameAt(P), b) /\ (FrameOwns(FrameAt(P), b)' <=> b = c)
    BY <1>2, <1>3, <1>10, <1>14 DEF FrameOwns
  <2>2. Held(b) \in Nat /\ Held(b)' = Held(b) + (IF b = c THEN 1 ELSE 0)
    <3>1. Held(b) \in Nat
      BY <1>3 DEF Held, CoreInv, HeapInv, HeapBlock, HeapByref, FreeCell
    <3> QED BY <1>5, <1>13, <1>14, <3>1 DEF Held
  <2>3. PICK k : k = IF b = c THEN 1 ELSE 0
    OBVIOUS
  <2>4. k \in {-1, 0, 1} /\ Held(b)' = Held(b) + k
    BY <2>2, <2>3
  <2>5. /\ k = 0 => (FrameOwns(FrameAt(P), b) <=> FrameOwns(FrameAt(P), b)')
        /\ k = 1 => ~FrameOwns(FrameAt(P), b) /\ FrameOwns(FrameAt(P), b)'
        /\ k = -1 => FrameOwns(FrameAt(P), b) /\ ~FrameOwns(FrameAt(P), b)'
    BY <2>1, <2>3
  <2>6. f.fn # "byrefCopy" /\ g.fn # "byrefCopy" /\ \A y \in Byref : mem'[y] = mem[y]
    BY <1>2, <1>10, <1>14
  <2> QED BY Zenon, <1>1, <1>2, <1>3, <1>14, <2>4, <2>5, <2>6, CallSettles
<1>21. OwnersInv'
  <2>1. \A b \in Heap : VarOwners(b)' = VarOwners(b)
    BY <1>11 DEF VarOwners
  <2> QED BY <1>3, <1>19, <1>20, <2>1, CallsSettle
<1>22. NothingMoves(t)
  <2>1. ~Moves(f) /\ ~Moves(g)
    BY <1>2, <1>10 DEF Moves
  <2>2. mem'[c].kind # "byref"
    BY <1>13
  <2> QED BY <1>1, <1>3, <1>11, <1>14, <2>1, <2>2, Still
<1> QED BY <1>14, <1>15, <1>17, <1>19, <1>21, <1>22 DEF IInv, CoreInv

LEMMA ReleaseLastStep ==
  ASSUME IInv, NEW t \in Thread, ReleaseLast(t)
  PROVE  IInv' /\ StepKept(t) /\ NothingMoves(t)
<1>1. PICK f, P, c : f = Head(stack[t]) /\ P = Top(t) /\ c = f.arg
  OBVIOUS
<1>2. /\ f.fn = "release" /\ ~Idle(t) /\ c # NULL /\ mem[c].where = "heap"
      /\ mem[c].count = 1 /\ ~mem[c].dying
  BY <1>1 DEF ReleaseLast, In, Idle
<1>3. /\ FrameAt(P) = f /\ P[1] = t /\ f \in Frame /\ P \in LiveFrames /\ CoreInv /\ ReleaseInv(P)
      /\ FieldsInv /\ RetainsInv
  BY <1>1, <1>2, Running DEF IInv, FrameInv
<1>4. IsBlock(c) /\ c \in Heap
  BY <1>1, <1>2, <1>3, HeapCellWhere DEF ReleaseInv, IsBlock
<1>5. Whole(c)
  <2>1. FrameOwns(FrameAt(P), c) /\ ~Builds(FrameAt(P), c)
    BY <1>1, <1>2, <1>3 DEF FrameOwns, Builds
  <2> QED BY <1>3, <1>4, <2>1, SharedIsWhole DEF CoreInv
<1>6. PICK g : g = DisposeHelperFrame(c, 1)
  OBVIOUS
<1>7. g \in Frame /\ g.fn = "disposeHelper" /\ g.arg = c /\ g.i = 1
  BY <1>4, <1>6 DEF Frame, DisposeHelperFrame
<1>8. Continue(t, <<g>>) /\ UNCHANGED <<var, busy, scope, retains, written>>
  BY <1>1, <1>6 DEF ReleaseLast
<1>9. /\ mem' = [a \in Addr |-> mem'[a]]
      /\ \A a \in Addr : a # c => mem'[a] = mem[a]
      /\ mem'[c] = [mem[c] EXCEPT !.count = 0, !.dying = TRUE]
  <2>1. mem' = [mem EXCEPT ![c].count = 0, ![c].dying = TRUE]
    BY <1>1 DEF ReleaseLast
  <2>2. c \in Addr /\ mem = [a \in Addr |-> mem[a]]
    BY <1>3, <1>4 DEF Addr, CoreInv, StackInv
  <2> QED BY <2>1, <2>2
<1>10. /\ mem'[c] \in HeapBlock /\ mem'[c].kind = "block" /\ mem'[c].isa = "malloc"
       /\ mem'[c].lit = mem[c].lit /\ mem'[c].fields = mem[c].fields
       /\ mem'[c].count = 0 /\ mem'[c].dying = TRUE
       /\ mem[c].fields \in Seq(Pointer) /\ Len(mem[c].fields) = Len(Captures[mem[c].lit])
  <2>1. mem[c] \in HeapBlock /\ Len(mem[c].fields) = Len(Captures[mem[c].lit]) /\ mem[c].isa = "malloc"
    BY <1>3, <1>4, <1>5 DEF CoreInv, HeapInv, HeapByref, FreeCell, IsBlock, Whole
  <2>2. PICK m : m = mem[c]
    OBVIOUS
  <2>3. /\ m = [kind |-> m.kind, where |-> m.where, isa |-> m.isa, count |-> m.count,
                dying |-> m.dying, lit |-> m.lit, fields |-> m.fields]
        /\ m.kind = "block" /\ m.where = "heap" /\ m.isa = "malloc" /\ m.lit \in Literal
        /\ m.fields \in Seq(Pointer)
    BY <2>1, <2>2 DEF HeapBlock
  <2>4. mem'[c] = [kind |-> m.kind, where |-> m.where, isa |-> m.isa, count |-> 0,
                   dying |-> TRUE, lit |-> m.lit, fields |-> m.fields]
    BY Zenon, <1>9, <2>2, <2>3
  <2> QED BY <2>1, <2>2, <2>3, <2>4 DEF HeapBlock
<1>11. CellKept(c)
  BY <1>4, <1>10 DEF CellKept, IsBlock
<1>12. /\ StepKept(t) /\ Changed(t) = {P}
       /\ LiveFrames' = LiveFrames /\ FrameAt(P)' = g
       /\ \A p \in LiveFrames : p # P => FrameAt(p)' = FrameAt(p)
       /\ \A a \in Heap : a # c => mem'[a] = mem[a]
       /\ \A y \in Byref \cup {GlobalBlock} : mem'[y] = mem[y]
       /\ P = Top(t)'
       /\ StackInv' /\ ProgramInv'
  <2>1. retains' = [o \in Object |-> retains'[o]]
    BY <1>3, <1>8 DEF CoreInv, ProgramInv
  <2>2. \A p \in LiveFrames : ~Builds(FrameAt(p), c)
    BY <1>3, <1>5, Draft DEF CoreInv, Whole
  <2> QED BY <1>1, <1>2, <1>3, <1>4, <1>7, <1>8, <1>9, <1>11, <2>1, <2>2, GoesOn
<1>13. HeapInv'
  <2>1. /\ mem'[c].kind = "block" => Len(mem'[c].fields) = Len(Captures[mem'[c].lit])
        /\ mem'[c].kind # "byref"
        /\ mem'[c].dying <=> mem'[c].count = 0
    BY <1>10
  <2> QED BY <1>3, <1>4, <1>10, <1>12, <2>1, HeapStep DEF CoreInv
<1>14. FrameInv(P)'
  <2>1. PICK n : n = Len(mem[c].fields)
    BY Zenon
  <2>2. 1 \in 1 .. n + 1
    BY <1>10, <2>1
  <2>3. ReleaseInv(P)'
    BY <1>4, <1>7, <1>10, <1>12, <2>1, <2>2 DEF ReleaseInv, IsBlock
  <2> QED BY <1>7, <1>12, <2>3 DEF FrameInv, CopyInv, ByrefCopyInv, CopyHelperInv
<1>15. CallsInv'
  <2>1. \A a \in Heap : ~Builds(f, a) /\ ~Disposes(f, a) /\ (Disposes(g, a) <=> a = c)
    BY <1>2, <1>7 DEF Builds, Disposes
  <2>2. mem'[c].isa # "stack" /\ ~mem[c].dying
    BY <1>2, <1>10
  <2>3. f = FrameAt(P) /\ P = Top(t) /\ ~Idle(t) /\ CoreInv
    BY <1>1, <1>2, <1>3
  <2> QED BY <1>12, <1>14, <2>1, <2>2, <2>3, GoesOnCalls
<1>16. HelpedFields' = HelpedFields /\ \A x \in HelpedFields : FieldKept(x)
  <2>1. ASSUME NEW x PROVE x \in HelpedFields' <=> x \in HelpedFields
    <3>1. IsField(x)' <=> IsField(x)
      BY <1>4, <1>10, <1>12 DEF IsField, IsBlock
    <3>2. IsField(x) => (Withholds(g, x) <=> Withholds(FrameAt(P), x))
      <4>1. ASSUME IsField(x), x[1] = c PROVE ~(x[2] < 1)
        <5>1. x[2] \in DOMAIN mem[c].fields
          BY <4>1 DEF IsField
        <5> QED BY <1>10, <5>1
      <4> QED BY <1>2, <1>3, <1>7, <4>1 DEF Withholds
    <3> QED BY <1>3, <1>12, <3>1, <3>2, GoesOnHelped
  <2>2. ASSUME NEW x \in HelpedFields PROVE FieldKept(x)
    <3>1. x[1] \in Heap
      BY HelpedShape DEF IsField, IsBlock
    <3> QED BY <1>10, <1>12, <3>1 DEF FieldKept
  <2> QED BY <2>1, <2>2
<1>17. FieldsInv' /\ (\A b : FieldOwners(b)' = FieldOwners(b)) /\ RetainsInv'
  <2>1. /\ FieldsInv'
        /\ \A b : FieldOwners(b)' = FieldOwners(b)
        /\ \A o : ObjectFields(o)' = ObjectFields(o)
    BY <1>3, <1>12, <1>16, FieldsSame
  <2>2. RetainsInv'
    BY <1>3, <1>8, <2>1, RetainsSame
  <2> QED BY <2>1, <2>2
<1>18. ASSUME NEW b \in Heap PROVE Settles(b)
  <2>1. (FrameOwns(FrameAt(P), b) <=> b = c) /\ ~FrameOwns(FrameAt(P), b)'
    BY <1>1, <1>2, <1>3, <1>7, <1>12 DEF FrameOwns
  <2>2. Held(b) \in Nat /\ Held(b)' = Held(b) + (IF b = c THEN -1 ELSE 0)
    <3>1. Held(b) \in Nat
      BY <1>3 DEF Held, CoreInv, HeapInv, HeapBlock, HeapByref, FreeCell
    <3> QED BY <1>2, <1>4, <1>10, <1>12, <3>1 DEF Held, IsBlock
  <2>3. PICK k : k = IF b = c THEN -1 ELSE 0
    OBVIOUS
  <2>4. k \in {-1, 0, 1} /\ Held(b)' = Held(b) + k
    BY <2>2, <2>3
  <2>5. /\ k = 0 => (FrameOwns(FrameAt(P), b) <=> FrameOwns(FrameAt(P), b)')
        /\ k = 1 => ~FrameOwns(FrameAt(P), b) /\ FrameOwns(FrameAt(P), b)'
        /\ k = -1 => FrameOwns(FrameAt(P), b) /\ ~FrameOwns(FrameAt(P), b)'
    BY <2>1, <2>3
  <2>6. f.fn # "byrefCopy" /\ g.fn # "byrefCopy" /\ \A y \in Byref : mem'[y] = mem[y]
    BY <1>2, <1>7, <1>12
  <2> QED BY Zenon, <1>1, <1>2, <1>3, <1>12, <2>4, <2>5, <2>6, CallSettles
<1>19. OwnersInv'
  <2>1. \A b \in Heap : VarOwners(b)' = VarOwners(b)
    BY <1>8 DEF VarOwners
  <2> QED BY <1>3, <1>17, <1>18, <2>1, CallsSettle
<1>20. NothingMoves(t)
  <2>1. ~Moves(f) /\ ~Moves(g)
    BY <1>2, <1>7 DEF Moves
  <2>2. mem'[c].kind # "byref"
    BY <1>10
  <2> QED BY <1>1, <1>3, <1>8, <1>12, <2>1, <2>2, Still
<1> QED BY <1>12, <1>13, <1>15, <1>17, <1>19, <1>20 DEF IInv, CoreInv

\* The call f of t goes on as h and calls g.
LEMMA Pushes ==
  ASSUME CoreInv, NEW t \in Thread, ~Idle(t), NEW P, P = Top(t), NEW g \in Frame, NEW h \in Frame,
         Continue(t, <<g, h>>), UNCHANGED <<mem, var, busy, scope, retains, written>>,
         NEW Q, Q = <<t, Len(stack[t]) + 1>>
  PROVE  /\ StepKept(t) /\ Changed(t) = {P, Q} /\ P \in LiveFrames /\ P[1] = t /\ Q[1] = t /\ P # Q
         /\ LiveFrames' = LiveFrames \cup {Q} /\ Q \notin LiveFrames
         /\ FrameAt(P)' = h /\ FrameAt(Q)' = g
         /\ \A p \in LiveFrames : p # P => FrameAt(p)' = FrameAt(p)
         /\ Q = Top(t)' /\ P = <<Q[1], Q[2] - 1>> /\ Q[2] > 1
         /\ HeapInv' /\ StackInv' /\ ProgramInv'
<1>1. /\ P \in LiveFrames /\ P[1] = t /\ P[2] = Len(stack[t]) /\ Len(stack[t]) \in Nat \ {0}
  BY TopFrame DEF CoreInv
<1>2. /\ stack' \in [Thread -> Seq(Frame)]
      /\ LiveFrames' = LiveFrames \cup {Q} /\ Q \notin LiveFrames
      /\ \A p \in LiveFrames : p # P => FrameAt(p)' = FrameAt(p)
      /\ FrameAt(P)' = h /\ FrameAt(Q)' = g
      /\ Len(stack'[t]) = Len(stack[t]) + 1
      /\ \A u \in Thread : u # t => stack'[u] = stack[u]
  BY Pushed DEF CoreInv
<1>3. CallsKept(t) /\ Changed(t) = {P, Q}
  BY Zenon, <1>1, <1>2 DEF CallsKept, Changed
<1>4. ProgramKept(t)
  BY DEF ProgramKept
<1>5. MemKept(t)
  <2>1. PICK c : c = NULL
    OBVIOUS
  <2>2. c \in Heap \cup {NULL} /\ c \notin Heap
    BY <2>1, Apart
  <2> QED BY <2>2, OneCell
<1>6. StackInv'
  BY Zenon DEF CoreInv, StackInv, IsByref
<1>7. ProgramInv'
  <2>1. ASSUME NEW u \in Thread PROVE ThreadKept(u)
    <3>1. Idle(u)' => Idle(u)
      <4>1. CASE u = t
        <5>1. Len(stack'[t]) # 0
          BY <1>1, <1>2
        <5> QED BY <4>1, <5>1 DEF Idle
      <4> QED BY <1>2, <4>1 DEF Idle
    <3> QED BY <3>1 DEF ThreadKept
  <2>2. StepKept(t)
    BY <1>3, <1>4, <1>5 DEF StepKept
  <2> QED BY <2>1, <2>2, ProgramInvKept DEF CoreInv, ProgramInv
<1>8. HeapInv'
  BY DEF CoreInv, HeapInv
<1>9. Q = Top(t)' /\ P = <<Q[1], Q[2] - 1>> /\ Q[2] > 1
  BY <1>1, <1>2 DEF Top
<1> QED BY <1>1, <1>2, <1>3, <1>4, <1>5, <1>6, <1>7, <1>8, <1>9 DEF StepKept

LEMMA PushedCalls ==
  ASSUME CoreInv, NEW t \in Thread, ~Idle(t), StepKept(t), NEW P, P = Top(t), NEW Q,
         Changed(t) = {P, Q}, mem' = mem, NEW f, f = FrameAt(P), NEW g, g = FrameAt(Q)',
         NEW h, h = FrameAt(P)', FrameInv(P)', FrameInv(Q)',
         \A a : (Builds(h, a) <=> Builds(f, a)) /\ (Disposes(h, a) <=> Disposes(f, a)),
         \A a : ~Builds(g, a) /\ ~Disposes(g, a)
  PROVE  CallsInv'
<1>1. \A a : /\ (Builds(FrameAt(P), a)' <=> Builds(h, a)) /\ (Disposes(FrameAt(P), a)' <=> Disposes(h, a))
             /\ (Builds(FrameAt(Q), a)' <=> Builds(g, a)) /\ (Disposes(FrameAt(Q), a)' <=> Disposes(g, a))
  BY DEF Builds, Disposes
<1>2. \A p \in Changed(t) : FrameInv(p)'
  OBVIOUS
<1>3. \A a \in Heap : mem'[a].kind = "block" /\ mem'[a].isa = "stack" =>
           \/ \E p \in Changed(t) : Builds(FrameAt(p), a)'
           \/ /\ mem[a].kind = "block" /\ mem[a].isa = "stack"
              /\ ~Idle(t) => ~Builds(FrameAt(Top(t)), a)
  BY <1>1
<1>4. \A a \in Heap : mem'[a].kind # "free" /\ mem'[a].dying =>
           \/ \E p \in Changed(t) : Disposes(FrameAt(p), a)'
           \/ /\ mem[a].kind # "free" /\ mem[a].dying
              /\ ~Idle(t) => ~Disposes(FrameAt(Top(t)), a)
  BY <1>1
<1>5. \A p \in Changed(t), a \in Heap : Disposes(FrameAt(p), a)' =>
           /\ \A q \in Changed(t) : Disposes(FrameAt(q), a)' => q = p
           /\ \/ ~Idle(t) /\ Disposes(FrameAt(Top(t)), a)
              \/ ~mem[a].dying
  BY <1>1
<1> QED BY <1>2, <1>3, <1>4, <1>5, CallsInvKept

LEMMA PushedHelped ==
  ASSUME mem' = mem, NEW P \in LiveFrames, NEW Q, LiveFrames' = LiveFrames \cup {Q}, Q \notin LiveFrames,
         \A p \in LiveFrames : p # P => FrameAt(p)' = FrameAt(p),
         NEW g, g = FrameAt(Q)', NEW h, h = FrameAt(P)', NEW x
  PROVE  x \in HelpedFields' <=>
           /\ IsField(x) /\ ~Withholds(g, x) /\ ~Withholds(h, x)
           /\ \A p \in LiveFrames : p # P => ~Withholds(FrameAt(p), x)
<1>1. x \in HelpedFields' <=> IsField(x)' /\ \A p \in LiveFrames' : ~Withholds(FrameAt(p), x)'
  BY DEF HelpedFields, IsField, IsBlock
<1>2. IsField(x)' <=> IsField(x)
  BY DEF IsField, IsBlock
<1>3. \A p \in LiveFrames : p # P => (Withholds(FrameAt(p), x)' <=> Withholds(FrameAt(p), x))
  BY DEF Withholds, ToField
<1>4. /\ Withholds(FrameAt(P), x)' <=> Withholds(h, x)
      /\ Withholds(FrameAt(Q), x)' <=> Withholds(g, x)
  BY DEF Withholds, ToField
<1> QED BY <1>1, <1>2, <1>3, <1>4

\* A copy helper that calls the runtime for a field goes on to the next one.
LEMMA AssignBlockOrByrefStep ==
  ASSUME IInv, WellCaptured, NEW t \in Thread, AssignBlockOrByref(t)
  PROVE  IInv' /\ StepKept(t) /\ NothingMoves(t)
<1>1. PICK f, P, a, r, i : f = Head(stack[t]) /\ P = Top(t) /\ a = f.arg /\ r = f.result /\ i = f.i
  OBVIOUS
<1>2. f.fn = "copyHelper" /\ ~Idle(t) /\ i <= Len(mem[a].fields)
  BY Zenon, <1>1 DEF AssignBlockOrByref, In, Idle
<1>3. /\ FrameAt(P) = f /\ P[1] = t /\ f \in Frame /\ P \in LiveFrames /\ CoreInv /\ CopyHelperInv(P)
      /\ FieldsInv /\ RetainsInv
  BY <1>1, <1>2, Running DEF IInv, FrameInv
<1>4. PICK n : n = Len(mem[a].fields)
  BY Zenon
<1>5. /\ DestInv(P) /\ StackBlock(t, a) /\ r \in Heap
      /\ IsBlock(r) /\ mem[r].isa = "stack" /\ mem[r].count = 1
      /\ mem[r].lit = mem[a].lit /\ Len(mem[r].fields) = n
      /\ i \in 1 .. n + 1
      /\ \A j \in i .. n : mem[r].fields[j] = mem[a].fields[j]
      /\ ~IsVar(f.dest) =>
            AssignKind(Awaited(f.dest).flags) = "block" /\ mem[r].lit = Awaited(f.dest).of
  BY <1>1, <1>2, <1>3, <1>4 DEF CopyHelperInv, IsBlock
<1>6. /\ n \in Nat /\ DOMAIN mem[a].fields = 1 .. n /\ DOMAIN mem[r].fields = 1 .. n
      /\ mem[a].fields \in Seq(Pointer)
  <2>1. PICK l \in Literal, fs \in Seq(Pointer) : mem[a] = Block("stack", "stack", 0, l, fs)
    BY <1>3, <1>5, StackBlockCell
  <2>2. mem[a].fields \in Seq(Pointer)
    BY <2>1 DEF Block
  <2>3. mem[r].fields \in Seq(Pointer)
    BY <1>3, <1>5 DEF CoreInv, HeapInv, HeapBlock, HeapByref, FreeCell, IsBlock
  <2> QED BY <1>4, <1>5, <2>2, <2>3
<1>7. i \in 1 .. n /\ i \in Nat
  BY <1>2, <1>4, <1>5, <1>6
<1>8. PICK h : h = [f EXCEPT !.i = @ + 1]
  BY Zenon
<1>9. h \in Frame /\ h.fn = "copyHelper" /\ h.arg = a /\ h.result = r /\ h.i = i + 1 /\ h.dest = f.dest
  <2>1. f \in [fn : {"copyHelper"}, result : Heap, arg : Addr, i : Nat, dest : Dest]
    BY <1>2, <1>3 DEF Frame
  <2>2. h \in [fn : {"copyHelper"}, result : Heap, arg : Addr, i : Nat, dest : Dest]
    BY <1>1, <1>7, <1>8, <2>1
  <2> QED BY <1>1, <1>2, <1>8, <2>1, <2>2 DEF Frame
<1>10. PICK v, kind, x0, d, c : /\ v = mem[a].fields[i] /\ kind = AssignKind(FlagsOf(mem[a], i))
                                /\ x0 = <<r, i>> /\ d = ToField(r, i) /\ c = Captures[mem[a].lit][i]
  BY Zenon
<1>11. PICK g : g = IF kind = "block" THEN CopyFrame(v, d) ELSE ByrefCopyFrame(v, d, "check", NULL)
  OBVIOUS
<1>12. /\ kind \in {"block", "byref"}
       /\ Continue(t, <<g, h>>) /\ UNCHANGED <<mem, var, busy, scope, retains, written>>
  <2>1. PICK call : call = [block |-> CopyFrame(v, d), byref |-> ByrefCopyFrame(v, d, "check", NULL)]
    BY Zenon
  <2>2. /\ kind \in {"block", "byref"}
        /\ Continue(t, <<call[kind], h>>) /\ UNCHANGED <<mem, var, busy, scope, retains, written>>
    BY Zenon, <1>1, <1>8, <1>10, <2>1 DEF AssignBlockOrByref
  <2>3. call["block"] = CopyFrame(v, d) /\ call["byref"] = ByrefCopyFrame(v, d, "check", NULL)
    BY <2>1
  <2>4. call[kind] = g
    BY <1>11, <2>2, <2>3
  <2> QED BY <2>2, <2>4
<1>13. /\ c.flags = FlagsOf(mem[a], i)
       /\ kind = "block" => CopyArg(t, v) /\ (v \notin {NULL, GlobalBlock} => mem[v].lit = c.of)
       /\ kind = "byref" =>
            /\ (v \in Byref /\ t = Main /\ scope = "open") \/ (IsByref(v) /\ Borrowed(t, v))
            /\ mem[v].of = c.of
  BY <1>5, <1>6, <1>7, <1>10, StackField
<1>14. /\ g \in Frame /\ g.arg = v /\ g.dest = d
       /\ kind = "block" => g.fn = "copy"
       /\ kind = "byref" => g.fn = "byrefCopy" /\ g.pc = "check"
  <2>1. d \in Dest
    BY <1>5, <1>7, <1>10 DEF Dest, ToField
  <2>2. CASE kind = "block"
    <3>1. v \in Pointer
      BY <1>6, <1>7, <1>10
    <3> QED BY <1>11, <2>1, <2>2, <3>1 DEF Frame, CopyFrame
  <2>3. CASE kind = "byref"
    <3>1. v \in Addr
      BY <1>13, <2>3 DEF Addr, Stack, IsByref
    <3> QED BY <1>11, <2>1, <2>3, <3>1 DEF Frame, ByrefCopyFrame
  <2> QED BY <1>12, <2>2, <2>3
<1>15. PICK Q : Q = <<t, Len(stack[t]) + 1>>
  BY Zenon
<1>16. /\ StepKept(t) /\ Changed(t) = {P, Q} /\ P # Q /\ Q[1] = t
       /\ LiveFrames' = LiveFrames \cup {Q} /\ Q \notin LiveFrames
       /\ FrameAt(P)' = h /\ FrameAt(Q)' = g
       /\ \A p \in LiveFrames : p # P => FrameAt(p)' = FrameAt(p)
       /\ Q = Top(t)' /\ P = <<Q[1], Q[2] - 1>> /\ Q[2] > 1
       /\ HeapInv' /\ StackInv' /\ ProgramInv'
  BY <1>1, <1>2, <1>3, <1>9, <1>12, <1>14, <1>15, Pushes
<1>17. FrameInv(P)'
  <2>1. DestInv(P)'
    BY Zenon, <1>1, <1>2, <1>3, <1>5, <1>9, <1>12, <1>16, DestGoesOn
  <2>2. StackBlock(t, a)' /\ IsBlock(r)'
    BY <1>5, <1>12 DEF StackBlock, IsBlock
  <2>3. \A j \in h.i .. n : mem[r].fields[j] = mem[a].fields[j]
    BY <1>5, <1>6, <1>7, <1>9
  <2>4. h.i \in 1 .. n + 1
    BY <1>6, <1>7, <1>9
  <2>5. Awaited(f.dest)' = Awaited(f.dest)
    BY <1>12 DEF Awaited
  <2>7. FrameAt(P)' = h /\ mem' = mem /\ P[1] = t
    BY <1>3, <1>12, <1>16
  <2>6. CopyHelperInv(P)'
    BY Zenon, <1>4, <1>5, <1>9, <2>1, <2>2, <2>3, <2>4, <2>5, <2>7 DEF CopyHelperInv
  <2> QED BY <1>9, <1>16, <2>6 DEF FrameInv, CopyInv, ByrefCopyInv, ReleaseInv
<1>18. FrameInv(Q)'
  <2>1. ~IsVar(d) /\ d.block = r /\ d.field = i
    BY <1>10 DEF IsVar, ToField
  <2>2. DestInv(Q)'
    <3>1. FrameAt(<<Q[1], Q[2] - 1>>)' = h
      BY <1>16
    <3>2. d = ToField(h.result, h.i - 1) /\ h.i > 1
      BY <1>7, <1>9, <1>10
    <3> QED BY <1>9, <1>14, <1>16, <2>1, <3>1, <3>2 DEF DestInv
  <2>3. Awaited(d)' = c /\ AssignKind(c.flags) = kind
    BY <1>5, <1>10, <1>12, <1>13, <2>1 DEF Awaited
  <2>4. CASE kind = "block"
    <3>1. CopyArg(t, v)' /\ (v \notin {NULL, GlobalBlock} => mem'[v].lit = c.of)
      BY Zenon, <1>12, <1>13, <2>4 DEF CopyArg, StackBlock, Borrowed, IsBlock, KindOf, FlagsOf
    <3>2. CopyInv(Q)'
      BY <1>14, <1>16, <2>1, <2>2, <2>3, <2>4, <3>1 DEF CopyInv
    <3> QED BY <1>14, <1>16, <2>4, <3>2 DEF FrameInv, CopyHelperInv, ByrefCopyInv, ReleaseInv
  <2>5. CASE kind = "byref"
    <3>1. /\ (v \in Byref /\ t = Main /\ scope' = "open") \/ (IsByref(v)' /\ Borrowed(t, v)')
          /\ mem'[v].of = c.of
      BY Zenon, <1>12, <1>13, <2>5 DEF IsByref, Borrowed, IsBlock, KindOf, FlagsOf
    <3>2. ByrefCopyInv(Q)'
      BY <1>14, <1>16, <2>1, <2>2, <2>3, <2>5, <3>1 DEF ByrefCopyInv
    <3> QED BY <1>14, <1>16, <2>5, <3>2 DEF FrameInv, CopyHelperInv, CopyInv, ReleaseInv
  <2> QED BY <1>12, <2>4, <2>5
<1>19. CallsInv'
  <2>1. \A b : /\ (Builds(h, b) <=> Builds(f, b)) /\ (Disposes(h, b) <=> Disposes(f, b))
               /\ ~Builds(g, b) /\ ~Disposes(g, b)
    BY <1>1, <1>2, <1>9, <1>12, <1>14 DEF Builds, Disposes
  <2> QED BY Zenon, <1>1, <1>2, <1>3, <1>12, <1>16, <1>17, <1>18, <2>1, PushedCalls
<1>20. HelpedFields' = HelpedFields
  <2>1. ASSUME NEW x PROVE x \in HelpedFields' <=> x \in HelpedFields
    <3>1. x \in HelpedFields' <=>
            /\ IsField(x) /\ ~Withholds(g, x) /\ ~Withholds(h, x)
            /\ \A p \in LiveFrames : p # P => ~Withholds(FrameAt(p), x)
      BY <1>3, <1>12, <1>16, PushedHelped
    <3>2. x \in HelpedFields <=> IsField(x) /\ \A p \in LiveFrames : ~Withholds(FrameAt(p), x)
      BY HelpedShape
    <3>3. ASSUME IsField(x) PROVE Withholds(f, x) <=> Withholds(g, x) \/ Withholds(h, x)
      <4>1. Withholds(g, x) <=> x[1] = r /\ x[2] = i
        <5>1. d = ToField(x[1], x[2]) <=> x[1] = r /\ x[2] = i
          <6>1. PICK b, j : b = x[1] /\ j = x[2]
            OBVIOUS
          <6>2. ToField(b, j) = ToField(r, i) => b = r /\ j = i
            BY DEF ToField
          <6> QED BY <1>10, <6>1, <6>2
        <5> QED BY <1>12, <1>14, <5>1 DEF Withholds
      <4>2. x[1] = r => x[2] \in Nat
        BY <1>6, <3>3 DEF IsField
      <4> QED BY <1>1, <1>2, <1>7, <1>9, <4>1, <4>2 DEF Withholds
    <3> QED BY <1>3, <3>1, <3>2, <3>3
  <2> QED BY <2>1
<1>21. FieldsInv' /\ (\A b : FieldOwners(b)' = FieldOwners(b)) /\ RetainsInv'
  <2>1. \A x \in HelpedFields : FieldKept(x)
    BY <1>12 DEF FieldKept
  <2>2. /\ FieldsInv'
        /\ \A b : FieldOwners(b)' = FieldOwners(b)
        /\ \A o : ObjectFields(o)' = ObjectFields(o)
    BY <1>3, <1>16, <1>20, <2>1, FieldsSame
  <2>3. RetainsInv'
    BY <1>3, <1>12, <2>2, RetainsSame
  <2> QED BY <2>2, <2>3
<1>22. ASSUME NEW b \in Heap PROVE Settles(b)
  <2>1. FrameOwners(b)' = (FrameOwners(b) \ {P}) \cup {p \in Changed(t) : FrameOwns(FrameAt(p), b)'}
    BY Zenon, <1>1, <1>3, <1>16, FrameOwnersStep
  <2>2. /\ FrameOwns(FrameAt(P), b) <=> b = r
        /\ FrameOwns(FrameAt(P), b)' <=> b = r
        /\ ~FrameOwns(FrameAt(Q), b)'
    BY <1>1, <1>2, <1>3, <1>9, <1>12, <1>14, <1>16 DEF FrameOwns
  <2>3. P \in FrameOwners(b) <=> b = r
    BY <1>3, <2>2 DEF FrameOwners
  <2>4. FrameOwners(b)' = FrameOwners(b)
    BY <1>16, <2>1, <2>2, <2>3
  <2>5. StackOwners(b)' = StackOwners(b)
    <3>1. \A y \in LiveFrames' : y \notin LiveFrames \/ y = Top(t) => FrameAt(y)' \in {g, h}
      BY <1>1, <1>16
    <3>2. \A y \in LiveFrames' : y \notin LiveFrames \/ y = Top(t) =>
            ~(FrameAt(y)'.fn = "byrefCopy" /\ FrameAt(y)'.pc = "publish")
      BY <1>9, <1>12, <1>14, <3>1
    <3>3. ~(FrameAt(Top(t)).fn = "byrefCopy" /\ FrameAt(Top(t)).pc = "publish")
      BY <1>1, <1>2, <1>3
    <3>4. \A y \in Byref : mem'[y].forwarding = mem[y].forwarding
      BY <1>12
    <3> QED BY <1>3, <1>16, <3>2, <3>3, <3>4, StackOwnersKept
  <2>6. Held(b)' = Held(b) + 0 + 0
    <3>1. Held(b) \in Nat
      BY <1>3 DEF Held, CoreInv, HeapInv, HeapBlock, HeapByref, FreeCell
    <3> QED BY <1>12, <3>1 DEF Held
  <2>7. Grows(FrameOwners(b), FrameOwners(b)', 0) /\ Grows(StackOwners(b), StackOwners(b)', 0)
    BY <2>4, <2>5 DEF Grows
  <2> QED BY <2>6, <2>7 DEF Settles
<1>23. OwnersInv'
  <2>1. \A b \in Heap : VarOwners(b)' = VarOwners(b)
    BY <1>12 DEF VarOwners
  <2> QED BY <1>3, <1>21, <1>22, <2>1, CallsSettle
<1>24. NothingMoves(t)
  <2>1. ~Moves(f) /\ ~Moves(g) /\ ~Moves(h)
    BY <1>2, <1>9, <1>12, <1>14 DEF Moves
  <2>2. \A p \in Changed(t) : ~Moves(FrameAt(p))'
    BY <1>16, <2>1 DEF Moves
  <2> QED BY <1>1, <1>3, <1>12, <2>1, <2>2 DEF NothingMoves
<1> QED BY Zenon, <1>16, <1>19, <1>21, <1>23, <1>24 DEF IInv, CoreInv

\* A dispose helper that calls the runtime for a field goes on to the next one.
LEMMA DisposeBlockOrByrefStep ==
  ASSUME IInv, NEW t \in Thread, DisposeBlockOrByref(t)
  PROVE  IInv' /\ StepKept(t) /\ NothingMoves(t)
<1>1. PICK f, P, r, i : f = Head(stack[t]) /\ P = Top(t) /\ r = f.arg /\ i = f.i
  OBVIOUS
<1>2. f.fn = "disposeHelper" /\ ~Idle(t) /\ i <= Len(mem[r].fields)
  BY <1>1 DEF DisposeBlockOrByref, In, Idle
<1>3. /\ FrameAt(P) = f /\ P[1] = t /\ f \in Frame /\ P \in LiveFrames /\ CoreInv /\ ReleaseInv(P)
      /\ FieldsInv /\ RetainsInv
  BY <1>1, <1>2, Running DEF IInv, FrameInv
<1>4. PICK n : n = Len(mem[r].fields)
  BY Zenon
<1>5. r \in Heap /\ IsBlock(r) /\ mem[r].dying /\ i \in 1 .. n + 1
  BY <1>1, <1>2, <1>3, <1>4 DEF ReleaseInv, IsBlock
<1>6. n \in Nat /\ DOMAIN mem[r].fields = 1 .. n /\ mem[r].fields \in Seq(Pointer)
  <2>1. mem[r].fields \in Seq(Pointer)
    BY <1>3, <1>5 DEF CoreInv, HeapInv, HeapBlock, HeapByref, FreeCell, IsBlock
  <2> QED BY <1>4, <1>5, <2>1
<1>7. i \in 1 .. n /\ i \in Nat
  BY <1>2, <1>4, <1>5, <1>6
<1>8. PICK h : h = [f EXCEPT !.i = @ + 1]
  BY Zenon
<1>9. h \in Frame /\ h.fn = "disposeHelper" /\ h.arg = r /\ h.i = i + 1
  <2>1. f \in [fn : {"disposeHelper"}, arg : Heap, i : Nat]
    BY <1>2, <1>3 DEF Frame
  <2>2. h \in [fn : {"disposeHelper"}, arg : Heap, i : Nat]
    BY <1>1, <1>7, <1>8, <2>1
  <2> QED BY <1>1, <1>2, <1>8, <2>1, <2>2 DEF Frame
<1>10. PICK v, kind, x0 : v = mem[r].fields[i] /\ kind = AssignKind(FlagsOf(mem[r], i)) /\ x0 = <<r, i>>
  BY Zenon
<1>11. PICK g : g = IF kind = "block" THEN ReleaseFrame(v) ELSE ByrefReleaseFrame(v, "load")
  OBVIOUS
<1>12. /\ kind \in {"block", "byref"}
       /\ Continue(t, <<g, h>>) /\ UNCHANGED <<mem, var, busy, scope, retains, written>>
  <2>1. PICK k, call : /\ k = DisposeKind(FlagsOf(mem[r], i))
                       /\ call = [block |-> ReleaseFrame(v), byref |-> ByrefReleaseFrame(v, "load")]
    BY Zenon
  <2>2. /\ k \in {"block", "byref"}
        /\ Continue(t, <<call[k], h>>) /\ UNCHANGED <<mem, var, busy, scope, retains, written>>
    BY Zenon, <1>1, <1>8, <1>10, <2>1 DEF DisposeBlockOrByref
  <2>3. k = IF kind \in {"object", "block", "byref"} THEN kind ELSE "nothing"
    BY <1>10, <2>1, KindsAgree
  <2>4. k = kind
    BY <2>2, <2>3
  <2>5. call["block"] = ReleaseFrame(v) /\ call["byref"] = ByrefReleaseFrame(v, "load")
    BY <2>1
  <2>6. call[kind] = g
    BY <1>11, <2>2, <2>4, <2>5
  <2> QED BY <2>2, <2>4, <2>6
<1>13. x0 \in HelpedFields /\ IsField(x0)
  <2>1. IsField(x0)
    BY <1>5, <1>6, <1>7, <1>10 DEF IsField, IsBlock
  <2>2. \A p \in LiveFrames : ~Withholds(FrameAt(p), x0)
    BY <1>1, <1>2, <1>3, <1>7, <1>10, <2>1, TopDisposal
  <2> QED BY <2>1, <2>2, HelpedShape
<1>14. /\ KindOf(x0) = kind /\ Field(x0) = v
       /\ kind = "block" => v \in {GlobalBlock, NULL} \/ IsBlock(v)
       /\ kind = "byref" => IsByref(v) /\ mem[v].forwarding = v
  <2>1. KindOf(x0) = kind /\ Field(x0) = v
    BY <1>10 DEF Field, KindOf
  <2>2. FieldOk(x0)
    BY <1>3, <1>13 DEF FieldsInv
  <2>3. /\ kind = "block" => v \in {GlobalBlock, NULL} \/ IsBlock(v)
        /\ kind = "byref" => IsByref(v)
    BY <2>1, <2>2 DEF FieldOk
  <2> QED BY <1>3, <2>1, <2>3 DEF CoreInv, HeapInv, IsByref
<1>15. /\ g \in Frame /\ g.arg = v
       /\ kind = "block" => g.fn = "release"
       /\ kind = "byref" => g.fn = "byrefRelease" /\ g.pc = "load"
  <2>1. CASE kind = "block"
    <3>1. v \in Pointer
      BY <1>6, <1>7, <1>10
    <3> QED BY <1>11, <2>1, <3>1 DEF Frame, ReleaseFrame
  <2>2. CASE kind = "byref"
    <3>1. v \in Addr
      BY <1>14, <2>2 DEF Addr, IsByref
    <3> QED BY <1>11, <2>2, <3>1 DEF Frame, ByrefReleaseFrame
  <2> QED BY <1>12, <2>1, <2>2
<1>16. PICK Q : Q = <<t, Len(stack[t]) + 1>>
  BY Zenon
<1>17. /\ StepKept(t) /\ Changed(t) = {P, Q} /\ P # Q /\ Q[1] = t
       /\ LiveFrames' = LiveFrames \cup {Q} /\ Q \notin LiveFrames
       /\ FrameAt(P)' = h /\ FrameAt(Q)' = g
       /\ \A p \in LiveFrames : p # P => FrameAt(p)' = FrameAt(p)
       /\ HeapInv' /\ StackInv' /\ ProgramInv'
  BY <1>1, <1>2, <1>3, <1>9, <1>12, <1>15, <1>16, Pushes
<1>18. FrameInv(P)' /\ FrameInv(Q)'
  <2>1. h.i \in 1 .. n + 1
    BY <1>6, <1>7, <1>9
  <2>2. FrameAt(P)' = h /\ FrameAt(Q)' = g /\ mem' = mem
    BY <1>12, <1>17
  <2>3. ReleaseInv(P)'
    BY <1>4, <1>5, <1>9, <2>1, <2>2 DEF ReleaseInv, IsBlock
  <2>4. ReleaseInv(Q)'
    BY <1>12, <1>14, <1>15, <2>2 DEF ReleaseInv, IsBlock, IsByref
  <2>5. h.fn \notin {"copy", "copyHelper", "byrefCopy"} /\ g.fn \notin {"copy", "copyHelper", "byrefCopy"}
    BY <1>9, <1>12, <1>15
  <2> QED BY <2>2, <2>3, <2>4, <2>5 DEF FrameInv, CopyInv, ByrefCopyInv, CopyHelperInv
<1>19. CallsInv'
  <2>1. \A b : /\ (Builds(h, b) <=> Builds(f, b)) /\ (Disposes(h, b) <=> Disposes(f, b))
               /\ ~Builds(g, b) /\ ~Disposes(g, b)
    BY <1>1, <1>2, <1>9, <1>12, <1>15 DEF Builds, Disposes
  <2> QED BY <1>1, <1>2, <1>3, <1>12, <1>17, <1>18, <2>1, PushedCalls
<1>20. HelpedFields' = HelpedFields \ {x0}
  <2>1. ASSUME NEW x PROVE x \in HelpedFields' <=> x \in HelpedFields /\ x # x0
    <3>1. x \in HelpedFields' <=>
            /\ IsField(x) /\ ~Withholds(g, x) /\ ~Withholds(h, x)
            /\ \A p \in LiveFrames : p # P => ~Withholds(FrameAt(p), x)
      BY <1>3, <1>12, <1>17, PushedHelped
    <3>2. x \in HelpedFields <=> IsField(x) /\ \A p \in LiveFrames : ~Withholds(FrameAt(p), x)
      BY HelpedShape
    <3>3. ~Withholds(g, x)
      BY <1>12, <1>15 DEF Withholds
    <3>4. ASSUME IsField(x) PROVE Withholds(h, x) <=> Withholds(f, x) \/ x = x0
      <4>1. x[1] = r => x[2] \in Nat
        BY <1>6, <3>4 DEF IsField
      <4>2. x = x0 <=> x[1] = r /\ x[2] = i
        BY <1>10, <3>4 DEF IsField
      <4> QED BY <1>1, <1>2, <1>7, <1>9, <4>1, <4>2 DEF Withholds
    <3> QED BY <1>3, <3>1, <3>2, <3>3, <3>4
  <2> QED BY <2>1
<1>21. /\ FieldsInv'
       /\ \A b, x : x \in FieldOwners(b)' <=> x \in FieldOwners(b) /\ x # x0
       /\ \A o : ObjectFields(o)' = ObjectFields(o)
  <2>1. PICK L, G : L = {x0} /\ G = {}
    BY Zenon
  <2>2. HelpedFields' = (HelpedFields \ L) \cup G /\ G \cap HelpedFields = {}
    BY <1>20, <2>1
  <2>3. \A x \in HelpedFields \ L : FieldKept(x)
    BY <1>12 DEF FieldKept
  <2>4. \A x \in G : FieldOk(x)'
    BY <2>1
  <2>5. /\ FieldsInv'
        /\ \A b, x : x \in FieldOwners(b)' <=>
             \/ x \in FieldOwners(b) /\ x \notin L
             \/ x \in G /\ Field(x)' = b /\ KindOf(x)' \in {"block", "byref"}
        /\ \A o, x : x \in ObjectFields(o)' <=>
             \/ x \in ObjectFields(o) /\ x \notin L
             \/ x \in G /\ Field(x)' = o /\ KindOf(x)' = "object"
    BY Zenon, <1>3, <1>17, <2>2, <2>3, <2>4, FieldsStep
  <2>6. \A o : x0 \notin ObjectFields(o)
    BY <1>12, <1>14 DEF ObjectFields
  <2>7. \A o, x : x \in ObjectFields(o)' <=> x \in ObjectFields(o)
    BY <2>1, <2>5, <2>6
  <2>8. ASSUME NEW o PROVE ObjectFields(o)' = ObjectFields(o)
    <3>1. PICK S, T : S = ObjectFields(o) /\ T = ObjectFields(o)'
      OBVIOUS
    <3>2. \A x : x \in T <=> x \in S
      BY <2>7, <3>1
    <3>3. S \subseteq HelpedFields /\ T \subseteq HelpedFields'
      BY <3>1 DEF ObjectFields
    <3> QED BY <3>1, <3>2, <3>3
  <2>9. \A b, x : x \in FieldOwners(b)' <=> x \in FieldOwners(b) /\ x # x0
    BY <2>1, <2>5
  <2> QED BY <2>5, <2>8, <2>9
<1>22. RetainsInv'
  BY <1>3, <1>12, <1>21, RetainsSame
<1>23. ASSUME NEW b \in Heap
       PROVE  \E w, x, p, s :
                /\ Grows(VarOwners(b), VarOwners(b)', w) /\ Grows(FieldOwners(b), FieldOwners(b)', x)
                /\ Grows(FrameOwners(b), FrameOwners(b)', p) /\ Grows(StackOwners(b), StackOwners(b)', s)
                /\ Held(b)' = Held(b) + w + x + p + s
  <2>1. VarOwners(b)' = VarOwners(b)
    BY <1>12 DEF VarOwners
  <2>2. PICK e, k : e = (IF b = v THEN 1 ELSE 0) /\ k = (IF b = v THEN -1 ELSE 0)
    OBVIOUS
  <2>3. Grows(FieldOwners(b), FieldOwners(b)', k)
    <3>1. x0 \in FieldOwners(b) <=> b = v
      BY <1>12, <1>13, <1>14 DEF FieldOwners
    <3>2. PICK S, T : S = FieldOwners(b) /\ T = FieldOwners(b)'
      OBVIOUS
    <3>3. \A x : x \in T <=> x \in S /\ x # x0
      BY <1>21, <3>2
    <3>4. S \subseteq HelpedFields /\ T \subseteq HelpedFields'
      BY <3>2 DEF FieldOwners
    <3>5. T = S \ {x0}
      BY <3>3, <3>4
    <3>6. Grows(S, T, k)
      <4>1. CASE b = v
        <5>1. k = -1 /\ x0 \in S
          BY <2>2, <3>1, <3>2, <4>1
        <5> QED BY <3>5, <5>1 DEF Grows
      <4>2. CASE b # v
        <5>1. k = 0 /\ x0 \notin S
          BY <2>2, <3>1, <3>2, <4>2
        <5>2. T = S
          BY <3>5, <5>1
        <5> QED BY <5>1, <5>2 DEF Grows
      <4> QED BY <4>1, <4>2
    <3> QED BY <3>2, <3>6
  <2>4. Grows(FrameOwners(b), FrameOwners(b)', e)
    <3>1. FrameOwners(b)' = (FrameOwners(b) \ {P}) \cup {p \in Changed(t) : FrameOwns(FrameAt(p), b)'}
      BY <1>1, <1>3, <1>17, FrameOwnersStep
    <3>2. ~FrameOwns(FrameAt(P), b) /\ ~FrameOwns(FrameAt(P), b)'
      BY <1>2, <1>3, <1>9, <1>17 DEF FrameOwns
    <3>3. FrameOwns(FrameAt(Q), b)' <=> b = v
      <4>1. FrameAt(Q)' = g /\ mem' = mem
        BY <1>12, <1>17
      <4>2. CASE kind = "block"
        BY <1>15, <4>1, <4>2 DEF FrameOwns
      <4>3. CASE kind = "byref"
        BY <1>14, <1>15, <4>1, <4>3 DEF FrameOwns
      <4> QED BY <1>12, <4>2, <4>3
    <3>4. PICK S, T : S = FrameOwners(b) /\ T = FrameOwners(b)'
      OBVIOUS
    <3>5. P \notin S /\ Q \notin S
      BY <1>17, <3>2, <3>4 DEF FrameOwners
    <3>6. T = S \cup (IF b = v THEN {Q} ELSE {})
      BY <1>17, <3>1, <3>2, <3>3, <3>4, <3>5
    <3>7. Grows(S, T, e)
      BY <2>2, <3>5, <3>6 DEF Grows
    <3> QED BY <3>4, <3>7
  <2>5. StackOwners(b)' = StackOwners(b)
    <3>1. \A y \in LiveFrames' : y \notin LiveFrames \/ y = Top(t) => FrameAt(y)' \in {g, h}
      BY <1>1, <1>17
    <3>2. \A y \in LiveFrames' : y \notin LiveFrames \/ y = Top(t) =>
            ~(FrameAt(y)'.fn = "byrefCopy" /\ FrameAt(y)'.pc = "publish")
      BY <1>9, <1>12, <1>15, <3>1
    <3>3. ~(FrameAt(Top(t)).fn = "byrefCopy" /\ FrameAt(Top(t)).pc = "publish")
      BY <1>1, <1>2, <1>3
    <3>4. \A y \in Byref : mem'[y].forwarding = mem[y].forwarding
      BY <1>12
    <3> QED BY <1>3, <1>17, <3>2, <3>3, <3>4, StackOwnersKept
  <2>7. Held(b)' = Held(b) + 0 + k + e + 0
    <3>1. Held(b) \in Nat /\ Held(b)' = Held(b)
      BY <1>3, <1>12 DEF Held, CoreInv, HeapInv, HeapBlock, HeapByref, FreeCell
    <3>2. (e = 1 /\ k = -1) \/ (e = 0 /\ k = 0)
      BY <2>2
    <3> QED BY <3>1, <3>2
  <2>8. Grows(VarOwners(b), VarOwners(b)', 0) /\ Grows(StackOwners(b), StackOwners(b)', 0)
        /\ Grows(FieldOwners(b), FieldOwners(b)', k)
    BY <2>1, <2>3, <2>5 DEF Grows
  <2> QED BY <2>4, <2>7, <2>8
<1>24. OwnersInv'
  BY <1>3, <1>23, OwnersSettle
<1>25. NothingMoves(t)
  <2>1. ~Moves(f) /\ ~Moves(g) /\ ~Moves(h)
    BY <1>2, <1>9, <1>12, <1>15 DEF Moves
  <2>2. \A p \in Changed(t) : ~Moves(FrameAt(p))'
    BY <1>17, <2>1 DEF Moves
  <2> QED BY <1>1, <1>3, <1>12, <2>1, <2>2 DEF NothingMoves
<1> QED BY Zenon, <1>17, <1>19, <1>21, <1>22, <1>24, <1>25 DEF IInv, CoreInv

-----------------------------------------------------------------------------
(* The program *)

\* A thread outside the runtime calls it.
LEMMA Called ==
  ASSUME CoreInv, NEW t \in Thread, NEW g \in Frame, NEW used \in SUBSET Var, Call(t, <<g>>, used),
         NEW Q, Q = <<t, 1>>
  PROVE  /\ Idle(t)
         /\ stack' \in [Thread -> Seq(Frame)] /\ busy' = [busy EXCEPT ![t] = used]
         /\ LiveFrames' = LiveFrames \cup {Q} /\ Q \notin LiveFrames
         /\ FrameAt(Q)' = g
         /\ \A p \in LiveFrames : p # Top(t) /\ FrameAt(p)' = FrameAt(p)
         /\ \A u \in Thread : u # t => stack'[u] = stack[u]
         /\ Q = Top(t)' /\ Q[1] = t /\ Q[2] = 1 /\ Changed(t) = {Q} /\ Outermost(t)
         /\ ~Idle(t)'
<1>1. PICK fs \in Seq(Frame) : fs = <<g>> /\ Len(fs) = 1 /\ fs[1] = g
  <2>1. <<g>> \in Seq(Frame) /\ Len(<<g>>) = 1 /\ <<g>>[1] = g
    OBVIOUS
  <2> QED BY Zenon, <2>1
<1>2. /\ Idle(t) /\ stack' = [stack EXCEPT ![t] = fs] /\ busy' = [busy EXCEPT ![t] = used]
  BY <1>1 DEF Call
<1>3. stack \in [Thread -> Seq(Frame)]
  BY DEF CoreInv, CallsInv
<1>4. stack' \in [Thread -> Seq(Frame)] /\ stack'[t] = fs /\ \A u \in Thread : u # t => stack'[u] = stack[u]
  BY <1>1, <1>2, <1>3
<1>5. Len(stack[t]) = 0 /\ DOMAIN stack[t] = {}
  BY <1>2 DEF Idle
<1>6. \A p \in LiveFrames : p[1] # t /\ p # <<t, 0>>
  <2>1. ASSUME NEW p \in LiveFrames, p[1] = t PROVE FALSE
    <3>1. p[2] \in 1 .. Len(stack[t])
      BY <2>1, LiveShape DEF CoreInv
    <3> QED BY <1>5, <3>1
  <2> QED BY <2>1
<1>7. LiveFrames' = LiveFrames \cup {Q}
  <2>1. ASSUME NEW u \in Thread, NEW k
        PROVE  k \in DOMAIN stack'[u] <=> k \in DOMAIN stack[u] \/ (u = t /\ k = 1)
    <3>1. CASE u = t
      <4>1. DOMAIN fs = {1}
        BY <1>1
      <4> QED BY <1>4, <1>5, <3>1, <4>1
    <3>2. CASE u # t
      BY <1>4, <3>2
    <3> QED BY <3>1, <3>2
  <2>2. \A p : p \in LiveFrames' <=> \E u \in Thread : \E k \in DOMAIN stack'[u] : p = <<u, k>>
    BY DEF LiveFrames
  <2>3. \A p : p \in LiveFrames <=> \E u \in Thread : \E k \in DOMAIN stack[u] : p = <<u, k>>
    BY DEF LiveFrames
  <2>4. \A p : p \in LiveFrames' <=> p \in LiveFrames \/ p = Q
    BY <2>1, <2>2, <2>3
  <2> QED BY <2>4
<1>8. ASSUME NEW p \in LiveFrames PROVE p # Top(t) /\ FrameAt(p)' = FrameAt(p)
  <2>1. p[1] \in Thread /\ p[1] # t
    BY <1>6, LiveShape DEF CoreInv
  <2> QED BY <1>4, <1>5, <1>6, <2>1 DEF FrameAt, Top
<1>9. FrameAt(Q)' = g /\ Q = Top(t)' /\ Q[1] = t /\ Q[2] = 1
  <2>1. Len(stack'[t]) = 1
    BY <1>1, <1>4
  <2>2. Q[1] = t /\ Q[2] = 1
    OBVIOUS
  <2>3. FrameAt(Q)' = stack'[t][1]
    BY <2>1, <2>2 DEF FrameAt
  <2> QED BY <1>1, <1>4, <2>1, <2>2, <2>3 DEF Top
<1>10. Q \notin LiveFrames
  BY <1>6, <1>9
<1>11. Changed(t) = {Q}
  BY <1>7, <1>8, <1>10 DEF Changed
<1>12. Outermost(t) /\ ~Idle(t)'
  BY <1>1, <1>4, <1>5 DEF Outermost, Idle
<1> QED BY <1>2, <1>4, <1>7, <1>8, <1>9, <1>10, <1>11, <1>12

\* ... with an operation of its own: nobody else uses the variable that it sets.
LEMMA CallKeeps ==
  ASSUME CoreInv, FieldsInv, RetainsInv,
         NEW t \in Thread, NEW g \in Frame, NEW used \in SUBSET Var, Call(t, <<g>>, used),
         NEW Q, Q = <<t, 1>>,
         g.fn \in {"copy", "release"}, g.fn = "copy" => IsVar(g.dest),
         \A v \in used : var[v] # NULL \/ \A u \in Thread : v \notin busy[u],
         \A v \in Var : var'[v] = var[v] \/ \A u \in Thread : v \notin busy[u],
         mem' = [a \in Addr |-> mem'[a]], \A a \in Addr : a # Inner[t] => mem'[a] = mem[a],
         scope' = scope, retains' = retains, FrameInv(Q)'
  PROVE  /\ StepKept(t) /\ HeapInv' /\ StackInv' /\ CallsInv' /\ FieldsInv' /\ RetainsInv'
         /\ \A a \in Heap : mem'[a] = mem[a] /\ FieldOwners(a)' = FieldOwners(a)
                             /\ StackOwners(a)' = StackOwners(a) /\ Held(a)' = Held(a) /\ Held(a) \in Nat
<1>1. /\ Idle(t)
      /\ stack' \in [Thread -> Seq(Frame)] /\ busy' = [busy EXCEPT ![t] = used]
      /\ LiveFrames' = LiveFrames \cup {Q} /\ Q \notin LiveFrames
      /\ FrameAt(Q)' = g
      /\ \A p \in LiveFrames : p # Top(t) /\ FrameAt(p)' = FrameAt(p)
      /\ \A u \in Thread : u # t => stack'[u] = stack[u]
      /\ Q = Top(t)' /\ Q[1] = t /\ Q[2] = 1 /\ Changed(t) = {Q} /\ Outermost(t)
  BY Called
<1>2. CallsKept(t)
  BY <1>1 DEF CallsKept
<1>3. ProgramKept(t)
  <2>1. busy \in [Thread -> SUBSET Var]
    BY DEF CoreInv, ProgramInv
  <2>2. \A u \in Thread : busy'[u] = busy[u] \/ (u = t /\ Outermost(t))
    BY <1>1, <2>1
  <2>3. busy'[t] = used
    BY <1>1, <2>1
  <2>4. \A v \in Var : var'[v] = var[v] \/ (Outermost(t) /\ \A u \in Thread : u # t => v \notin busy[u])
    BY <1>1
  <2> QED BY <2>2, <2>3, <2>4 DEF ProgramKept
<1>4. MemKept(t) /\ (\A b \in Byref \cup {GlobalBlock} : mem'[b] = mem[b]) /\ \A a \in Heap : mem'[a] = mem[a]
  <2>1. PICK c : c = NULL
    OBVIOUS
  <2>2. c \in Heap \cup {NULL} /\ c \notin Heap
    BY <2>1, Apart
  <2>3. \A a \in Addr : a # c /\ a # Inner[t] => mem'[a] = mem[a]
    OBVIOUS
  <2>4. \A a \in Heap : a # c
    BY <2>2
  <2> QED BY <1>1, <2>2, <2>3, <2>4, OneCell
<1>5. StepKept(t)
  BY <1>2, <1>3, <1>4 DEF StepKept
<1>6. HeapInv'
  BY <1>4 DEF CoreInv, HeapInv
<1>7. StackInv'
  BY <1>4, <1>5, StackInvKept
<1>8. CallsInv'
  <2>1. \A a \in Heap : ~(Disposes(FrameAt(Q), a)')
    BY <1>1 DEF Disposes
  <2>2. \A p \in Changed(t) : FrameInv(p)'
    BY <1>1
  <2>3. \A a \in Heap : mem'[a].kind = "block" /\ mem'[a].isa = "stack" =>
          mem[a].kind = "block" /\ mem[a].isa = "stack"
    BY <1>4
  <2>4. \A a \in Heap : mem'[a].kind # "free" /\ mem'[a].dying => mem[a].kind # "free" /\ mem[a].dying
    BY <1>4
  <2>5. \A p \in Changed(t), a \in Heap : ~(Disposes(FrameAt(p), a)')
    BY Zenon, <1>1, <2>1
  <2> QED BY Zenon, <1>1, <1>5, <2>2, <2>3, <2>4, <2>5, CallsInvKept
<1>9. HelpedFields' = HelpedFields
  <2>1. ASSUME NEW x PROVE x \in HelpedFields' <=> x \in HelpedFields
    <3>1. x \in HelpedFields' <=> IsField(x)' /\ \A p \in LiveFrames' : ~Withholds(FrameAt(p), x)'
      BY DEF HelpedFields, IsField, IsBlock
    <3>2. x \in HelpedFields <=> IsField(x) /\ \A p \in LiveFrames : ~Withholds(FrameAt(p), x)
      BY HelpedShape
    <3>3. IsField(x)' <=> IsField(x)
      BY <1>4 DEF IsField, IsBlock
    <3>4. \A p \in LiveFrames : Withholds(FrameAt(p), x)' <=> Withholds(FrameAt(p), x)
      BY <1>1 DEF Withholds, ToField
    <3>5. ~(Withholds(FrameAt(Q), x)')
      <4>1. g.fn = "copy" => g.dest # ToField(x[1], x[2])
        BY DEF IsVar, ToField
      <4> QED BY <1>1, <4>1 DEF Withholds, ToField
    <3> QED BY Zenon, <1>1, <3>1, <3>2, <3>3, <3>4, <3>5
  <2> QED BY <2>1
<1>10. FieldsInv' /\ RetainsInv' /\ \A a : FieldOwners(a)' = FieldOwners(a)
  <2>1. ASSUME NEW x \in HelpedFields PROVE FieldKept(x)
    <3>1. x[1] \in Heap
      BY HelpedShape DEF IsField, IsBlock
    <3> QED BY <1>4, <3>1 DEF FieldKept
  <2>2. /\ FieldsInv'
        /\ \A a : FieldOwners(a)' = FieldOwners(a)
        /\ \A o : ObjectFields(o)' = ObjectFields(o)
    BY <1>5, <1>9, <2>1, FieldsSame
  <2> QED BY <2>2, RetainsSame
<1>11. ASSUME NEW a \in Heap
       PROVE  StackOwners(a)' = StackOwners(a) /\ Held(a)' = Held(a) /\ Held(a) \in Nat
  <2>1. \A y \in LiveFrames' : y \notin LiveFrames \/ y = Top(t) =>
          ~(FrameAt(y)'.fn = "byrefCopy" /\ FrameAt(y)'.pc = "publish")
    BY Zenon, <1>1
  <2>2. \A b \in Byref : mem'[b].forwarding = mem[b].forwarding
    BY <1>4
  <2>3. StackOwners(a)' = StackOwners(a)
    BY <1>1, <1>5, <2>1, <2>2, StackOwnersKept
  <2>4. Held(a)' = Held(a) /\ Held(a) \in Nat
    BY <1>4 DEF Held, CoreInv, HeapInv, HeapBlock, HeapByref, FreeCell
  <2> QED BY <2>3, <2>4
<1> QED BY <1>4, <1>5, <1>6, <1>7, <1>8, <1>10, <1>11

\* the Blocks that a thread can name
LEMMA SourceShape ==
  ASSUME CoreInv, ~SharedFrame, NEW t \in Thread, NEW s \in Source(t)
  PROVE  \/ /\ t = Main /\ scope = "open" /\ s.block \in Literal /\ s.reads = {}
            /\ mem[s.block] = LiteralCell(s.block)
         \/ \E w \in Var : /\ s.block = var[w] /\ s.reads = {w} /\ var[w] # NULL
                           /\ var[w] = GlobalBlock \/ Whole(var[w])
<1>1. CASE \E l \in Literal : InFrame(t) /\ s = [block |-> l, reads |-> {}]
  <2>1. PICK l \in Literal : InFrame(t) /\ s = [block |-> l, reads |-> {}]
    BY Zenon, <1>1
  <2>2. t = Main /\ scope = "open" /\ s.block = l /\ s.reads = {}
    BY <2>1 DEF InFrame
  <2>3. mem[l] = LiteralCell(l)
    BY <2>2 DEF CoreInv, StackInv
  <2> QED BY <2>2, <2>3
<1>2. CASE \E w \in Var : var[w] # NULL /\ s = [block |-> var[w], reads |-> {w}]
  <2>1. PICK w \in Var : var[w] # NULL /\ s = [block |-> var[w], reads |-> {w}]
    BY Zenon, <1>2
  <2>2. var[w] \in Heap \cup {GlobalBlock, NULL}
    BY DEF CoreInv, ProgramInv
  <2>3. var[w] \in Heap => Whole(var[w])
    BY HeldIsWhole DEF CoreInv
  <2> QED BY <2>1, <2>2, <2>3
<1> QED BY <1>1, <1>2 DEF Source

\* The operation of t sets the variable v and reads what s says.
LEMMA CopyCall ==
  ASSUME IInv, NEW t \in Thread, NEW a \in Pointer, NEW v \in EmptyVars, NEW reads,
         reads = {} \/ \E w \in Var : reads = {w} /\ var[w] # NULL,
         Call(t, <<CopyFrame(a, ToVar(v))>>, reads \cup {v}),
         mem' = [b \in Addr |-> mem'[b]], \A b \in Addr : b # Inner[t] => mem'[b] = mem[b],
         UNCHANGED <<var, scope, retains, written>>,
         CopyArg(t, a)', mem'[Inner[t]] = FreeCell \/ Mirrors(t)'
  PROVE  IInv' /\ StepKept(t) /\ NothingMoves(t)
<1>1. CoreInv /\ FieldsInv /\ RetainsInv
  BY DEF IInv
<1>2. PICK g, used, Q : g = CopyFrame(a, ToVar(v)) /\ used = reads \cup {v} /\ Q = <<t, 1>>
  BY Zenon
<1>3. v \in Var /\ var[v] = NULL /\ \A u \in Thread : v \notin busy[u]
  BY DEF EmptyVars
<1>4. g \in Frame /\ g.fn = "copy" /\ g.arg = a /\ g.dest = ToVar(v) /\ IsVar(g.dest) /\ g.dest.var = v
  <2>1. ToVar(v) \in Dest /\ IsVar(ToVar(v)) /\ ToVar(v).var = v
    BY <1>3 DEF ToVar, IsVar, Dest
  <2> QED BY <1>2, <2>1 DEF Frame, CopyFrame
<1>5. used \in SUBSET Var /\ v \in used /\ \A w \in used : var[w] # NULL \/ \A u \in Thread : w \notin busy[u]
  BY <1>2, <1>3
<1>6. Call(t, <<g>>, used)
  BY <1>2
<1>7. /\ Idle(t) /\ ~Idle(t)' /\ busy' = [busy EXCEPT ![t] = used]
      /\ LiveFrames' = LiveFrames \cup {Q} /\ FrameAt(Q)' = g /\ Q \notin LiveFrames
      /\ Q[1] = t /\ Q[2] = 1 /\ Changed(t) = {Q} /\ \A u \in Thread : u # t => stack'[u] = stack[u]
  BY <1>1, <1>2, <1>4, <1>5, <1>6, Called
<1>8. busy \in [Thread -> SUBSET Var] /\ busy'[t] = used /\ \A u \in Thread : u # t => busy'[u] = busy[u]
  BY <1>1, <1>7 DEF CoreInv, ProgramInv
<1>9. FrameInv(Q)'
  <2>1. DestInv(Q)'
    BY <1>3, <1>4, <1>5, <1>7, <1>8 DEF DestInv
  <2>2. CopyInv(Q)'
    BY <1>4, <1>7, <2>1 DEF CopyInv
  <2> QED BY <1>4, <1>7, <2>2 DEF FrameInv, CopyHelperInv, ByrefCopyInv, ReleaseInv
<1>10. /\ StepKept(t) /\ HeapInv' /\ StackInv' /\ CallsInv' /\ FieldsInv' /\ RetainsInv'
       /\ \A b \in Heap : mem'[b] = mem[b] /\ FieldOwners(b)' = FieldOwners(b)
                             /\ StackOwners(b)' = StackOwners(b) /\ Held(b)' = Held(b) /\ Held(b) \in Nat
  <2>1. g.fn \in {"copy", "release"} /\ (g.fn = "copy" => IsVar(g.dest))
    BY <1>4
  <2>2. \A w \in Var : var'[w] = var[w] \/ \A u \in Thread : w \notin busy[u]
    OBVIOUS
  <2> QED BY <1>1, <1>2, <1>4, <1>5, <1>6, <1>9, <2>1, <2>2, CallKeeps
<1>11. ProgramInv'
  <2>1. ASSUME NEW u \in Thread
        PROVE  /\ Idle(u)' => busy'[u] = {} /\ mem'[Inner[u]] = FreeCell
               /\ mem'[Inner[u]] = FreeCell \/ Mirrors(u)'
    <3>1. CASE u = t
      BY <1>7, <3>1
    <3>2. CASE u # t
      <4>1. Inner[u] \in Addr /\ Inner[u] # Inner[t]
        BY <3>2, Apart DEF Addr
      <4>2. mem'[Inner[u]] = mem[Inner[u]] /\ busy'[u] = busy[u] /\ (Idle(u)' => Idle(u))
        BY <1>7, <1>8, <3>2, <4>1 DEF Idle
      <4>3. /\ Idle(u) => busy[u] = {} /\ mem[Inner[u]] = FreeCell
            /\ mem[Inner[u]] = FreeCell \/ Mirrors(u)
        BY <1>1 DEF CoreInv, ProgramInv
      <4> QED BY <1>1, <1>10, <4>2, <4>3, MirrorKept
    <3> QED BY <3>1, <3>2
  <2>2. busy' \in [Thread -> SUBSET Var]
    BY <1>5, <1>7, <1>8
  <2>3. \A w \in Var : var[w] \in Heap => mem'[var[w]].kind = "block"
    BY <1>1, <1>10 DEF CoreInv, ProgramInv
  <2> QED BY <1>1, <2>1, <2>2, <2>3 DEF CoreInv, ProgramInv
<1>12. ASSUME NEW b \in Heap PROVE Settles(b)
  <2>1. FrameOwners(b)' = (FrameOwners(b) \ {Top(t)}) \cup {p \in Changed(t) : FrameOwns(FrameAt(p), b)'}
    BY <1>1, <1>10, FrameOwnersStep
  <2>2. ~(FrameOwns(FrameAt(Q), b)')
    BY <1>4, <1>7 DEF FrameOwns
  <2>3. Top(t) \notin FrameOwners(b)
    <3>1. Top(t) \notin LiveFrames
      BY Zenon, <1>1, <1>4, <1>5, <1>6, Called
    <3> QED BY <3>1 DEF FrameOwners
  <2>4. FrameOwners(b)' = FrameOwners(b)
    BY <1>7, <2>1, <2>2, <2>3
  <2>5. Grows(FrameOwners(b), FrameOwners(b)', 0) /\ Grows(StackOwners(b), StackOwners(b)', 0)
    BY <1>10, <2>4 DEF Grows
  <2>6. Held(b)' = Held(b) + 0 + 0
    BY <1>10
  <2> QED BY <2>5, <2>6 DEF Settles
<1>13. OwnersInv'
  <2>1. \A b \in Heap : VarOwners(b)' = VarOwners(b)
    BY DEF VarOwners
  <2> QED BY <1>1, <1>10, <1>12, <2>1, CallsSettle
<1>14. NothingMoves(t)
  <2>1. ~(Moves(FrameAt(Q))')
    BY <1>4, <1>7 DEF Moves
  <2>2. \A b \in Byref : mem'[b] = mem[b]
    BY Apart DEF Addr
  <2> QED BY <1>7, <1>10, <2>1, <2>2 DEF NothingMoves
<1> QED BY <1>10, <1>11, <1>13, <1>14 DEF IInv, CoreInv

LEMMA CopyBlockStep ==
  ASSUME IInv, ~SharedFrame, NEW t \in Thread, CopyBlock(t)
  PROVE  IInv' /\ StepKept(t) /\ NothingMoves(t)
<1>1. PICK s \in Source(t), v \in EmptyVars :
        Call(t, <<CopyFrame(s.block, ToVar(v))>>, s.reads \cup {v})
  BY DEF CopyBlock
<1>2. UNCHANGED <<mem, var, scope, retains, written>>
  BY DEF CopyBlock
<1>3. CoreInv
  BY DEF IInv
<1>4. PICK a, reads : a = s.block /\ reads = s.reads
  OBVIOUS
<1>5. v \in Var
  BY DEF EmptyVars
<1>6. \/ t = Main /\ scope = "open" /\ a \in Literal /\ reads = {} /\ mem[a] = LiteralCell(a)
      \/ \E w \in Var : /\ a = var[w] /\ reads = {w} /\ var[w] # NULL
                        /\ var[w] = GlobalBlock \/ Whole(var[w])
  BY <1>3, <1>4, SourceShape
<1>7. a \in Pointer /\ (reads = {} \/ \E w \in Var : reads = {w} /\ var[w] # NULL)
  BY <1>6 DEF Pointer, Addr, Stack, Whole, IsBlock
<1>8. Idle(t) /\ busy'[t] = reads \cup {v}
  <2>1. busy \in [Thread -> SUBSET Var]
    BY <1>3 DEF CoreInv, ProgramInv
  <2> QED BY <1>1, <1>4, <2>1 DEF Call
<1>9. CopyArg(t, a)'
  <2>1. CASE t = Main /\ scope = "open" /\ a \in Literal
    BY <1>2, <2>1 DEF CopyArg, StackBlock
  <2>2. ASSUME NEW w \in Var, a = var[w], reads = {w}, var[w] = GlobalBlock \/ Whole(var[w])
        PROVE  CopyArg(t, a)'
    <3>1. w \in busy'[t] /\ var'[w] = a
      BY <1>2, <1>8, <2>2
    <3>2. Borrowed(t, a)'
      BY <3>1 DEF Borrowed
    <3> QED BY <1>2, <2>2, <3>2 DEF CopyArg, Whole, IsBlock
  <2> QED BY <1>6, <2>1, <2>2
<1>10. mem' = [b \in Addr |-> mem'[b]] /\ mem'[Inner[t]] = FreeCell
  BY <1>2, <1>3, <1>8 DEF CoreInv, StackInv, ProgramInv
<1> QED BY Zenon, <1>1, <1>2, <1>4, <1>7, <1>9, <1>10, CopyCall

LEMMA CopyNestedStep ==
  ASSUME IInv, ~SharedFrame, NEW t \in Thread, CopyNested(t)
  PROVE  IInv' /\ StepKept(t) /\ NothingMoves(t)
<1>1. PICK s \in Source(t), v \in EmptyVars :
        /\ mem[s.block].where # "global"
        /\ mem' = [mem EXCEPT ![Inner[t]] =
             Block("stack", "stack", 0, mem[s.block].lit, mem[s.block].fields)]
        /\ Call(t, <<CopyFrame(Inner[t], ToVar(v))>>, s.reads \cup {v})
  BY Zenon DEF CopyNested
<1>2. UNCHANGED <<var, scope, retains, written>>
  BY DEF CopyNested
<1>3. CoreInv
  BY DEF IInv
<1>4. PICK a, reads, l, fs, c : /\ a = s.block /\ reads = s.reads /\ l = mem[a].lit /\ fs = mem[a].fields
                                /\ c = Inner[t]
  OBVIOUS
<1>5. v \in Var
  BY DEF EmptyVars
<1>6. /\ c \in Addr /\ mem = [b \in Addr |-> mem[b]] /\ c \notin Heap /\ c \notin Literal
      /\ \A b \in Heap : b \in Addr
  BY <1>3, <1>4, Apart DEF CoreInv, StackInv, Addr
<1>7. /\ mem'[c] = Block("stack", "stack", 0, l, fs) /\ mem' = [b \in Addr |-> mem'[b]]
      /\ \A b \in Addr : b # c => mem'[b] = mem[b]
  <2>1. mem' = [mem EXCEPT ![c] = Block("stack", "stack", 0, l, fs)]
    BY <1>1, <1>4
  <2> QED BY <1>6, <2>1
<1>8. mem[GlobalBlock].where = "global"
  BY <1>3 DEF CoreInv, StackInv, Block
<1>9. \/ t = Main /\ scope = "open" /\ a \in Literal /\ reads = {} /\ mem[a] = LiteralCell(a)
      \/ \E w \in Var : a = var[w] /\ reads = {w} /\ var[w] # NULL /\ Whole(var[w])
  BY <1>1, <1>3, <1>4, <1>8, SourceShape
<1>10. c \in Pointer /\ (reads = {} \/ \E w \in Var : reads = {w} /\ var[w] # NULL)
  BY <1>6, <1>9 DEF Pointer
<1>11. busy'[t] = reads \cup {v}
  <2>1. busy \in [Thread -> SUBSET Var]
    BY <1>3 DEF CoreInv, ProgramInv
  <2> QED BY <1>1, <1>4, <2>1 DEF Call
<1>12. CopyArg(t, c)'
  BY <1>4, <1>7 DEF CopyArg, StackBlock, Block
<1>13. Mirrors(t)'
  <2>1. CASE t = Main /\ scope = "open" /\ a \in Literal /\ mem[a] = LiteralCell(a)
    <3>1. l = a /\ fs = [i \in DOMAIN Captures[a] |-> Captures[a][i].of]
      BY <1>4, <2>1 DEF LiteralCell, Block
    <3>2. mem'[c] = LiteralCell(a)
      BY <1>7, <3>1 DEF LiteralCell
    <3> QED BY <1>2, <1>4, <2>1, <3>2 DEF Mirrors, LiteralCell
  <2>2. ASSUME NEW w \in Var, a = var[w], reads = {w}, Whole(var[w]) PROVE Mirrors(t)'
    <3>1. a \in Heap /\ mem'[a] = mem[a] /\ w \in busy'[t] /\ var'[w] = a
      BY <1>2, <1>6, <1>7, <1>11, <2>2 DEF Whole, IsBlock
    <3>2. IsBlock(a)' /\ mem'[a].lit = l /\ mem'[a].fields = fs
      BY <1>4, <2>2, <3>1 DEF Whole, IsBlock
    <3> QED BY <1>4, <1>7, <3>1, <3>2 DEF Mirrors
  <2> QED BY <1>9, <2>1, <2>2
<1> QED BY Zenon, <1>1, <1>2, <1>4, <1>7, <1>10, <1>12, <1>13, CopyCall

LEMMA DropBlockStep ==
  ASSUME IInv, NEW t \in Thread, DropBlock(t)
  PROVE  IInv' /\ StepKept(t) /\ NothingMoves(t)
<1>1. PICK v \in Var :
        /\ var[v] # NULL
        /\ \A u \in Thread : v \notin busy[u]
        /\ var' = [var EXCEPT ![v] = NULL]
        /\ Call(t, <<ReleaseFrame(var[v])>>, {})
  BY Zenon DEF DropBlock
<1>2. UNCHANGED <<mem, scope, retains, written>>
  BY DEF DropBlock
<1>3. CoreInv /\ FieldsInv /\ RetainsInv
  BY DEF IInv
<1>4. PICK g, c, Q : g = ReleaseFrame(c) /\ c = var[v] /\ Q = <<t, 1>>
  BY Zenon
<1>5. /\ var \in [Var -> Heap \cup {GlobalBlock, NULL}] /\ busy \in [Thread -> SUBSET Var]
      /\ c = GlobalBlock \/ IsBlock(c)
  BY <1>1, <1>3, <1>4 DEF CoreInv, ProgramInv, IsBlock
<1>6. g \in Frame /\ g.fn = "release" /\ g.arg = c
  <2>1. c \in Pointer
    BY <1>5 DEF Pointer, Addr, IsBlock
  <2> QED BY <1>4, <2>1 DEF Frame, ReleaseFrame
<1>7. PICK used \in SUBSET Var : used = {}
  BY Zenon
<1>8. Call(t, <<g>>, used)
  BY <1>1, <1>4, <1>7
<1>9. /\ Idle(t) /\ ~Idle(t)' /\ busy' = [busy EXCEPT ![t] = used]
      /\ LiveFrames' = LiveFrames \cup {Q} /\ FrameAt(Q)' = g /\ Q \notin LiveFrames
      /\ Q[1] = t /\ Q[2] = 1 /\ Changed(t) = {Q} /\ \A u \in Thread : u # t => stack'[u] = stack[u]
      /\ \A p \in LiveFrames : p # Top(t)
  BY <1>3, <1>4, <1>6, <1>8, Called
<1>10. busy'[t] = {} /\ \A u \in Thread : u # t => busy'[u] = busy[u]
  BY <1>5, <1>7, <1>9
<1>11. FrameInv(Q)'
  <2>1. ReleaseInv(Q)'
    BY <1>2, <1>5, <1>6, <1>9 DEF ReleaseInv, IsBlock
  <2> QED BY <1>6, <1>9, <2>1 DEF FrameInv, CopyInv, CopyHelperInv, ByrefCopyInv
<1>12. /\ StepKept(t) /\ HeapInv' /\ StackInv' /\ CallsInv' /\ FieldsInv' /\ RetainsInv'
       /\ \A b \in Heap : mem'[b] = mem[b] /\ FieldOwners(b)' = FieldOwners(b)
                             /\ StackOwners(b)' = StackOwners(b) /\ Held(b)' = Held(b) /\ Held(b) \in Nat
  <2>1. g.fn \in {"copy", "release"} /\ (g.fn = "copy" => IsVar(g.dest))
    BY <1>6
  <2>2. \A w \in Var : var'[w] = var[w] \/ \A u \in Thread : w \notin busy[u]
    BY <1>1, <1>5
  <2>3. \A w \in used : var[w] # NULL \/ \A u \in Thread : w \notin busy[u]
    BY <1>7
  <2>4. mem' = [b \in Addr |-> mem'[b]] /\ \A b \in Addr : b # Inner[t] => mem'[b] = mem[b]
    BY <1>2, <1>3 DEF CoreInv, StackInv
  <2> QED BY <1>2, <1>3, <1>4, <1>6, <1>8, <1>11, <2>1, <2>2, <2>3, <2>4, CallKeeps
<1>13. ProgramInv'
  <2>1. ASSUME NEW u \in Thread
        PROVE  /\ Idle(u)' => busy'[u] = {} /\ mem'[Inner[u]] = FreeCell
               /\ mem'[Inner[u]] = FreeCell \/ Mirrors(u)'
    <3>0. /\ Idle(u) => busy[u] = {} /\ mem[Inner[u]] = FreeCell
          /\ mem[Inner[u]] = FreeCell \/ Mirrors(u)
      BY <1>3 DEF CoreInv, ProgramInv
    <3>1. CASE u = t
      BY <1>2, <1>9, <3>0, <3>1
    <3>2. CASE u # t
      <4>1. mem'[Inner[u]] = mem[Inner[u]] /\ busy'[u] = busy[u] /\ (Idle(u)' => Idle(u))
        BY <1>2, <1>9, <1>10, <3>2 DEF Idle
      <4>2. \A w \in busy[u] : var'[w] = var[w]
        BY <1>1, <1>5
      <4> QED BY <1>3, <1>12, <3>0, <4>1, <4>2, MirrorKept
    <3> QED BY <3>1, <3>2
  <2>2. busy' \in [Thread -> SUBSET Var] /\ var' \in [Var -> Heap \cup {GlobalBlock, NULL}]
    BY <1>1, <1>5, <1>7, <1>9
  <2>3. \A w \in Var : var'[w] \in Heap => mem'[var'[w]].kind = "block"
    <3>1. \A w \in Var : var[w] \in Heap => mem[var[w]].kind = "block"
      BY <1>3 DEF CoreInv, ProgramInv
    <3>2. \A w \in Var : var'[w] = var[w] \/ var'[w] = NULL
      BY <1>1, <1>5
    <3> QED BY <1>2, <3>1, <3>2, Apart
  <2> QED BY <1>2, <1>3, <2>1, <2>2, <2>3 DEF CoreInv, ProgramInv
<1>14. ASSUME NEW b \in Heap
       PROVE  \E w, x, p, s :
                /\ Grows(VarOwners(b), VarOwners(b)', w) /\ Grows(FieldOwners(b), FieldOwners(b)', x)
                /\ Grows(FrameOwners(b), FrameOwners(b)', p) /\ Grows(StackOwners(b), StackOwners(b)', s)
                /\ Held(b)' = Held(b) + w + x + p + s
  <2>1. PICK e, k : e = (IF b = c THEN 1 ELSE 0) /\ k = (IF b = c THEN -1 ELSE 0)
    OBVIOUS
  <2>2. Grows(VarOwners(b), VarOwners(b)', k)
    <3>1. VarOwners(b)' = VarOwners(b) \ {v}
      <4>1. \A w \in Var : var'[w] = b <=> var[w] = b /\ w # v
        BY <1>1, <1>5, Apart
      <4> QED BY <4>1 DEF VarOwners
    <3>2. v \in VarOwners(b) <=> b = c
      BY <1>4 DEF VarOwners
    <3> QED BY <2>1, <3>1, <3>2 DEF Grows
  <2>3. Grows(FrameOwners(b), FrameOwners(b)', e)
    <3>1. FrameOwners(b)' = (FrameOwners(b) \ {Top(t)}) \cup {p \in Changed(t) : FrameOwns(FrameAt(p), b)'}
      BY <1>3, <1>12, FrameOwnersStep
    <3>2. FrameOwns(FrameAt(Q), b)' <=> b = c
      BY <1>6, <1>9 DEF FrameOwns
    <3>3. Top(t) \notin FrameOwners(b) /\ Q \notin FrameOwners(b)
      BY <1>9 DEF FrameOwners
    <3>4. FrameOwners(b)' = FrameOwners(b) \cup (IF b = c THEN {Q} ELSE {})
      BY <1>9, <3>1, <3>2, <3>3
    <3> QED BY <2>1, <3>3, <3>4 DEF Grows
  <2>4. Grows(FieldOwners(b), FieldOwners(b)', 0) /\ Grows(StackOwners(b), StackOwners(b)', 0)
    BY <1>12 DEF Grows
  <2>5. Held(b)' = Held(b) + k + 0 + e + 0
    <3>1. (e = 1 /\ k = -1) \/ (e = 0 /\ k = 0)
      BY <2>1
    <3> QED BY <1>12, <3>1
  <2> QED BY <2>2, <2>3, <2>4, <2>5
<1>15. OwnersInv'
  BY <1>3, <1>14, OwnersSettle
<1>16. NothingMoves(t)
  <2>1. ~(Moves(FrameAt(Q))')
    BY <1>6, <1>9 DEF Moves
  <2> QED BY <1>2, <1>9, <2>1 DEF NothingMoves
<1> QED BY <1>12, <1>13, <1>15, <1>16 DEF IInv, CoreInv

\* A write goes to the copy on the heap, which is kept meanwhile, or to the stack
\* variable of the open scope.
LEMMA WriteTarget ==
  ASSUME IInv, WellCaptured, ~SharedFrame, NEW t \in Thread, WriteVariable(t)
  PROVE  \E b \in Byref, c \in Addr :
           /\ mem' = [mem EXCEPT ![c].val = 1 - written[b]]
           /\ written' = [written EXCEPT ![b] = 1 - written[b]]
           /\ \/ c = b /\ scope = "open"
              \/ IsByref(c) /\ ~mem[c].dying /\ mem[c].of = b
           /\ c = b => mem[b].forwarding = b
           /\ t = Main \/ (IsByref(c) /\ FieldOwners(c) # {})
<1>1. CoreInv /\ FieldsInv
  BY DEF IInv
<1>2. ASSUME NEW b \in Byref, scope = "open", Write(b)
      PROVE  \E c \in Addr :
               /\ mem' = [mem EXCEPT ![c].val = 1 - written[b]]
               /\ written' = [written EXCEPT ![b] = 1 - written[b]]
               /\ \/ c = b
                  \/ IsByref(c) /\ ~mem[c].dying /\ mem[c].of = b
               /\ c = b => mem[b].forwarding = b
  <2>1. PICK c : c = mem[b].forwarding
    OBVIOUS
  <2>2. /\ mem[b] = ByrefCell("stack", 0, mem[b].forwarding, b, mem[b].val)
        /\ mem[b].forwarding \in Heap \cup {b}
        /\ mem[b].forwarding # b => IsByref(mem[b].forwarding) /\ mem[mem[b].forwarding].of = b
    BY Zenon, <1>1, <1>2 DEF CoreInv, StackInv
  <2>3. mem[b].of = b
    BY <2>2 DEF ByrefCell
  <2>4. c # b => ~mem[c].dying
    <3>1. SUFFICES ASSUME c # b PROVE ~mem[c].dying
      OBVIOUS
    <3>2. c \in Heap
      BY <2>1, <2>2, <3>1
    <3>3. b \in StackOwners(c)
      BY <1>2, <2>1 DEF StackOwners, StackOwns
    <3>4. StackOwners(c) # {}
      BY <3>3
    <3> QED BY <1>1, <3>2, <3>4, Owned DEF CoreInv
  <2>5. c \in Addr
    BY <2>1, <2>2 DEF Addr, Stack
  <2>6. mem' = [mem EXCEPT ![c].val = 1 - written[b]] /\ written' = [written EXCEPT ![b] = 1 - written[b]]
    BY <1>2, <2>1, <2>3 DEF Write
  <2> QED BY Zenon, <2>1, <2>2, <2>4, <2>5, <2>6
<1>3. CASE InFrame(t) /\ t = Main /\ \E b \in Byref : Write(b)
  <2>1. scope = "open"
    BY <1>3 DEF InFrame
  <2> QED BY Zenon, <1>2, <1>3, <2>1
<1>4. CASE \E s \in Source(t) : \E i \in ByrefFields(mem[s.block]) : Write(mem[s.block].fields[i])
  <2>1. PICK s \in Source(t) : \E i \in ByrefFields(mem[s.block]) : Write(mem[s.block].fields[i])
    BY <1>4
  <2>2. PICK i \in ByrefFields(mem[s.block]) : Write(mem[s.block].fields[i])
    BY <2>1
  <2>3. PICK a, p : a = s.block /\ p = mem[a].fields[i]
    OBVIOUS
  <2>4. i \in DOMAIN mem[a].fields /\ FlagsOf(mem[a], i) \cap BLOCK_FIELD_IS_BYREF # {} /\ Write(p)
    BY <2>2, <2>3 DEF ByrefFields
  <2>5. CASE t = Main /\ scope = "open" /\ a \in Literal /\ mem[a] = LiteralCell(a)
    <3>1. mem[a].lit = a /\ mem[a].fields = [j \in DOMAIN Captures[a] |-> Captures[a][j].of]
      BY <2>5 DEF LiteralCell, Block
    <3>2. i \in DOMAIN Captures[a] /\ p = Captures[a][i].of /\ FlagsOf(mem[a], i) = Captures[a][i].flags
      BY <2>3, <2>4, <3>1 DEF FlagsOf
    <3>3. p \in Byref
      BY <2>4, <2>5, <3>2 DEF WellCaptured
    <3> QED BY Zenon, <1>2, <2>4, <2>5, <3>3
  <2>6. CASE Whole(a)
    <3>1. a \in Heap /\ mem[a].kind = "block" /\ <<a, i>> \in HelpedFields
      BY <2>4, <2>6 DEF Whole, IsBlock
    <3>2. mem[a] \in HeapBlock /\ Len(mem[a].fields) = Len(Captures[mem[a].lit])
      BY <1>1, <3>1 DEF CoreInv, HeapInv, FreeCell, HeapByref
    <3>3. PICK l \in Literal : l = mem[a].lit
      BY <3>2 DEF HeapBlock
    <3>4. i \in DOMAIN Captures[l]
      <4>1. mem[a].fields \in Seq(Pointer) /\ Captures[l] \in Seq([flags : SUBSET Bit, of : Pointer])
        BY Zenon, <3>2, ProgramAssumption DEF HeapBlock
      <4> QED BY <2>4, <3>2, <3>3, <4>1
    <3>5. KindOf(<<a, i>>) = "byref" /\ Field(<<a, i>>) = p
      <4>1. FlagsOf(mem[a], i) = Captures[l][i].flags
        BY <3>3 DEF FlagsOf
      <4>2. AssignKind(Captures[l][i].flags) = "byref"
        BY <2>4, <3>4, <4>1 DEF WellCaptured
      <4> QED BY <2>3, <4>1, <4>2 DEF KindOf, Field
    <3>6. IsByref(p)
      BY <1>1, <3>1, <3>5 DEF FieldsInv, FieldOk
    <3>7. p \in Heap /\ mem[p].kind = "byref" /\ mem[p] \in HeapByref /\ mem[p].forwarding = p
      BY <1>1, <3>6 DEF IsByref, CoreInv, HeapInv, FreeCell, HeapBlock
    <3>8. PICK b \in Byref : b = mem[p].of
      BY <3>7 DEF HeapByref
    <3>9. ~mem[p].dying /\ FieldOwners(p) # {}
      <4>1. <<a, i>> \in FieldOwners(p)
        BY <3>1, <3>5 DEF FieldOwners
      <4>2. FieldOwners(p) # {}
        BY <4>1
      <4> QED BY <1>1, <3>7, <4>2, Owned DEF CoreInv
    <3>10. mem' = [mem EXCEPT ![p].val = 1 - written[b]] /\ written' = [written EXCEPT ![b] = 1 - written[b]]
      BY <2>4, <3>7, <3>8 DEF Write
    <3>11. p \in Addr
      BY <3>7 DEF Addr
    <3>12. p # b
      BY <3>7, Apart
    <3> QED BY Zenon, <3>6, <3>8, <3>9, <3>10, <3>11, <3>12
  <2>7. mem[a].fields = <<>> => FALSE
    BY <2>4
  <2>8. a # GlobalBlock
    BY <1>1, <2>7 DEF CoreInv, StackInv, Block
  <2> QED BY <1>1, <2>1, <2>3, <2>5, <2>6, <2>8, SourceShape
<1> QED BY <1>3, <1>4 DEF WriteVariable

LEMMA WriteVariableStep ==
  ASSUME IInv, WellCaptured, ~SharedFrame, NEW t \in Thread, WriteVariable(t)
  PROVE  IInv' /\ StepKept(t)
<1>1. CoreInv /\ FieldsInv /\ RetainsInv
  BY DEF IInv
<1>2. Idle(t) /\ UNCHANGED <<var, stack, busy, scope, retains>>
  BY DEF WriteVariable
<1>3. PICK b \in Byref, c \in Addr :
        /\ mem' = [mem EXCEPT ![c].val = 1 - written[b]]
        /\ written' = [written EXCEPT ![b] = 1 - written[b]]
        /\ \/ c = b /\ scope = "open"
           \/ IsByref(c) /\ ~mem[c].dying /\ mem[c].of = b
  BY WriteTarget
<1>4. PICK x : x = 1 - written[b]
  OBVIOUS
<1>5. x \in Value /\ written' \in [Byref -> Value]
  <2>1. written \in [Byref -> Value]
    BY <1>1 DEF CoreInv, ProgramInv
  <2>2. x \in Value
    BY <1>4, <2>1 DEF Value
  <2> QED BY <1>3, <1>4, <2>1, <2>2
<1>6. mem' = [a \in Addr |-> mem'[a]] /\ mem'[c] = [mem[c] EXCEPT !.val = x]
      /\ \A a \in Addr : a # c => mem'[a] = mem[a]
  <2>1. mem = [a \in Addr |-> mem[a]]
    BY <1>1 DEF CoreInv, StackInv
  <2>2. mem' = [mem EXCEPT ![c].val = x]
    BY <1>3, <1>4
  <2> QED BY <2>1, <2>2
<1>7. \/ /\ c \in Byref /\ c \notin Heap /\ scope = "open" /\ mem[c].kind = "byref"
         /\ mem'[c].kind = "byref" /\ mem'[c].of = mem[c].of /\ mem'[c].forwarding = mem[c].forwarding
      \/ /\ c \in Heap /\ mem[c] \in HeapByref /\ mem'[c] \in HeapByref /\ ~mem[c].dying /\ mem[c].kind = "byref"
         /\ mem'[c].kind = "byref" /\ mem'[c].of = mem[c].of /\ mem'[c].forwarding = mem[c].forwarding
         /\ mem'[c].count = mem[c].count /\ mem'[c].dying = mem[c].dying
  <2>1. CASE c = b /\ scope = "open"
    <3>1. mem[c] = ByrefCell("stack", 0, mem[c].forwarding, b, mem[c].val)
      BY Zenon, <1>1, <2>1 DEF CoreInv, StackInv
    <3>2. PICK fwd, v : fwd = mem[c].forwarding /\ v = mem[c].val
      OBVIOUS
    <3>3. mem[c] = [kind |-> "byref", where |-> "stack", count |-> 0, dying |-> FALSE,
                    forwarding |-> fwd, of |-> b, val |-> v]
      BY <3>1, <3>2 DEF ByrefCell
    <3>4. mem'[c] = [kind |-> "byref", where |-> "stack", count |-> 0, dying |-> FALSE,
                    forwarding |-> fwd, of |-> b, val |-> x]
      <4>1. PICK m, k : m = mem[c] /\ k = [m EXCEPT !.val = x]
        BY Zenon
      <4>2. k = [kind |-> "byref", where |-> "stack", count |-> 0, dying |-> FALSE,
                 forwarding |-> fwd, of |-> b, val |-> x]
        <5>1. m = [kind |-> "byref", where |-> "stack", count |-> 0, dying |-> FALSE,
                   forwarding |-> fwd, of |-> b, val |-> v]
          BY <3>3, <4>1
        <5>2. k = [m EXCEPT !.val = x]
          BY <4>1
        <5> QED BY Zenon, <5>1, <5>2
      <4> QED BY Zenon, <1>6, <4>1, <4>2
    <3> QED BY <2>1, <3>3, <3>4, Apart
  <2>2. CASE IsByref(c) /\ ~mem[c].dying
    <3>1. PICK m : m = mem[c]
      OBVIOUS
    <3>2. c \in Heap /\ m \in HeapByref /\ m.kind = "byref"
      BY <1>1, <2>2, <3>1 DEF IsByref, CoreInv, HeapInv, FreeCell, HeapBlock
    <3>3. m = [kind |-> m.kind, where |-> m.where, count |-> m.count, dying |-> m.dying,
               forwarding |-> m.forwarding, of |-> m.of, val |-> m.val]
      BY <3>2 DEF HeapByref
    <3>4. PICK k : k = [m EXCEPT !.val = x]
      BY Zenon
    <3>5. k = [kind |-> m.kind, where |-> m.where, count |-> m.count, dying |-> m.dying,
               forwarding |-> m.forwarding, of |-> m.of, val |-> x]
      BY <3>3, <3>4
    <3>6. k \in HeapByref
      BY <1>5, <3>2, <3>5 DEF HeapByref
    <3>7. mem'[c] = k
      BY <1>6, <3>1, <3>4
    <3> QED BY <2>2, <3>1, <3>2, <3>5, <3>6, <3>7
  <2> QED BY <1>3, <2>1, <2>2
<1>8. /\ \A a \in Heap : a \in Addr
      /\ \A l \in Literal : l \in Addr /\ l # c
      /\ \A u \in Thread : Inner[u] \in Addr /\ Inner[u] # c
      /\ GlobalBlock \in Addr /\ GlobalBlock # c
  <2>1. c \in Byref \/ c \in Heap
    BY <1>7
  <2> QED BY <2>1, Apart DEF Addr, Stack
<1>9. LiveFrames' = LiveFrames /\ (\A p : FrameAt(p)' = FrameAt(p)) /\ Top(t) \notin LiveFrames
  <2>1. Len(stack[t]) = 0
    BY <1>2 DEF Idle
  <2>2. Top(t) \notin LiveFrames
    BY <1>1, <2>1, LiveShape DEF CoreInv, Top
  <2> QED BY <1>2, <2>2 DEF LiveFrames, FrameAt
<1>10. Changed(t) = {}
  BY <1>9 DEF Changed
<1>11. CallsKept(t)
  BY <1>1, <1>2, <1>9 DEF CallsKept, CoreInv, CallsInv
<1>12. ProgramKept(t)
  <2>1. \A v \in busy'[t] : v \in busy[t]
    BY <1>2
  <2> QED BY <1>2, <2>1 DEF ProgramKept
<1>13. ASSUME NEW p \in LiveFrames
       PROVE  /\ FrameAt(p).fn = "copyHelper" =>
                   IsBlock(FrameAt(p).result) /\ FrameAt(p).result # c
              /\ Disposes(FrameAt(p), FrameAt(p).arg) => FrameAt(p).arg \in Heap /\ FrameAt(p).arg # c
  <2>1. FrameInv(p)
    BY <1>1 DEF CoreInv, CallsInv
  <2>2. PICK f : f = FrameAt(p)
    OBVIOUS
  <2>3. f.fn = "copyHelper" => IsBlock(f.result)
    BY <2>1, <2>2 DEF FrameInv, CopyHelperInv
  <2>4. Disposes(f, f.arg) => f.arg \in Heap /\ mem[f.arg].dying
    BY <2>1, <2>2 DEF FrameInv, ReleaseInv, Disposes, IsBlock, IsByref
  <2> QED BY <1>7, <2>2, <2>3, <2>4 DEF IsBlock
<1>14. MemKept(t)
  <2>1. \A a \in Heap : mem[a].kind # "free" /\ ~mem[a].dying => CellKept(a)
    BY Zenon, <1>6, <1>7, <1>8 DEF CellKept
  <2>2. \A l \in Literal : mem'[l] = mem[l]
    BY <1>6, <1>8
  <2>3. \A u \in Thread : mem'[Inner[u]] = mem[Inner[u]]
    BY <1>6, <1>8
  <2>4. \A a \in Byref : mem'[a].of = mem[a].of /\ mem'[a].forwarding = mem[a].forwarding
    <3>1. \A a \in Byref : a \in Addr
      BY DEF Addr, Stack
    <3> QED BY Zenon, <1>6, <1>7, <3>1
  <2>5. ASSUME NEW p \in LiveFrames
        PROVE  /\ FrameAt(p).fn = "copyHelper" => DraftKept(FrameAt(p).result, FrameAt(p).i)
               /\ Disposes(FrameAt(p), FrameAt(p).arg) => mem'[FrameAt(p).arg] = mem[FrameAt(p).arg]
    BY <1>6, <1>8, <1>13 DEF DraftKept, IsBlock
  <2> QED BY <2>1, <2>2, <2>3, <2>4, <2>5 DEF MemKept
<1>15. StepKept(t)
  BY <1>11, <1>12, <1>14 DEF StepKept
<1>16. HeapInv'
  <2>1. ASSUME NEW a \in Heap
        PROVE  /\ mem'[a] \in {FreeCell} \cup HeapBlock \cup HeapByref
               /\ mem'[a].kind = "block" => Len(mem'[a].fields) = Len(Captures[mem'[a].lit])
               /\ mem'[a].kind = "byref" => mem'[a].forwarding = a
               /\ mem'[a].kind # "free" => (mem'[a].dying <=> mem'[a].count = 0)
    <3>1. /\ mem[a] \in {FreeCell} \cup HeapBlock \cup HeapByref
          /\ mem[a].kind = "block" => Len(mem[a].fields) = Len(Captures[mem[a].lit])
          /\ mem[a].kind = "byref" => mem[a].forwarding = a
          /\ mem[a].kind # "free" => (mem[a].dying <=> mem[a].count = 0)
      BY <1>1 DEF CoreInv, HeapInv
    <3>2. CASE a # c
      BY <1>6, <1>8, <3>1, <3>2
    <3>3. CASE a = c
      BY <1>7, <3>1, <3>3
    <3> QED BY <3>2, <3>3
  <2> QED BY <2>1 DEF HeapInv
<1>17. StackInv'
  <2>1. \A a \in Byref : \/ mem'[a] = mem[a]
                         \/ scope # "closed" /\ \E y \in Value : mem'[a] = [mem[a] EXCEPT !.val = y]
    <3>1. \A a \in Byref : a \in Addr /\ a \notin Heap
      BY Apart DEF Addr, Stack
    <3> QED BY <1>5, <1>6, <1>7, <3>1
  <2> QED BY <1>1, <1>6, <1>8, <1>15, <2>1, StackInvKept
<1>18. ProgramInv'
  <2>1. \A u \in Thread : ThreadKept(u)
    BY <1>2, <1>6, <1>8 DEF ThreadKept, Idle
  <2>2. busy' \in [Thread -> SUBSET Var] /\ retains' = [o \in Object |-> retains'[o]]
    BY <1>1, <1>2 DEF CoreInv, ProgramInv
  <2> QED BY <1>1, <1>2, <1>5, <1>15, <2>1, <2>2, ProgramInvKept
<1>19. CallsInv'
  <2>1. \A a \in Heap : mem'[a].kind = "block" /\ mem'[a].isa = "stack" =>
          mem[a].kind = "block" /\ mem[a].isa = "stack"
    BY Zenon, <1>6, <1>7, <1>8
  <2>2. \A a \in Heap : mem'[a].kind # "free" /\ mem'[a].dying => mem[a].kind # "free" /\ mem[a].dying
    BY Zenon, <1>6, <1>7, <1>8
  <2> QED BY <1>1, <1>2, <1>10, <1>15, <2>1, <2>2, CallsInvKept
<1>20. \A a \in Heap : mem'[a].kind = "block" \/ mem[a].kind = "block" => mem'[a] = mem[a]
  BY Zenon, <1>6, <1>7, <1>8
<1>21. HelpedFields' = HelpedFields
  <2>1. ASSUME NEW y PROVE y \in HelpedFields' <=> y \in HelpedFields
    <3>1. y \in HelpedFields' <=> IsField(y)' /\ \A p \in LiveFrames' : ~Withholds(FrameAt(p), y)'
      BY DEF HelpedFields, IsField, IsBlock
    <3>2. y \in HelpedFields <=> IsField(y) /\ \A p \in LiveFrames : ~Withholds(FrameAt(p), y)
      BY HelpedShape
    <3>3. IsField(y)' <=> IsField(y)
      BY <1>20 DEF IsField, IsBlock
    <3>4. \A p : Withholds(FrameAt(p), y)' <=> Withholds(FrameAt(p), y)
      BY <1>9 DEF Withholds, ToField
    <3> QED BY <1>9, <3>1, <3>2, <3>3, <3>4
  <2> QED BY <2>1
<1>22. FieldsInv' /\ RetainsInv' /\ \A a : FieldOwners(a)' = FieldOwners(a)
  <2>1. ASSUME NEW y \in HelpedFields PROVE FieldKept(y)
    <3>1. IsBlock(y[1])
      BY HelpedShape DEF IsField
    <3> QED BY <1>20, <3>1 DEF FieldKept, IsBlock
  <2>2. /\ FieldsInv'
        /\ \A a : FieldOwners(a)' = FieldOwners(a)
        /\ \A o : ObjectFields(o)' = ObjectFields(o)
    BY <1>1, <1>15, <1>21, <2>1, FieldsSame
  <2> QED BY <1>1, <1>2, <2>2, RetainsSame
<1>23. ASSUME NEW a \in Heap PROVE Settles(a)
  <2>1. FrameOwners(a)' = (FrameOwners(a) \ {Top(t)}) \cup {p \in Changed(t) : FrameOwns(FrameAt(p), a)'}
    BY <1>1, <1>15, FrameOwnersStep
  <2>2. Top(t) \notin FrameOwners(a)
    BY <1>9 DEF FrameOwners
  <2>3. FrameOwners(a)' = FrameOwners(a)
    BY <1>10, <2>1, <2>2
  <2>4. StackOwners(a)' = StackOwners(a)
    <3>1. \A d \in Byref : mem'[d].forwarding = mem[d].forwarding
      <4>1. \A d \in Byref : d \in Addr
        BY DEF Addr, Stack
      <4> QED BY Zenon, <1>6, <1>7, <4>1
    <3>2. \A p \in LiveFrames' : ~(p \notin LiveFrames \/ p = Top(t))
      BY <1>9
    <3> QED BY <1>1, <1>2, <1>15, <3>1, <3>2, StackOwnersKept
  <2>5. Held(a)' = Held(a) + 0 + 0
    <3>1. Held(a)' = Held(a)
      BY Zenon, <1>6, <1>7, <1>8 DEF Held
    <3>2. Held(a) \in Nat
      BY <1>1 DEF Held, CoreInv, HeapInv, HeapBlock, HeapByref, FreeCell
    <3> QED BY <3>1, <3>2
  <2> QED BY <2>3, <2>4, <2>5 DEF Settles, Grows
<1>24. OwnersInv'
  <2>1. \A a \in Heap : VarOwners(a)' = VarOwners(a)
    BY <1>2 DEF VarOwners
  <2> QED BY <1>1, <1>22, <1>23, <2>1, CallsSettle
<1> QED BY <1>15, <1>16, <1>17, <1>18, <1>19, <1>22, <1>24 DEF IInv, CoreInv

-----------------------------------------------------------------------------
(* The end of the scope *)

\* The calls of the other threads are not about the declaring function's stack: a
\* step of the scope leaves them as they are.
LEMMA Elsewhere ==
  ASSUME CoreInv, var' = var, busy' = busy, \A a \in Heap : mem'[a] = mem[a],
         NEW p \in LiveFrames, p[1] # Main, stack'[p[1]] = stack[p[1]],
         mem'[Inner[p[1]]] = mem[Inner[p[1]]]
  PROVE  /\ FrameAt(p)' = FrameAt(p) /\ FrameInv(p)'
         /\ \A a \in Heap : FrameOwns(FrameAt(p), a)' <=> FrameOwns(FrameAt(p), a)
         /\ ~(FrameAt(p).fn = "byrefCopy" /\ FrameAt(p).pc = "publish")
         /\ ~(FrameAt(p).fn = "byrefCopy" /\ FrameAt(p).arg \in Byref)
<1>1. PICK f : f = FrameAt(p)
  OBVIOUS
<1>2. f \in Frame /\ FrameInv(p) /\ p[1] \in Thread
  BY <1>1, LiveShape DEF CoreInv, CallsInv
<1>3. \A q : q[1] = p[1] => FrameAt(q)' = FrameAt(q)
  BY DEF FrameAt
<1>4. FrameAt(p)' = f
  BY <1>1, <1>3
<1>5. \A a : /\ (IsBlock(a)' <=> IsBlock(a)) /\ (IsByref(a)' <=> IsByref(a))
             /\ IsBlock(a) \/ IsByref(a) => a \in Heap /\ mem'[a] = mem[a]
  BY DEF IsBlock, IsByref
<1>6. \A a : StackBlock(p[1], a) => a = Inner[p[1]] /\ StackBlock(p[1], a)' /\ mem'[a] = mem[a]
  BY DEF StackBlock
<1>7. ASSUME NEW a, Borrowed(p[1], a) PROVE Borrowed(p[1], a)'
  <2>1. PICK v \in busy[p[1]] :
          \/ var[v] = a
          \/ /\ IsBlock(var[v])
             /\ \E i \in DOMAIN mem[var[v]].fields :
                  mem[var[v]].fields[i] = a /\ KindOf(<<var[v], i>>) \in {"block", "byref"}
    BY Zenon, <1>7 DEF Borrowed
  <2>2. v \in busy'[p[1]] /\ var'[v] = var[v]
    BY <2>1
  <2>3. IsBlock(var[v]) => mem'[var[v]] = mem[var[v]] /\ IsBlock(var[v])'
    BY <1>5
  <2>4. \A i : KindOf(<<var[v], i>>) = AssignKind(FlagsOf(mem[var[v]], i))
    BY DEF KindOf
  <2>5. IsBlock(var[v]) => \A i : KindOf(<<var[v], i>>)' = KindOf(<<var[v], i>>)
    BY <2>2, <2>3 DEF KindOf, FlagsOf
  <2> QED BY <2>1, <2>2, <2>3, <2>5 DEF Borrowed
<1>8. f.fn \in {"copy", "copyHelper", "byrefCopy"} => DestInv(p) /\ DestInv(p)'
  <2>1. f.fn \in {"copy", "copyHelper", "byrefCopy"} => DestInv(p)
    BY <1>1, <1>2 DEF FrameInv, CopyInv, CopyHelperInv, ByrefCopyInv
  <2>2. PICK q : q = <<p[1], p[2] - 1>>
    BY Zenon
  <2>3. FrameAt(q)' = FrameAt(q)
    BY <1>3, <2>2
  <2>4. DestInv(p) => DestInv(p)'
    BY <1>1, <1>4, <2>2, <2>3 DEF DestInv
  <2> QED BY <2>1, <2>4
<1>9. f.fn \in {"copy", "copyHelper", "byrefCopy"} /\ ~IsVar(f.dest) => Awaited(f.dest)' = Awaited(f.dest)
  <2>1. f.fn \in {"copy", "copyHelper", "byrefCopy"} /\ ~IsVar(f.dest) => f.dest.block \in Heap
    BY Zenon, <1>1, DestCaller DEF CoreInv
  <2> QED BY <2>1 DEF Awaited
<1>10. CopyInv(p)'
  <2>1. SUFFICES ASSUME f.fn = "copy" PROVE CopyInv(p)'
    BY <1>4 DEF CopyInv
  <2>2. /\ CopyArg(p[1], f.arg)
        /\ ~IsVar(f.dest) =>
             /\ AssignKind(Awaited(f.dest).flags) = "block"
             /\ (f.arg \notin {NULL, GlobalBlock} => mem[f.arg].lit = Awaited(f.dest).of)
    BY <1>1, <1>2, <2>1 DEF FrameInv, CopyInv
  <2>3. CopyArg(p[1], f.arg)' /\ (f.arg \notin {NULL, GlobalBlock} => mem'[f.arg] = mem[f.arg])
    BY <1>5, <1>6, <1>7, <2>2 DEF CopyArg
  <2> QED BY <1>4, <1>8, <1>9, <2>1, <2>2, <2>3 DEF CopyInv
<1>11. CopyHelperInv(p)'
  <2>1. SUFFICES ASSUME f.fn = "copyHelper" PROVE CopyHelperInv(p)'
    BY <1>4 DEF CopyHelperInv
  <2>2. StackBlock(p[1], f.arg) /\ IsBlock(f.result) /\ CopyHelperInv(p)
    BY <1>1, <1>2, <2>1 DEF FrameInv, CopyHelperInv
  <2>3. StackBlock(p[1], f.arg)' /\ mem'[f.arg] = mem[f.arg] /\ IsBlock(f.result)' /\ mem'[f.result] = mem[f.result]
    BY <1>5, <1>6, <2>2
  <2> QED BY <1>1, <1>4, <1>8, <1>9, <2>1, <2>2, <2>3 DEF CopyHelperInv
<1>12. f.fn = "byrefCopy" => IsByref(f.arg) /\ f.arg \in Heap /\ f.arg \notin Byref /\ f.pc \notin {"publish", "payload"}
  <2>1. \A a \in Heap : a \notin Byref
    BY Apart
  <2>2. f.fn = "byrefCopy" => IsByref(f.arg) /\ (f.pc \in {"publish", "payload"} => f.arg \in Byref)
    BY <1>1, <1>2 DEF FrameInv, ByrefCopyInv
  <2> QED BY <2>1, <2>2 DEF IsByref
<1>13. ByrefCopyInv(p)'
  <2>1. SUFFICES ASSUME f.fn = "byrefCopy" PROVE ByrefCopyInv(p)'
    BY <1>4 DEF ByrefCopyInv
  <2>2. /\ p = Top(p[1]) /\ ~IsVar(f.dest)
        /\ AssignKind(Awaited(f.dest).flags) = "byref"
        /\ IsByref(f.arg) /\ Borrowed(p[1], f.arg)
        /\ mem[f.arg].of = Awaited(f.dest).of
        /\ f.pc \in {"increment", "return"} => mem[f.arg].forwarding \in Heap
    BY <1>1, <1>2, <1>12, <2>1 DEF FrameInv, ByrefCopyInv
  <2>3. IsByref(f.arg)' /\ Borrowed(p[1], f.arg)' /\ mem'[f.arg] = mem[f.arg]
    BY <1>5, <1>7, <2>2
  <2>4. p = Top(p[1])'
    BY <2>2 DEF Top
  <2> QED BY <1>4, <1>8, <1>9, <1>12, <2>1, <2>2, <2>3, <2>4 DEF ByrefCopyInv
<1>14. f.fn = "byrefRelease" => IsByref(f.arg) /\ (f.pc = "free" => mem[f.arg].dying)
  BY <1>1, <1>2 DEF FrameInv, ReleaseInv
<1>15. ReleaseInv(p)'
  <2>1. f.fn = "release" => f.arg \in {NULL, GlobalBlock} \/ IsBlock(f.arg)
    BY <1>1, <1>2 DEF FrameInv, ReleaseInv
  <2>2. f.fn = "disposeHelper" =>
          IsBlock(f.arg) /\ mem[f.arg].dying /\ f.i \in 1 .. Len(mem[f.arg].fields) + 1
    BY <1>1, <1>2 DEF FrameInv, ReleaseInv
  <2> QED BY <1>4, <1>5, <1>14, <2>1, <2>2 DEF ReleaseInv
<1>16. ASSUME NEW a \in Heap PROVE FrameOwns(FrameAt(p), a)' <=> FrameOwns(FrameAt(p), a)
  <2>1. f.fn \in {"byrefCopy", "byrefRelease"} => mem'[f.arg] = mem[f.arg]
    BY <1>5, <1>12, <1>14
  <2> QED BY <1>1, <1>4, <2>1 DEF FrameOwns
<1> QED BY <1>1, <1>4, <1>10, <1>11, <1>12, <1>13, <1>15, <1>16 DEF FrameInv

\* What a step of the scope leaves as it was; the calls it makes are about stack
\* variables.
LEMMA ScopeKeeps ==
  ASSUME CoreInv, FieldsInv, RetainsInv, Idle(Main),
         UNCHANGED <<var, busy, retains, written>>, scope' \in {"closing", "closed"},
         \A a \in Heap : mem'[a] = mem[a], \A u \in Thread : mem'[Inner[u]] = mem[Inner[u]],
         stack' \in [Thread -> Seq(Frame)], \A u \in Thread : u # Main => stack'[u] = stack[u],
         LiveFrames \subseteq LiveFrames',
         \A p \in LiveFrames' : p \notin LiveFrames =>
           FrameAt(p)'.fn = "byrefRelease" /\ FrameAt(p)'.pc = "load" /\ FrameInv(p)'
  PROVE  /\ HeapInv' /\ ProgramInv' /\ CallsInv' /\ FieldsInv' /\ RetainsInv'
         /\ \A a \in Heap : /\ VarOwners(a)' = VarOwners(a) /\ FieldOwners(a)' = FieldOwners(a)
                            /\ StackOwners(a)' = {}
                            /\ StackOwners(a) = {b \in Byref : scope = "open" /\ mem[b].forwarding = a}
         /\ \A p \in LiveFrames :
              FrameAt(p)' = FrameAt(p) /\ \A a \in Heap : FrameOwns(FrameAt(p), a)' <=> FrameOwns(FrameAt(p), a)
<1>1. ASSUME NEW p \in LiveFrames
      PROVE  /\ FrameAt(p)' = FrameAt(p) /\ FrameInv(p)' /\ p \in LiveFrames'
             /\ \A a \in Heap : FrameOwns(FrameAt(p), a)' <=> FrameOwns(FrameAt(p), a)
             /\ ~(FrameAt(p).fn = "byrefCopy" /\ FrameAt(p).pc = "publish")
  <2>1. p[1] \in Thread /\ p[2] \in 1 .. Len(stack[p[1]])
    BY LiveShape DEF CoreInv
  <2>2. p[1] # Main
    <3>1. Len(stack[Main]) = 0
      BY DEF Idle
    <3> QED BY <2>1, <3>1
  <2> QED BY <2>1, <2>2, Elsewhere
<1>2. HeapInv'
  BY DEF CoreInv, HeapInv
<1>3. ProgramInv'
  <2>1. \A v \in Var : var[v] \in Heap => mem'[var[v]].kind = "block"
    BY DEF CoreInv, ProgramInv
  <2>2. ASSUME NEW u \in Thread
        PROVE  /\ Idle(u)' => busy'[u] = {} /\ mem'[Inner[u]] = FreeCell
               /\ mem'[Inner[u]] = FreeCell \/ Mirrors(u)'
    <3>1. /\ Idle(u) => busy[u] = {} /\ mem[Inner[u]] = FreeCell
          /\ mem[Inner[u]] = FreeCell \/ Mirrors(u)
      BY DEF CoreInv, ProgramInv
    <3>2. CASE u = Main
      BY <3>1, <3>2
    <3>3. CASE u # Main
      <4>1. Idle(u)' => Idle(u)
        BY <3>3 DEF Idle
      <4>2. ASSUME Mirrors(u) PROVE Mirrors(u)'
        <5>1. PICK v \in busy[u] :
                /\ IsBlock(var[v])
                /\ mem[Inner[u]] = Block("stack", "stack", 0, mem[var[v]].lit, mem[var[v]].fields)
          BY <3>3, <4>2 DEF Mirrors
        <5>2. var[v] \in Heap /\ mem'[var[v]] = mem[var[v]] /\ IsBlock(var[v])' /\ v \in busy'[u]
          BY <5>1 DEF IsBlock
        <5> QED BY <5>1, <5>2 DEF Mirrors
      <4> QED BY <3>1, <4>1, <4>2
    <3> QED BY <3>2, <3>3
  <2> QED BY <2>1, <2>2 DEF CoreInv, ProgramInv
<1>4. CallsInv'
  <2>1. \A p \in LiveFrames' : FrameInv(p)'
    BY <1>1
  <2>2. ASSUME NEW a \in Heap, mem'[a].kind = "block" /\ mem'[a].isa = "stack"
        PROVE  \E p \in LiveFrames' : Builds(FrameAt(p), a)'
    <3>1. PICK p \in LiveFrames : Builds(FrameAt(p), a)
      BY <2>2 DEF CoreInv, CallsInv
    <3> QED BY <1>1, <3>1
  <2>3. ASSUME NEW a \in Heap, mem'[a].kind # "free" /\ mem'[a].dying
        PROVE  \E p \in LiveFrames' : Disposes(FrameAt(p), a)'
    <3>1. PICK p \in LiveFrames : Disposes(FrameAt(p), a)
      BY <2>3 DEF CoreInv, CallsInv
    <3> QED BY <1>1, <3>1
  <2>4. \A p \in LiveFrames', a \in Heap : Disposes(FrameAt(p), a)' => p \in LiveFrames /\ Disposes(FrameAt(p), a)
    BY <1>1 DEF Disposes
  <2>5. \A a \in Heap, p, q \in LiveFrames' : Disposes(FrameAt(p), a)' /\ Disposes(FrameAt(q), a)' => p = q
    BY <2>4 DEF CoreInv, CallsInv
  <2> QED BY <2>1, <2>2, <2>3, <2>5 DEF CallsInv
<1>5. HelpedFields' = HelpedFields
  <2>1. ASSUME NEW x PROVE x \in HelpedFields' <=> x \in HelpedFields
    <3>1. x \in HelpedFields' <=> IsField(x)' /\ \A p \in LiveFrames' : ~Withholds(FrameAt(p), x)'
      BY DEF HelpedFields, IsField, IsBlock
    <3>2. x \in HelpedFields <=> IsField(x) /\ \A p \in LiveFrames : ~Withholds(FrameAt(p), x)
      BY HelpedShape
    <3>3. IsField(x)' <=> IsField(x)
      BY DEF IsField, IsBlock
    <3>4. \A p \in LiveFrames : Withholds(FrameAt(p), x)' <=> Withholds(FrameAt(p), x)
      BY <1>1 DEF Withholds, ToField
    <3>5. \A p \in LiveFrames' : p \notin LiveFrames => ~(Withholds(FrameAt(p), x)')
      BY DEF Withholds
    <3> QED BY <1>1, <3>1, <3>2, <3>3, <3>4, <3>5
  <2> QED BY Zenon, <2>1
<1>6. ASSUME NEW x \in HelpedFields
      PROVE  Field(x)' = Field(x) /\ KindOf(x)' = KindOf(x) /\ FieldOk(x)'
  <2>1. x[1] \in Heap /\ mem'[x[1]] = mem[x[1]]
    BY HelpedShape DEF IsField, IsBlock
  <2>2. Field(x)' = Field(x) /\ KindOf(x)' = KindOf(x)
    BY <2>1 DEF Field, KindOf, FlagsOf
  <2>3. FieldOk(x)
    BY DEF FieldsInv
  <2>4. IsBlock(Field(x)) \/ IsByref(Field(x)) => mem'[Field(x)] = mem[Field(x)]
    BY DEF IsBlock, IsByref
  <2> QED BY <2>1, <2>2, <2>3, <2>4 DEF FieldOk, IsBlock, IsByref
<1>7. FieldsInv'
  BY <1>5, <1>6 DEF FieldsInv
<1>8. \A a : FieldOwners(a)' = FieldOwners(a) /\ ObjectFields(a)' = ObjectFields(a)
  BY <1>5, <1>6 DEF FieldOwners, ObjectFields
<1>9. RetainsInv'
  BY <1>8, RetainsSame
<1>10. ASSUME NEW a \in Heap
       PROVE  /\ VarOwners(a)' = VarOwners(a)
              /\ StackOwners(a)' = {}
              /\ StackOwners(a) = {b \in Byref : scope = "open" /\ mem[b].forwarding = a}
  <2>1. VarOwners(a)' = VarOwners(a)
    BY DEF VarOwners
  <2>2. \A b \in Byref : ~(StackOwns(b, a)')
    BY <1>1 DEF StackOwns
  <2>3. \A b \in Byref : StackOwns(b, a) <=> scope = "open" /\ mem[b].forwarding = a
    BY <1>1 DEF StackOwns
  <2> QED BY <2>1, <2>2, <2>3 DEF StackOwners
<1> QED BY <1>1, <1>2, <1>3, <1>4, <1>7, <1>8, <1>9, <1>10

LEMMA LeaveFrameStep ==
  ASSUME IInv, LeaveFrame
  PROVE  IInv'
<1>1. CoreInv /\ FieldsInv /\ RetainsInv
  BY DEF IInv
<1>2. /\ scope = "closing" /\ Idle(Main) /\ scope' = "closed"
      /\ mem' = [a \in Addr |-> IF a \in Byref \cup Literal THEN FreeCell ELSE mem[a]]
      /\ UNCHANGED <<var, stack, busy, retains, written>>
  BY DEF LeaveFrame
<1>3. \A a \in Heap : a \in Addr /\ a \notin Byref \cup Literal
  BY Apart DEF Addr
<1>4. \A u \in Thread : Inner[u] \in Addr /\ Inner[u] \notin Byref \cup Literal
  BY Apart DEF Addr
<1>5. (\A a \in Heap : mem'[a] = mem[a]) /\ \A u \in Thread : mem'[Inner[u]] = mem[Inner[u]]
  BY <1>2, <1>3, <1>4
<1>6. stack' \in [Thread -> Seq(Frame)] /\ LiveFrames' = LiveFrames
  BY <1>1, <1>2 DEF CoreInv, CallsInv, LiveFrames
<1>7. /\ HeapInv' /\ ProgramInv' /\ CallsInv' /\ FieldsInv' /\ RetainsInv'
      /\ \A a \in Heap : /\ VarOwners(a)' = VarOwners(a) /\ FieldOwners(a)' = FieldOwners(a)
                         /\ StackOwners(a)' = {}
                         /\ StackOwners(a) = {b \in Byref : scope = "open" /\ mem[b].forwarding = a}
      /\ \A p \in LiveFrames :
           FrameAt(p)' = FrameAt(p) /\ \A a \in Heap : FrameOwns(FrameAt(p), a)' <=> FrameOwns(FrameAt(p), a)
  <2>1. scope' \in {"closing", "closed"} /\ \A u \in Thread : stack'[u] = stack[u]
    BY <1>2
  <2>2. LiveFrames \subseteq LiveFrames' /\ \A p \in LiveFrames' : p \in LiveFrames
    BY <1>6
  <2> QED BY Zenon, <1>1, <1>2, <1>5, <1>6, <2>1, <2>2, ScopeKeeps
<1>8. StackInv'
  <2>1. mem'[GlobalBlock] = mem[GlobalBlock]
    BY <1>2, Apart DEF Addr
  <2>2. \A a \in Byref \cup Literal : mem'[a] = FreeCell
    BY <1>2 DEF Addr, Stack
  <2>3. mem' = [a \in Addr |-> mem'[a]]
    BY <1>2
  <2> QED BY <1>1, <1>2, <2>1, <2>2, <2>3 DEF CoreInv, StackInv
<1>9. OwnersInv'
  <2>1. ASSUME NEW a \in Heap PROVE Settles(a)
    <3>1. FrameOwners(a)' = FrameOwners(a)
      BY <1>6, <1>7 DEF FrameOwners
    <3>2. StackOwners(a)' = StackOwners(a)
      BY <1>2, <1>7
    <3>3. Held(a)' = Held(a) + 0 + 0
      <4>1. Held(a)' = Held(a)
        BY <1>5 DEF Held
      <4>2. Held(a) \in Nat
        BY <1>1 DEF Held, CoreInv, HeapInv, HeapBlock, HeapByref, FreeCell
      <4> QED BY <4>1, <4>2
    <3> QED BY <3>1, <3>2, <3>3 DEF Settles, Grows
  <2> QED BY <1>1, <1>7, <2>1, CallsSettle
<1> QED BY <1>7, <1>8, <1>9 DEF IInv, CoreInv

\* The end of the scope makes a call for each stack variable, in some order.
Lists(order, n) ==
  /\ n = Cardinality(Byref) /\ order \in [1 .. n -> Byref]
  /\ \A b \in Byref : \E k \in 1 .. n : order[k] = b
Outer(n) == {<<Main, k>> : k \in 1 .. n}
Handed(order, n, p) == order[n + 1 - p[2]]

\* Each of its calls takes over the reference of its variable.
LEMMA HandedOver ==
  ASSUME NEW N, NEW order, Lists(order, N), NEW S \in SUBSET Byref,
         NEW T, T = {p \in Outer(N) : Handed(order, N, p) \in S}
  PROVE  IsFiniteSet(T) /\ Cardinality(T) = Cardinality(S)
<1>1. /\ N \in Nat /\ IsFiniteSet(Byref) /\ N = Cardinality(Byref) /\ order \in [1 .. N -> Byref]
      /\ \A b \in Byref : \E k \in 1 .. N : order[k] = b
  BY ProgramAssumption, FS_CardinalityType DEF Lists
<1>0. T = {p \in {<<Main, k>> : k \in 1 .. N} : order[N + 1 - p[2]] \in S}
  BY DEF Outer, Handed
<1>11. \A j, k \in 1 .. N : order[j] = order[k] => j = k
  <2>1. PICK D : D = 1 .. N
    OBVIOUS
  <2>2. IsFiniteSet(D) /\ Cardinality(D) = N
    <3>1. IsFiniteSet(D)
      BY <1>1, <2>1, FS_Interval
    <3>2. ExistsBijection(D, Byref)
      BY <1>1, <2>1, FS_CardinalityType
    <3>3. Cardinality(Byref) = Cardinality(D)
      BY <3>1, <3>2, FS_Bijection
    <3> QED BY <1>1, <3>1, <3>3
  <2>3. order \in Surjection(D, Byref)
    BY <1>1, <2>1 DEF Surjection
  <2>4. order \in Injection(D, Byref)
    BY <1>1, <2>2, <2>3, FS_SurjSameCardinalityImpliesInj
  <2> QED BY <2>1, <2>4 DEF Injection, IsInjective
<1>2. IsFiniteSet(S)
  BY <1>1, FS_Subset
<1>3. PICK slot \in [S -> 1 .. N] : \A b \in S : order[slot[b]] = b
  <2>1. \A b \in S : \E k \in 1 .. N : order[k] = b
    BY <1>1
  <2>2. [b \in S |-> CHOOSE k \in 1 .. N : order[k] = b] \in [S -> 1 .. N]
    BY <2>1
  <2> QED BY Zenon, <2>1, <2>2
<1>4. PICK h : h = [b \in S |-> <<Main, N + 1 - slot[b]>>]
  BY Zenon
<1>5. ASSUME NEW b \in S
      PROVE  h[b] = <<Main, N + 1 - slot[b]>> /\ h[b] \in T /\ slot[b] \in 1 .. N
  <2>1. slot[b] \in 1 .. N /\ order[slot[b]] = b
    BY <1>3
  <2>2. PICK k : k = N + 1 - slot[b]
    OBVIOUS
  <2>3. k \in 1 .. N /\ N + 1 - k = slot[b]
    BY <1>1, <2>1, <2>2
  <2>4. h[b] = <<Main, k>>
    BY <1>4, <2>2
  <2>5. <<Main, k>> \in T
    BY <1>0, <2>1, <2>3
  <2> QED BY <2>1, <2>2, <2>4, <2>5
<1>6. h \in [S -> T]
  BY <1>4, <1>5
<1>7. ASSUME NEW b \in S, NEW c \in S, h[b] = h[c] PROVE b = c
  <2>1. N + 1 - slot[b] = N + 1 - slot[c]
    BY <1>5, <1>7
  <2>2. slot[b] = slot[c]
    BY <1>1, <1>5, <2>1
  <2> QED BY <1>3, <2>2
<1>8. ASSUME NEW p \in T PROVE \E b \in S : h[b] = p
  <2>1. PICK k \in 1 .. N : p = <<Main, k>> /\ order[N + 1 - k] \in S
    BY <1>0
  <2>2. PICK j, b : j = N + 1 - k /\ b = order[j]
    OBVIOUS
  <2>3. j \in 1 .. N /\ b \in S /\ k = N + 1 - j
    BY SMTT(20), <1>1, <2>1, <2>2
  <2>4. slot[b] \in 1 .. N /\ order[slot[b]] = b
    BY <1>3, <2>3
  <2>5. slot[b] = j
    BY <1>11, <2>2, <2>3, <2>4
  <2>6. h[b] = p
    BY <1>5, <2>1, <2>3, <2>5
  <2> QED BY <2>3, <2>6
<1>9. h \in Bijection(S, T)
  BY <1>6, <1>7, <1>8 DEF Bijection, Injection, IsInjective, Surjection
<1>10. ExistsBijection(S, T)
  BY <1>9 DEF ExistsBijection
<1> QED BY <1>2, <1>10, FS_Bijection

\* The calls that the end of the scope makes: one for each stack variable.
LEMMA ScopeCalls ==
  ASSUME CoreInv, Idle(Main), NEW N, NEW order, Lists(order, N),
         NEW s, s = [k \in 1 .. N |-> ByrefReleaseFrame(order[k], "load")],
         stack' = [stack EXCEPT ![Main] = s]
  PROVE  /\ stack' \in [Thread -> Seq(Frame)] /\ \A u \in Thread : u # Main => stack'[u] = stack[u]
         /\ LiveFrames' = LiveFrames \cup Outer(N)
         /\ \A p \in Outer(N) : /\ p \notin LiveFrames /\ p[1] = Main
                               /\ FrameAt(p)' = ByrefReleaseFrame(Handed(order, N, p), "load")
                               /\ Handed(order, N, p) \in Byref
<1>1. /\ N \in Nat /\ IsFiniteSet(Byref) /\ N = Cardinality(Byref) /\ order \in [1 .. N -> Byref]
      /\ \A b \in Byref : \E k \in 1 .. N : order[k] = b
  BY ProgramAssumption, FS_CardinalityType DEF Lists
<1>2. s \in Seq(Frame) /\ Len(s) = N /\ DOMAIN s = 1 .. N
      /\ \A k \in 1 .. N : s[k] = ByrefReleaseFrame(order[k], "load")
  <2>1. \A k \in 1 .. N : ByrefReleaseFrame(order[k], "load") \in Frame
    BY <1>1 DEF ByrefReleaseFrame, Frame, Addr, Stack
  <2>2. s \in [1 .. N -> Frame]
    BY <2>1
  <2>3. s \in Seq(Frame)
    BY <1>1, <2>2, SeqDef
  <2>4. DOMAIN s = 1 .. N
    OBVIOUS
  <2>5. Len(s) = N
    BY <1>1, <2>3, <2>4, LenProperties
  <2> QED BY Zenon, <2>3, <2>4, <2>5
<1>3. stack \in [Thread -> Seq(Frame)] /\ Main \in Thread
  BY ProgramAssumption DEF CoreInv, CallsInv
<1>4. /\ stack' \in [Thread -> Seq(Frame)] /\ stack'[Main] = s
      /\ \A u \in Thread : u # Main => stack'[u] = stack[u]
  BY <1>2, <1>3
<1>5. DOMAIN stack[Main] = {}
  BY DEF Idle
<1>6. \A p : p \in LiveFrames' <=> p \in LiveFrames \/ \E k \in 1 .. N : p = <<Main, k>>
  <2>1. ASSUME NEW u \in Thread, NEW k
        PROVE  k \in DOMAIN stack'[u] <=> k \in DOMAIN stack[u] \/ (u = Main /\ k \in 1 .. N)
    BY <1>2, <1>4, <1>5
  <2>2. \A p : p \in LiveFrames' <=> \E u \in Thread : \E k \in DOMAIN stack'[u] : p = <<u, k>>
    BY DEF LiveFrames
  <2>3. \A p : p \in LiveFrames <=> \E u \in Thread : \E k \in DOMAIN stack[u] : p = <<u, k>>
    BY DEF LiveFrames
  <2>4. ASSUME NEW p, p \in LiveFrames' PROVE p \in LiveFrames \/ \E k \in 1 .. N : p = <<Main, k>>
    <3>1. PICK u, k : u \in Thread /\ k \in DOMAIN stack'[u] /\ p = <<u, k>>
      BY <2>2, <2>4
    <3> QED BY <2>1, <2>3, <3>1
  <2>5. ASSUME NEW p, p \in LiveFrames PROVE p \in LiveFrames'
    <3>1. PICK u, k : u \in Thread /\ k \in DOMAIN stack[u] /\ p = <<u, k>>
      BY <2>3, <2>5
    <3> QED BY <2>1, <2>2, <3>1
  <2>6. ASSUME NEW k \in 1 .. N PROVE <<Main, k>> \in LiveFrames'
    BY <1>3, <2>1, <2>2
  <2> QED BY <2>4, <2>5, <2>6
<1>7. LiveFrames' = LiveFrames \cup Outer(N)
  BY <1>6 DEF Outer
<1>8. ASSUME NEW k \in 1 .. N
       PROVE  /\ <<Main, k>> \notin LiveFrames
              /\ FrameAt(<<Main, k>>)' = ByrefReleaseFrame(order[N + 1 - k], "load")
  <2>1. <<Main, k>> \notin LiveFrames
    <3>1. SUFFICES ASSUME <<Main, k>> \in LiveFrames PROVE FALSE
      OBVIOUS
    <3>2. PICK u \in Thread : \E j \in DOMAIN stack[u] : <<Main, k>> = <<u, j>>
      BY <3>1 DEF LiveFrames
    <3> QED BY <1>5, <3>2
  <2>2. FrameAt(<<Main, k>>)' = stack'[Main][Len(stack'[Main]) + 1 - k]
    BY Zenon DEF FrameAt
  <2>3. N + 1 - k \in 1 .. N
    BY <1>1
  <2> QED BY Zenon, <1>2, <1>4, <2>1, <2>2, <2>3
<1>9. ASSUME NEW p \in Outer(N)
       PROVE  /\ p \notin LiveFrames /\ p[1] = Main
              /\ FrameAt(p)' = ByrefReleaseFrame(Handed(order, N, p), "load")
              /\ Handed(order, N, p) \in Byref
  <2>1. PICK k \in 1 .. N : p = <<Main, k>>
    BY DEF Outer
  <2>2. Handed(order, N, p) = order[N + 1 - k]
    BY <2>1 DEF Handed
  <2>3. N + 1 - k \in 1 .. N
    BY <1>1
  <2>4. Handed(order, N, p) \in Byref
    BY <1>1, <2>2, <2>3
  <2> QED BY <1>8, <2>1, <2>2, <2>4
<1> QED BY <1>4, <1>7, <1>9

LEMMA CloseScopeStep ==
  ASSUME IInv, CloseScope
  PROVE  IInv'
<1>1. CoreInv /\ FieldsInv /\ RetainsInv
  BY DEF IInv
<1>3. PICK N, order, s :
        /\ Lists(order, N)
        /\ s = [k \in 1 .. N |-> ByrefReleaseFrame(order[k], "load")]
        /\ Call(Main, s, {})
  <2>1. PICK N : N = Cardinality(Byref)
    OBVIOUS
  <2>2. PICK order \in [1 .. N -> Byref] :
          /\ Byref = {order[k] : k \in DOMAIN order}
          /\ Call(Main, [k \in DOMAIN order |-> ByrefReleaseFrame(order[k], "load")], {})
    BY Zenon, <2>1 DEF CloseScope
  <2>3. DOMAIN order = 1 .. N
    OBVIOUS
  <2>4. \A b \in Byref : \E k \in 1 .. N : order[k] = b
    BY <2>2, <2>3
  <2>5. Lists(order, N)
    BY <2>1, <2>4 DEF Lists
  <2> QED BY Zenon, <2>2, <2>3, <2>5
<1>4. /\ scope = "open" /\ scope' = "closing" /\ Idle(Main)
      /\ stack' = [stack EXCEPT ![Main] = s]
      /\ busy' = [busy EXCEPT ![Main] = {}]
      /\ UNCHANGED <<mem, var, retains, written>>
  BY Zenon, <1>3 DEF CloseScope, Call
<1>5. busy' = busy /\ Main \in Thread
  <2>1. busy \in [Thread -> SUBSET Var] /\ busy[Main] = {} /\ Main \in Thread
    BY <1>1, <1>4, ProgramAssumption DEF CoreInv, ProgramInv
  <2> QED BY <1>4, <2>1
<1>6. /\ stack' \in [Thread -> Seq(Frame)] /\ \A u \in Thread : u # Main => stack'[u] = stack[u]
      /\ LiveFrames' = LiveFrames \cup Outer(N)
      /\ \A p \in Outer(N) : /\ p \notin LiveFrames /\ p[1] = Main
                            /\ FrameAt(p)' = ByrefReleaseFrame(Handed(order, N, p), "load")
                            /\ Handed(order, N, p) \in Byref
  BY Zenon, <1>1, <1>3, <1>4, ScopeCalls
<1>7. ASSUME NEW p \in Outer(N), NEW b, b = Handed(order, N, p)
      PROVE  /\ b \in Byref
             /\ FrameAt(p)'.fn = "byrefRelease" /\ FrameAt(p)'.pc = "load" /\ FrameAt(p)'.arg = b
             /\ FrameInv(p)'
             /\ \A a \in Heap : FrameOwns(FrameAt(p), a)' <=> mem[b].forwarding = a
  <2>1. b \in Byref
    BY <1>6, <1>7
  <2>2. FrameAt(p)' = ByrefReleaseFrame(b, "load")
    BY <1>6, <1>7
  <2>3. FrameAt(p)'.fn = "byrefRelease" /\ FrameAt(p)'.pc = "load" /\ FrameAt(p)'.arg = b
    BY <2>2 DEF ByrefReleaseFrame
  <2>4. mem[b].forwarding = b \/ IsByref(mem[b].forwarding)
    BY Zenon, <1>1, <1>4, <2>1 DEF CoreInv, StackInv
  <2>5. p[1] = Main
    BY <1>6
  <2>6. ReleaseInv(p)'
    BY <1>4, <2>1, <2>3, <2>4, <2>5 DEF ReleaseInv, IsByref
  <2>7. FrameInv(p)'
    BY <2>3, <2>6 DEF FrameInv, CopyInv, CopyHelperInv, ByrefCopyInv
  <2>8. \A a \in Heap : FrameOwns(FrameAt(p), a)' <=> mem[b].forwarding = a
    BY <1>4, <2>3 DEF FrameOwns
  <2> QED BY <2>1, <2>3, <2>7, <2>8
<1>8. /\ HeapInv' /\ ProgramInv' /\ CallsInv' /\ FieldsInv' /\ RetainsInv'
      /\ \A a \in Heap : /\ VarOwners(a)' = VarOwners(a) /\ FieldOwners(a)' = FieldOwners(a)
                         /\ StackOwners(a)' = {}
                         /\ StackOwners(a) = {b \in Byref : scope = "open" /\ mem[b].forwarding = a}
      /\ \A p \in LiveFrames :
           FrameAt(p)' = FrameAt(p) /\ \A a \in Heap : FrameOwns(FrameAt(p), a)' <=> FrameOwns(FrameAt(p), a)
  <2>1. /\ scope' \in {"closing", "closed"}
        /\ \A a \in Heap : mem'[a] = mem[a] /\ \A u \in Thread : mem'[Inner[u]] = mem[Inner[u]]
    BY <1>4
  <2>2. \A p \in LiveFrames' : p \notin LiveFrames =>
          FrameAt(p)'.fn = "byrefRelease" /\ FrameAt(p)'.pc = "load" /\ FrameInv(p)'
    BY <1>6, <1>7
  <2>3. LiveFrames \subseteq LiveFrames' /\ UNCHANGED <<var, busy, retains, written>>
    BY <1>4, <1>5, <1>6
  <2>4. \A u \in Thread : mem'[Inner[u]] = mem[Inner[u]]
    BY <1>4
  <2> QED BY <1>1, <1>4, <1>6, <2>1, <2>2, <2>3, <2>4, ScopeKeeps
<1>9. StackInv'
  BY Zenon, <1>1, <1>4 DEF CoreInv, StackInv
<1>10. ASSUME NEW a \in Heap PROVE Owners(a)' = Owners(a)
  <2>1. PICK S, T : S = StackOwners(a) /\ T = {p \in Outer(N) : Handed(order, N, p) \in S}
    BY Zenon
  <2>2. S \in SUBSET Byref /\ S = {b \in Byref : mem[b].forwarding = a}
    BY <1>4, <1>8, <2>1
  <2>3. IsFiniteSet(T) /\ Cardinality(T) = Cardinality(S)
    <3>1. S \in SUBSET Byref /\ Lists(order, N)
      BY <1>3, <2>2
    <3>2. T = {p \in Outer(N) : Handed(order, N, p) \in S}
      BY <2>1
    <3> QED BY <3>1, <3>2, HandedOver
  <2>4. FrameOwners(a)' = FrameOwners(a) \cup T
    <3>1. FrameOwners(a)' = {p \in LiveFrames' : FrameOwns(FrameAt(p), a)'}
      BY DEF FrameOwners
    <3>2. \A p \in LiveFrames : FrameOwns(FrameAt(p), a)' <=> p \in FrameOwners(a)
      BY <1>8 DEF FrameOwners
    <3>3. ASSUME NEW p \in Outer(N) PROVE FrameOwns(FrameAt(p), a)' <=> p \in T
      <4>1. PICK b : b = Handed(order, N, p)
        OBVIOUS
      <4>2. b \in Byref /\ (FrameOwns(FrameAt(p), a)' <=> mem[b].forwarding = a)
        BY <1>7, <4>1
      <4> QED BY <2>1, <2>2, <4>1, <4>2
    <3>4. T \subseteq Outer(N)
      BY <2>1
    <3>5. FrameOwners(a) \subseteq LiveFrames
      BY DEF FrameOwners
    <3> QED BY <1>6, <3>1, <3>2, <3>3, <3>4, <3>5
  <2>5. FrameOwners(a) \cap T = {}
    <3>1. \A p \in T : p \notin LiveFrames
      BY <1>6, <2>1
    <3> QED BY <3>1 DEF FrameOwners
  <2>6. IsFiniteSet(FrameOwners(a)) /\ IsFiniteSet(S) /\ IsFiniteSet(VarOwners(a)) /\ IsFiniteSet(FieldOwners(a))
    BY <1>1, <2>1, OwnersFinite DEF CoreInv
  <2>7. PICK v, x, p, y : /\ v = Cardinality(VarOwners(a)) /\ x = Cardinality(FieldOwners(a))
                          /\ p = Cardinality(FrameOwners(a)) /\ y = Cardinality(S)
    OBVIOUS
  <2>8. v \in Nat /\ x \in Nat /\ p \in Nat /\ y \in Nat
    BY <2>6, <2>7, FS_CardinalityType
  <2>9. Cardinality(FrameOwners(a)') = p + y
    <3>1. Cardinality(FrameOwners(a) \cup T) =
            Cardinality(FrameOwners(a)) + Cardinality(T) - Cardinality(FrameOwners(a) \cap T)
      BY <2>3, <2>6, FS_Union
    <3>2. Cardinality(FrameOwners(a) \cap T) = 0
      BY <2>5, FS_EmptySet
    <3> QED BY <2>3, <2>4, <2>5, <2>7, <2>8, <3>1, <3>2
  <2>10. Cardinality(StackOwners(a)') = 0
    <3>1. StackOwners(a)' = {}
      BY <1>8
    <3> QED BY <3>1, FS_EmptySet
  <2>11. Owners(a)' = v + x + (p + y) + 0
    BY <1>8, <2>7, <2>9, <2>10 DEF Owners
  <2>12. Owners(a) = v + x + p + y
    BY <2>1, <2>7 DEF Owners
  <2> QED BY <2>8, <2>11, <2>12
<1>11. OwnersInv'
  BY <1>1, <1>4, <1>10 DEF CoreInv, OwnersInv
<1> QED BY <1>8, <1>9, <1>11 DEF IInv, CoreInv

-----------------------------------------------------------------------------
(* The invariant *)

LEMMA InitInv ==
  ASSUME Init
  PROVE  IInv
<1>1. /\ \A l \in Literal : mem[l] = LiteralCell(l)
      /\ \A b \in Byref : mem[b] = ByrefCell("stack", 0, b, b, 0)
      /\ mem[GlobalBlock] = Block("global", "global", 0, GlobalBlock, <<>>)
      /\ \A a \in Heap : mem[a] = FreeCell
      /\ \A t \in Thread : mem[Inner[t]] = FreeCell
      /\ mem = [a \in Addr |-> mem[a]]
  <2>1. PICK m : m = mem
    OBVIOUS
  <2>2. m = [a \in Addr |->
         IF a \in Literal
           THEN Block("stack", "stack", 0, a, [i \in DOMAIN Captures[a] |-> Captures[a][i].of])
         ELSE IF a \in Byref THEN ByrefCell("stack", 0, a, a, 0)
         ELSE IF a = GlobalBlock THEN Block("global", "global", 0, a, <<>>)
         ELSE FreeCell]
    BY <2>1 DEF Init
  <2>3. \A l \in Literal : m[l] = LiteralCell(l)
    BY <2>2 DEF LiteralCell, Addr, Stack
  <2>4. \A b \in Byref : m[b] = ByrefCell("stack", 0, b, b, 0)
    BY <2>2, Apart DEF Addr, Stack
  <2>5. m[GlobalBlock] = Block("global", "global", 0, GlobalBlock, <<>>)
    <3>1. GlobalBlock \notin Literal /\ GlobalBlock \notin Byref /\ GlobalBlock \in Addr
      BY Apart DEF Addr
    <3> QED BY <2>2, <3>1
  <2>6. \A a \in Heap : m[a] = FreeCell
    <3>1. \A a \in Heap : a \in Addr /\ a \notin Literal /\ a \notin Byref /\ a # GlobalBlock
      BY Apart DEF Addr
    <3> QED BY <2>2, <3>1
  <2>7. \A t \in Thread : m[Inner[t]] = FreeCell
    <3>1. \A t \in Thread : Inner[t] \in Addr /\ Inner[t] \notin Literal /\ Inner[t] \notin Byref
                            /\ Inner[t] # GlobalBlock
      BY Apart DEF Addr
    <3> QED BY <2>2, <3>1
  <2>8. m = [a \in Addr |-> m[a]]
    BY <2>2
  <2> QED BY <2>1, <2>3, <2>4, <2>5, <2>6, <2>7, <2>8
<1>2. /\ var = [v \in Var |-> NULL] /\ stack = [t \in Thread |-> <<>>] /\ busy = [t \in Thread |-> {}]
      /\ scope = "open" /\ retains = [o \in Object |-> 0] /\ written = [b \in Byref |-> 0]
  BY DEF Init
<1>0. /\ \A a \in Heap : mem[a].kind = "free"
      /\ \A b \in Byref : mem[b].forwarding = b /\ mem[b].val = 0
  <2>1. FreeCell.kind = "free"
    BY DEF FreeCell
  <2>2. \A b \in Byref : ByrefCell("stack", 0, b, b, 0).forwarding = b /\ ByrefCell("stack", 0, b, b, 0).val = 0
    BY DEF ByrefCell
  <2> QED BY ZenonT(30), <1>1, <2>1, <2>2
<1>3. LiveFrames = {}
  <2>1. \A t \in Thread : DOMAIN stack[t] = {}
    BY <1>2
  <2> QED BY <2>1 DEF LiveFrames
<1>4. HelpedFields = {}
  BY <1>0, HelpedShape DEF IsField, IsBlock
<1>5. HeapInv
  BY Zenon, <1>0, <1>1 DEF HeapInv
<1>6. StackInv
  BY Zenon, <1>0, <1>1, <1>2 DEF StackInv, Value
<1>7. ProgramInv
  <2>1. \A v \in Var : var[v] \notin Heap
    BY <1>2, Apart
  <2> QED BY Zenon, <1>1, <1>2, <2>1 DEF ProgramInv, Value
<1>8. CallsInv
  <2>1. stack \in [Thread -> Seq(Frame)]
    BY <1>2
  <2> QED BY <1>0, <1>3, <2>1 DEF CallsInv
<1>9. OwnersInv
  <2>1. ASSUME NEW a \in Heap PROVE Owners(a) = 0
    <3>1. VarOwners(a) = {} /\ FieldOwners(a) = {} /\ FrameOwners(a) = {}
      BY <1>2, <1>3, <1>4, Apart DEF VarOwners, FieldOwners, FrameOwners
    <3>2. StackOwners(a) = {}
      BY <1>0, <1>3, Apart DEF StackOwners, StackOwns
    <3> QED BY <3>1, <3>2, FS_EmptySet DEF Owners
  <2> QED BY <1>0, <2>1 DEF OwnersInv
<1>10. FieldsInv
  BY <1>4 DEF FieldsInv
<1>11. RetainsInv
  <2>1. \A o \in Object : ObjectFields(o) = {}
    BY <1>4 DEF ObjectFields
  <2> QED BY Zenon, <1>2, <2>1, FS_EmptySet DEF RetainsInv
<1> QED BY <1>5, <1>6, <1>7, <1>8, <1>9, <1>10, <1>11 DEF IInv, CoreInv

LEMMA Stutters ==
  ASSUME IInv, UNCHANGED vars
  PROVE  IInv'
<1>1. UNCHANGED <<mem, var, stack, busy, scope, retains, written>>
  BY DEF vars
<1>2. CoreInv /\ FieldsInv /\ RetainsInv
  BY DEF IInv
<1>3. LiveFrames' = LiveFrames /\ \A p : FrameAt(p)' = FrameAt(p)
  BY <1>1 DEF LiveFrames, FrameAt
<1>4. HelpedFields' = HelpedFields
  BY <1>1, <1>3 DEF HelpedFields, Withholds, ToField
<1>5. \A x : Field(x)' = Field(x) /\ KindOf(x)' = KindOf(x)
  BY <1>1 DEF Field, KindOf, FlagsOf
<1>6. HeapInv' /\ StackInv'
  BY Zenon, <1>1, <1>2 DEF CoreInv, HeapInv, StackInv, IsByref
<1>7. ProgramInv'
  BY <1>1, <1>2 DEF CoreInv, ProgramInv, Idle, Mirrors, IsBlock
<1>8. ASSUME NEW p PROVE FrameInv(p)' <=> FrameInv(p)
  <2>1. (\A a : (IsBlock(a)' <=> IsBlock(a)) /\ (IsByref(a)' <=> IsByref(a)))
        /\ \A t, a : (StackBlock(t, a)' <=> StackBlock(t, a)) /\ (Borrowed(t, a)' <=> Borrowed(t, a))
    BY Zenon, <1>1, <1>5 DEF IsBlock, IsByref, StackBlock, Borrowed
  <2>2. (DestInv(p)' <=> DestInv(p)) /\ \A d : Awaited(d)' = Awaited(d)
    BY <1>1, <1>3 DEF DestInv, Awaited
  <2>3. \A t : Top(t)' = Top(t)
    BY <1>1 DEF Top
  <2>4. \A t, a : CopyArg(t, a)' <=> CopyArg(t, a)
    BY <2>1 DEF CopyArg
  <2>5. CopyInv(p)' <=> CopyInv(p)
    BY <1>1, <1>3, <2>2, <2>4 DEF CopyInv
  <2>6. CopyHelperInv(p)' <=> CopyHelperInv(p)
    BY Zenon, <1>1, <1>3, <2>1, <2>2 DEF CopyHelperInv
  <2>7. ByrefCopyInv(p)' <=> ByrefCopyInv(p)
    BY <1>1, <1>3, <2>1, <2>2, <2>3 DEF ByrefCopyInv
  <2>8. ReleaseInv(p)' <=> ReleaseInv(p)
    BY <1>1, <1>3, <2>1 DEF ReleaseInv
  <2> QED BY <2>5, <2>6, <2>7, <2>8 DEF FrameInv
<1>9. CallsInv'
  BY <1>1, <1>2, <1>3, <1>8 DEF CoreInv, CallsInv, Builds, Disposes
<1>10. ASSUME NEW a PROVE Owners(a)' = Owners(a)
  <2>1. VarOwners(a)' = VarOwners(a) /\ FieldOwners(a)' = FieldOwners(a)
    BY <1>1, <1>4, <1>5 DEF VarOwners, FieldOwners
  <2>2. FrameOwners(a)' = FrameOwners(a) /\ StackOwners(a)' = StackOwners(a)
    BY <1>1, <1>3 DEF FrameOwners, FrameOwns, StackOwners, StackOwns
  <2> QED BY <2>1, <2>2 DEF Owners
<1>11. OwnersInv'
  BY <1>1, <1>2, <1>10 DEF CoreInv, OwnersInv
<1>12. FieldsInv'
  BY <1>1, <1>2, <1>4, <1>5 DEF FieldsInv, FieldOk, IsBlock, IsByref
<1>13. RetainsInv'
  BY <1>1, <1>2, <1>4, <1>5, RetainsSame DEF ObjectFields
<1> QED BY <1>6, <1>7, <1>9, <1>11, <1>12, <1>13 DEF IInv, CoreInv

LEMMA NextInv ==
  ASSUME IInv, WellCaptured, ~SharedFrame, [Next]_vars
  PROVE  IInv'
<1>1. ASSUME NEW t \in Thread, RuntimeStep(t) PROVE IInv'
  <2>1. CASE CopyNull(t) \/ CopyHeap(t) \/ CopyGlobal(t) \/ CopyStackFails(t) \/ CopyStack(t)
    BY <2>1, CopyReturns, CopyStackStep
  <2>2. CASE AssignInPlace(t) \/ AssignBlockOrByref(t) \/ CopyDone(t)
    BY <2>2, AssignInPlaceStep, AssignBlockOrByrefStep, CopyDoneStep
  <2>3. CASE ByrefCopyFirst(t) \/ ByrefCopyAgain(t) \/ ByrefPublish(t) \/ ByrefPayload(t)
    BY <2>3, ByrefCopyFirstStep, ByrefCopyAgainStep, ByrefPublishStep, ByrefPayloadStep
  <2>4. CASE ByrefIncrement(t) \/ ByrefCopyReturn(t)
    BY <2>4, ByrefIncrementStep, ByrefCopyReturnStep
  <2>5. CASE ReleaseNothing(t) \/ ReleaseShared(t) \/ ReleaseDone(t) \/ ReleaseLast(t)
    BY <2>5, ReleaseReturns, ReleaseLastStep
  <2>6. CASE DisposeInPlace(t) \/ DisposeBlockOrByref(t)
    BY <2>6, DisposeInPlaceStep, DisposeBlockOrByrefStep
  <2>7. CASE ByrefReleaseLoad(t) \/ ByrefReleaseShared(t) \/ ByrefReleaseLast(t) \/ ByrefReleaseDone(t)
    BY <2>7, ByrefReleaseLoadStep, ByrefReleaseReturns, ByrefReleaseLastStep
  <2> QED BY <1>1, <2>1, <2>2, <2>3, <2>4, <2>5, <2>6, <2>7 DEF RuntimeStep
<1>2. ASSUME NEW t \in Thread, ProgramStep(t) PROVE IInv'
  BY <1>2, CopyBlockStep, CopyNestedStep, WriteVariableStep, DropBlockStep DEF ProgramStep
<1>3. CASE UNCHANGED vars
  BY <1>3, Stutters
<1> QED BY <1>1, <1>2, <1>3, CloseScopeStep, LeaveFrameStep DEF Next

\* Memory is what the runtime takes it for and each reference is somebody's, for any
\* number of threads, variables and literals: the state that every call finds.
THEOREM InvariantHolds == ~SharedFrame /\ WellCaptured => (Spec => []IInv)
<1>1. Init => IInv
  BY InitInv
<1>2. SUFFICES ASSUME ~SharedFrame, WellCaptured PROVE Spec => []IInv
  OBVIOUS
<1>3. IInv /\ [Next]_vars => IInv'
  BY <1>2, NextInv
<1> QED BY <1>1, <1>3, PTL DEF Spec

=============================================================================
