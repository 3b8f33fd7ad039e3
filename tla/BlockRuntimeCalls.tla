------------------------- MODULE BlockRuntimeCalls --------------------------
(***************************************************************************)
(* The inductive invariant of BlockRuntime, and the steps of the calls of  *)
(* _Block_copy, _Block_byref_copy and _Block_byref_release that keep it,   *)
(* for any number of threads, variables, __block variables and Block       *)
(* literals that capture each other to any depth.                          *)
(***************************************************************************)
EXTENDS BlockRuntime, FiniteSetTheorems, SequenceTheorems, WellFoundedInduction, TLAPS

\* What a compiler emits: a field is what its flags say, and a literal captures
\* literals that were evaluated before it.
WellCaptured ==
  /\ \A l \in Literal : \A i \in DOMAIN Captures[l] :
       LET c == Captures[l][i]   kind == AssignKind(c.flags) IN
       /\ kind = "block" => c.of \in Literal \cup {GlobalBlock, NULL}
       /\ kind = "byref" => c.of \in Byref
       /\ kind = "object" => c.of \in Object \cup {NULL}
       /\ kind \notin {"block", "byref", "object"} => c.of \notin Stack
       /\ c.flags \cap BLOCK_FIELD_IS_BYREF # {} => kind = "byref"
  /\ \E rank \in [Literal -> Nat] : \A l \in Literal : \A i \in DOMAIN Captures[l] :
       Captures[l][i].of \in Literal => rank[Captures[l][i].of] < rank[l]

-----------------------------------------------------------------------------
(* Cells *)

HeapBlock ==
  [kind : {"block"}, where : {"heap"}, isa : {"stack", "malloc"}, count : Nat,
   dying : BOOLEAN, lit : Literal, fields : Seq(Pointer)]
HeapByref ==
  [kind : {"byref"}, where : {"heap"}, count : Nat, dying : BOOLEAN,
   forwarding : Heap, of : Byref, val : Value \cup {Garbage}]

IsBlock(a) == a \in Heap /\ mem[a].kind = "block"
IsByref(a) == a \in Heap /\ mem[a].kind = "byref"

HeapInv ==
  \A a \in Heap :
    /\ mem[a] \in {FreeCell} \cup HeapBlock \cup HeapByref
    /\ mem[a].kind = "block" => Len(mem[a].fields) = Len(Captures[mem[a].lit])
    /\ mem[a].kind = "byref" => mem[a].forwarding = a
    /\ mem[a].kind # "free" => (mem[a].dying <=> mem[a].count = 0)

LiteralCell(l) == Block("stack", "stack", 0, l, [i \in DOMAIN Captures[l] |-> Captures[l][i].of])

StackInv ==
  /\ mem = [a \in Addr |-> mem[a]]
  /\ mem[GlobalBlock] = Block("global", "global", 0, GlobalBlock, <<>>)
  /\ scope # "closed" =>
       /\ \A l \in Literal : mem[l] = LiteralCell(l)
       /\ \A b \in Byref :
            /\ mem[b] = ByrefCell("stack", 0, mem[b].forwarding, b, mem[b].val)
            /\ mem[b].val \in Value
            /\ mem[b].forwarding \in Heap \cup {b}
            /\ scope = "open" /\ mem[b].forwarding # b =>
                 IsByref(mem[b].forwarding) /\ mem[mem[b].forwarding].of = b
  /\ scope = "closed" => \A a \in Byref \cup Literal : mem[a] = FreeCell

\* A body's own literal has the captures of the Block that runs: a literal of the
\* declaring function, or a Block that stays in its variable meanwhile.
Mirrors(t) ==
  \/ t = Main /\ scope = "open" /\ \E l \in Literal : mem[Inner[t]] = LiteralCell(l)
  \/ \E v \in busy[t] :
       /\ IsBlock(var[v])
       /\ mem[Inner[t]] = Block("stack", "stack", 0, mem[var[v]].lit, mem[var[v]].fields)

ProgramInv ==
  /\ var \in [Var -> Heap \cup {GlobalBlock, NULL}]
  /\ busy \in [Thread -> SUBSET Var]
  /\ scope \in {"open", "closing", "closed"}
  /\ retains = [o \in Object |-> retains[o]]
  /\ written \in [Byref -> Value]
  /\ \A v \in Var : var[v] \in Heap => mem[var[v]].kind = "block"
  /\ \A t \in Thread : Idle(t) => busy[t] = {} /\ mem[Inner[t]] = FreeCell
  /\ \A t \in Thread : mem[Inner[t]] = FreeCell \/ Mirrors(t)

-----------------------------------------------------------------------------
(* Calls *)

Dest == [var : Var] \cup [block : Heap, field : Nat]
Frame ==
  [fn : {"copy"}, arg : Pointer, dest : Dest]
    \cup [fn : {"copyHelper"}, result : Heap, arg : Addr, i : Nat, dest : Dest]
    \cup [fn : {"byrefCopy"}, arg : Addr, dest : Dest,
          pc : {"check", "publish", "payload", "increment", "return"}, copy : Heap \cup {NULL}]
    \cup [fn : {"release"}, arg : Pointer]
    \cup [fn : {"disposeHelper"}, arg : Heap, i : Nat]
    \cup [fn : {"byrefRelease"}, arg : Addr, pc : {"load", "decrement", "free"}]

\* the innermost call of t
Top(t) == <<t, Len(stack[t])>>

\* A variable that the current operation of t reads keeps a Block, and that its
\* fields.
Borrowed(t, a) ==
  \E v \in busy[t] :
    \/ var[v] = a
    \/ /\ IsBlock(var[v])
       /\ \E i \in DOMAIN mem[var[v]].fields :
            mem[var[v]].fields[i] = a /\ KindOf(<<var[v], i>>) \in {"block", "byref"}

\* a Block on the stack of t
StackBlock(t, a) ==
  \/ a \in Literal /\ t = Main /\ scope = "open"
  \/ a = Inner[t] /\ mem[a].kind = "block"

\* the Block a call of _Block_copy finds: none, on the stack of its thread, or on
\* the heap and kept there meanwhile
CopyArg(t, a) ==
  \/ a \in {NULL, GlobalBlock}
  \/ StackBlock(t, a)
  \/ IsBlock(a) /\ Borrowed(t, a)

\* what the field that awaits a result was captured as
Awaited(dest) == Captures[mem[dest.block].lit][dest.field]

\* A result goes to a variable that nobody else uses, or to the field that the
\* caller's copy helper is at.
DestInv(p) ==
  LET f == FrameAt(p)   g == FrameAt(<<p[1], p[2] - 1>>) IN
  IF IsVar(f.dest)
  THEN /\ p[2] = 1
       /\ f.dest.var \in busy[p[1]] /\ var[f.dest.var] = NULL
       /\ \A u \in Thread \ {p[1]} : f.dest.var \notin busy[u]
  ELSE /\ p[2] > 1
       /\ g.fn = "copyHelper" /\ g.i > 1
       /\ f.dest = ToField(g.result, g.i - 1)

CopyInv(p) ==
  LET f == FrameAt(p) IN
  f.fn = "copy" =>
    /\ DestInv(p)
    /\ CopyArg(p[1], f.arg)
    /\ ~IsVar(f.dest) =>
         /\ AssignKind(Awaited(f.dest).flags) = "block"
         /\ (f.arg \notin {NULL, GlobalBlock} => mem[f.arg].lit = Awaited(f.dest).of)

CopyHelperInv(p) ==
  LET f == FrameAt(p) IN
  f.fn = "copyHelper" =>
    /\ DestInv(p)
    /\ StackBlock(p[1], f.arg)
    /\ IsBlock(f.result) /\ mem[f.result].isa = "stack" /\ mem[f.result].count = 1
    /\ mem[f.result].lit = mem[f.arg].lit
    /\ Len(mem[f.result].fields) = Len(mem[f.arg].fields)
    /\ f.i \in 1 .. Len(mem[f.arg].fields) + 1
    /\ \A j \in f.i .. Len(mem[f.arg].fields) : mem[f.result].fields[j] = mem[f.arg].fields[j]
    /\ ~IsVar(f.dest) =>
         AssignKind(Awaited(f.dest).flags) = "block" /\ mem[f.result].lit = Awaited(f.dest).of

ByrefCopyInv(p) ==
  LET f == FrameAt(p) IN
  f.fn = "byrefCopy" =>
    /\ p = Top(p[1])
    /\ DestInv(p) /\ ~IsVar(f.dest)
    /\ AssignKind(Awaited(f.dest).flags) = "byref"
    /\ \/ f.arg \in Byref /\ p[1] = Main /\ scope = "open"
       \/ IsByref(f.arg) /\ Borrowed(p[1], f.arg)
    /\ mem[f.arg].of = Awaited(f.dest).of
    /\ f.pc \in {"publish", "payload"} =>
         /\ f.arg \in Byref
         /\ IsByref(f.copy) /\ mem[f.copy].of = f.arg
         /\ mem[f.arg].forwarding = IF f.pc = "publish" THEN f.arg ELSE f.copy
    /\ f.pc \in {"increment", "return"} => mem[f.arg].forwarding \in Heap

ReleaseInv(p) ==
  LET f == FrameAt(p) IN
  /\ f.fn = "release" => f.arg \in {NULL, GlobalBlock} \/ IsBlock(f.arg)
  /\ f.fn = "disposeHelper" =>
       IsBlock(f.arg) /\ mem[f.arg].dying /\ f.i \in 1 .. Len(mem[f.arg].fields) + 1
  /\ f.fn = "byrefRelease" =>
       \/ /\ f.pc = "load" /\ f.arg \in Byref /\ p[1] = Main /\ scope = "closing"
          /\ mem[f.arg].forwarding = f.arg \/ IsByref(mem[f.arg].forwarding)
       \/ IsByref(f.arg) /\ (f.pc = "free" => mem[f.arg].dying)

FrameInv(p) == CopyInv(p) /\ CopyHelperInv(p) /\ ByrefCopyInv(p) /\ ReleaseInv(p)

Builds(f, a) == f.fn = "copyHelper" /\ f.result = a
Disposes(f, a) ==
  f.arg = a /\ (f.fn = "disposeHelper" \/ (f.fn = "byrefRelease" /\ f.pc = "free"))

\* A Block without an isa is being made, what is dying is being disposed of, and
\* by one call only.
CallsInv ==
  /\ stack \in [Thread -> Seq(Frame)]
  /\ \A p \in LiveFrames : FrameInv(p)
  /\ \A a \in Heap : mem[a].kind = "block" /\ mem[a].isa = "stack" =>
       \E p \in LiveFrames : Builds(FrameAt(p), a)
  /\ \A a \in Heap : mem[a].kind # "free" /\ mem[a].dying =>
       \E p \in LiveFrames : Disposes(FrameAt(p), a)
  /\ \A a \in Heap, p, q \in LiveFrames :
       Disposes(FrameAt(p), a) /\ Disposes(FrameAt(q), a) => p = q

-----------------------------------------------------------------------------
(* Owners *)

\* A field that is dealt with refers to what the compiler says, and to the heap.
FieldOk(x) ==
  LET c == Captures[mem[x[1]].lit][x[2]] IN
  /\ Field(x) \notin Stack
  /\ KindOf(x) = "block" =>
       \/ Field(x) \in {GlobalBlock, NULL}
       \/ IsBlock(Field(x)) /\ mem[Field(x)].lit = c.of
  /\ KindOf(x) = "byref" => IsByref(Field(x)) /\ mem[Field(x)].of = c.of
  /\ KindOf(x) = "object" => Field(x) \in Object \cup {NULL}

FieldsInv == \A x \in HelpedFields : FieldOk(x)

OwnersInv ==
  \A a \in Heap : Owners(a) = IF mem[a].kind = "free" THEN 0 ELSE mem[a].count

-----------------------------------------------------------------------------
(* Frames and where they are *)

LEMMA DestShape ==
  ASSUME NEW d \in Dest
  PROVE  \/ IsVar(d) /\ d.var \in Var /\ d = ToVar(d.var)
         \/ ~IsVar(d) /\ d.block \in Heap /\ d.field \in Nat /\ d = ToField(d.block, d.field)
BY DEF Dest, IsVar, ToVar, ToField

LEMMA FrameShape ==
  ASSUME NEW f \in Frame
  PROVE  /\ f.fn \in {"copy", "copyHelper", "byrefCopy", "release", "disposeHelper", "byrefRelease"}
         /\ f.fn = "copy" => f.arg \in Pointer /\ f.dest \in Dest
         /\ f.fn = "copyHelper" =>
              f.arg \in Addr /\ f.result \in Heap /\ f.i \in Nat /\ f.dest \in Dest
         /\ f.fn = "byrefCopy" =>
              /\ f.arg \in Addr /\ f.dest \in Dest /\ f.copy \in Heap \cup {NULL}
              /\ f.pc \in {"check", "publish", "payload", "increment", "return"}
         /\ f.fn = "release" => f.arg \in Pointer
         /\ f.fn = "disposeHelper" => f.arg \in Heap /\ f.i \in Nat
         /\ f.fn = "byrefRelease" => f.arg \in Addr /\ f.pc \in {"load", "decrement", "free"}
BY DEF Frame

LEMMA LiveShape ==
  ASSUME CallsInv, NEW p
  PROVE  /\ p \in LiveFrames <=>
              p = <<p[1], p[2]>> /\ p[1] \in Thread /\ p[2] \in 1 .. Len(stack[p[1]])
         /\ p \in LiveFrames => FrameAt(p) \in Frame
<1>1. \A t \in Thread : stack[t] \in Seq(Frame) /\ Len(stack[t]) \in Nat
  BY DEF CallsInv
<1>2. \A t \in Thread : DOMAIN stack[t] = 1 .. Len(stack[t])
  BY <1>1
<1>3. ASSUME p = <<p[1], p[2]>>, p[1] \in Thread, p[2] \in 1 .. Len(stack[p[1]])
      PROVE  p \in LiveFrames
  BY <1>2, <1>3 DEF LiveFrames
<1>4. ASSUME p \in LiveFrames
      PROVE  p = <<p[1], p[2]>> /\ p[1] \in Thread /\ p[2] \in 1 .. Len(stack[p[1]])
  BY <1>2, <1>4 DEF LiveFrames
<1>5. ASSUME p \in LiveFrames PROVE FrameAt(p) \in Frame
  BY <1>1, <1>4, <1>5 DEF FrameAt
<1> QED BY <1>3, <1>4, <1>5

LEMMA FromOutermost ==
  ASSUME NEW S, NEW s \in Seq(S), s # <<>>, NEW fs \in Seq(S)
  PROVE  LET r == fs \o Tail(s) IN
         /\ r \in Seq(S)
         /\ Len(r) = Len(fs) + Len(s) - 1
         /\ \A k \in 1 .. Len(s) - 1 : r[Len(r) + 1 - k] = s[Len(s) + 1 - k]
         /\ \A k \in 1 .. Len(fs) : r[Len(r) + 1 - (Len(s) - 1 + k)] = fs[Len(fs) + 1 - k]
<1> DEFINE r == fs \o Tail(s)
<1>1. Tail(s) \in Seq(S) /\ Len(s) \in Nat \ {0} /\ Len(fs) \in Nat /\ Len(Tail(s)) = Len(s) - 1
  OBVIOUS
<1>2. \A j \in 1 .. Len(s) - 1 : Tail(s)[j] = s[j + 1]
  OBVIOUS
<1>3. r \in Seq(S) /\ Len(r) = Len(fs) + Len(s) - 1
  BY <1>1
<1>4. \A j \in 1 .. Len(r) : r[j] = IF j <= Len(fs) THEN fs[j] ELSE Tail(s)[j - Len(fs)]
  BY <1>1
<1>5. ASSUME NEW k \in 1 .. Len(s) - 1 PROVE r[Len(r) + 1 - k] = s[Len(s) + 1 - k]
  <2>1. Len(r) + 1 - k \in 1 .. Len(r) /\ Len(r) + 1 - k > Len(fs)
    BY <1>1, <1>3
  <2>2. Len(r) + 1 - k - Len(fs) = Len(s) - k /\ Len(s) - k \in 1 .. Len(s) - 1
    BY <1>1, <1>3
  <2>3. r[Len(r) + 1 - k] = Tail(s)[Len(s) - k]
    BY <1>1, <1>3, <1>4, <2>1, <2>2
  <2>4. Tail(s)[Len(s) - k] = s[Len(s) - k + 1]
    BY <1>2, <2>2
  <2>5. Len(s) - k + 1 = Len(s) + 1 - k
    BY <1>1
  <2> QED BY <2>3, <2>4, <2>5
<1>6. ASSUME NEW k \in 1 .. Len(fs)
      PROVE  r[Len(r) + 1 - (Len(s) - 1 + k)] = fs[Len(fs) + 1 - k]
  <2>1. Len(r) + 1 - (Len(s) - 1 + k) = Len(fs) + 1 - k
    BY <1>1, <1>3
  <2>2. Len(fs) + 1 - k \in 1 .. Len(r) /\ Len(fs) + 1 - k <= Len(fs)
    BY <1>1, <1>3
  <2> HIDE DEF r
  <2> QED BY <1>4, <2>1, <2>2
<1> QED BY <1>3, <1>5, <1>6

\* What "Continue" does to the calls: all but the innermost stay where they are.
LEMMA ContinueFrames ==
  ASSUME CallsInv, NEW t \in Thread, ~Idle(t), NEW fs \in Seq(Frame), Continue(t, fs),
         NEW n, n = Len(stack[t])
  PROVE  /\ stack' \in [Thread -> Seq(Frame)]
         /\ Len(stack'[t]) = n - 1 + Len(fs)
         /\ \A u \in Thread \ {t} : stack'[u] = stack[u]
         /\ LiveFrames' = (LiveFrames \ {Top(t)}) \cup {<<t, k>> : k \in n .. n - 1 + Len(fs)}
         /\ \A p \in LiveFrames : p # Top(t) => FrameAt(p)' = FrameAt(p)
         /\ \A p \in LiveFrames' : p[1] = t /\ p[2] >= n => FrameAt(p)' = fs[Len(fs) + n - p[2]]
<1>1. stack \in [Thread -> Seq(Frame)] /\ stack[t] \in Seq(Frame) /\ stack[t] # <<>>
  BY DEF CallsInv, Idle
<1>2. stack'[t] = fs \o Tail(stack[t]) /\ \A u \in Thread \ {t} : stack'[u] = stack[u]
  BY Zenon, <1>1 DEF Continue
<1>3. /\ stack'[t] \in Seq(Frame)
      /\ Len(stack'[t]) = Len(fs) + n - 1
      /\ \A k \in 1 .. n - 1 : stack'[t][Len(stack'[t]) + 1 - k] = stack[t][n + 1 - k]
      /\ \A k \in 1 .. Len(fs) :
           stack'[t][Len(stack'[t]) + 1 - (n - 1 + k)] = fs[Len(fs) + 1 - k]
  BY <1>1, <1>2, FromOutermost
<1>4. stack' \in [Thread -> Seq(Frame)]
  BY <1>1, <1>3 DEF Continue
<1>5. n \in Nat \ {0} /\ Len(fs) \in Nat
  <2>1. Len(stack[t]) \in Nat \ {0} /\ Len(fs) \in Nat
    BY <1>1
  <2> QED BY <2>1
<1>6. \A p : p \in LiveFrames' <=>
        p = <<p[1], p[2]>> /\ p[1] \in Thread /\ p[2] \in 1 .. Len(stack'[p[1]])
  <2>1. \A u \in Thread : DOMAIN stack'[u] = 1 .. Len(stack'[u])
    BY <1>4
  <2> QED BY <2>1 DEF LiveFrames
<1>7. \A p : p \in LiveFrames <=>
        p = <<p[1], p[2]>> /\ p[1] \in Thread /\ p[2] \in 1 .. Len(stack[p[1]])
  BY LiveShape
<1>8. LiveFrames' = (LiveFrames \ {Top(t)}) \cup {<<t, k>> : k \in n .. n - 1 + Len(fs)}
  <2>1. ASSUME NEW p \in LiveFrames'
        PROVE  p \in (LiveFrames \ {Top(t)}) \cup {<<t, k>> : k \in n .. n - 1 + Len(fs)}
    <3>1. p = <<p[1], p[2]>> /\ p[1] \in Thread /\ p[2] \in 1 .. Len(stack'[p[1]])
      BY <1>6, <2>1
    <3>2. CASE p[1] # t
      BY <1>2, <1>7, <3>1, <3>2 DEF Top
    <3>3. CASE p[1] = t
      <4>1. p[2] \in 1 .. Len(fs) + n - 1
        BY <1>3, <3>1, <3>3
      <4>2. p[2] \in 1 .. n - 1 \/ p[2] \in n .. n - 1 + Len(fs)
        BY <1>5, <4>1
      <4>3. ASSUME p[2] \in 1 .. n - 1 PROVE p \in LiveFrames \ {Top(t)}
        BY <1>5, <1>7, <3>1, <3>3, <4>3 DEF Top
      <4>4. ASSUME p[2] \in n .. n - 1 + Len(fs)
            PROVE  p \in {<<t, k>> : k \in n .. n - 1 + Len(fs)}
        BY <3>1, <3>3, <4>4
      <4> QED BY <4>2, <4>3, <4>4
    <3> QED BY <3>2, <3>3
  <2>2. ASSUME NEW p \in LiveFrames, p # Top(t) PROVE p \in LiveFrames'
    <3>1. p = <<p[1], p[2]>> /\ p[1] \in Thread /\ p[2] \in 1 .. Len(stack[p[1]])
      BY <1>7, <2>2
    <3>2. CASE p[1] # t
      BY <1>2, <1>6, <3>1, <3>2
    <3>3. CASE p[1] = t
      <4>1. p[2] # n
        BY <2>2, <3>1, <3>3 DEF Top
      <4>2. p[2] \in 1 .. Len(fs) + n - 1
        BY <1>5, <3>1, <3>3, <4>1
      <4> QED BY Zenon, <1>3, <1>6, <3>1, <3>3, <4>2
    <3> QED BY <3>2, <3>3
  <2>3. ASSUME NEW k \in n .. n - 1 + Len(fs) PROVE <<t, k>> \in LiveFrames'
    <3>1. k \in 1 .. Len(fs) + n - 1
      BY <1>5
    <3> QED BY Zenon, <1>3, <1>6, <3>1
  <2> QED BY <2>1, <2>2, <2>3
<1>9. ASSUME NEW p \in LiveFrames, p # Top(t)
      PROVE  FrameAt(p)' = FrameAt(p)
  <2>1. p = <<p[1], p[2]>> /\ p[1] \in Thread /\ p[2] \in 1 .. Len(stack[p[1]])
    BY <1>7
  <2>2. CASE p[1] # t
    BY <1>2, <2>1, <2>2 DEF FrameAt
  <2>3. CASE p[1] = t
    <3>1. p[2] \in 1 .. n - 1
      BY <1>5, <1>9, <2>1, <2>3 DEF Top
    <3> QED BY Zenon, <1>3, <2>3, <3>1 DEF FrameAt
  <2> QED BY <2>2, <2>3
<1>10. ASSUME NEW p \in LiveFrames', p[1] = t, p[2] >= n
       PROVE  FrameAt(p)' = fs[Len(fs) + n - p[2]]
  <2>1. p[2] \in 1 .. Len(fs) + n - 1
    BY Zenon, <1>3, <1>6, <1>10
  <2>2. PICK k \in 1 .. Len(fs) : p[2] = n - 1 + k
    <3>1. p[2] - n + 1 \in 1 .. Len(fs) /\ p[2] = n - 1 + (p[2] - n + 1)
      BY SMTT(20), <1>5, <1>10, <2>1
    <3> QED BY <3>1
  <2>3. FrameAt(p)' = stack'[t][Len(stack'[t]) + 1 - (n - 1 + k)]
    BY <1>10, <2>2 DEF FrameAt
  <2>4. Len(fs) + 1 - k = Len(fs) + n - p[2]
    BY <1>5, <2>2
  <2> QED BY <1>3, <2>3, <2>4
<1> QED BY <1>2, <1>3, <1>4, <1>8, <1>9, <1>10

LEMMA TopFrame ==
  ASSUME CallsInv, NEW t \in Thread, ~Idle(t)
  PROVE  /\ Top(t) \in LiveFrames
         /\ FrameAt(Top(t)) = Head(stack[t])
         /\ Top(t)[1] = t /\ Top(t)[2] = Len(stack[t]) /\ Len(stack[t]) \in Nat \ {0}
         /\ \A p \in LiveFrames : p[1] = t => p[2] \in 1 .. Len(stack[t])
<1>1. stack[t] \in Seq(Frame) /\ stack[t] # <<>> /\ Len(stack[t]) \in Nat \ {0}
  BY DEF CallsInv, Idle
<1>2. FrameAt(Top(t)) = stack[t][1]
  BY <1>1 DEF FrameAt, Top
<1> QED BY <1>1, <1>2, LiveShape DEF Top

\* A call returns.
LEMMA Popped ==
  ASSUME CallsInv, NEW t \in Thread, ~Idle(t), NEW P, P = Top(t), Continue(t, <<>>)
  PROVE  /\ stack' \in [Thread -> Seq(Frame)]
         /\ LiveFrames' = LiveFrames \ {P}
         /\ \A p \in LiveFrames : p # P => FrameAt(p)' = FrameAt(p)
         /\ Idle(t)' <=> Len(stack[t]) = 1
         /\ \A u \in Thread : u # t => stack'[u] = stack[u]
<1>1. PICK fs \in Seq(Frame) : fs = <<>> /\ Len(fs) = 0
  <2>1. <<>> \in Seq(Frame) /\ Len(<<>>) = 0
    OBVIOUS
  <2> QED BY Zenon, <2>1
<1>2. PICK n : n = Len(stack[t])
  BY Zenon
<1>3. n \in Nat \ {0} /\ stack[t] \in Seq(Frame) /\ stack[t] # <<>>
  BY <1>2 DEF CallsInv, Idle
<1>4. /\ stack' \in [Thread -> Seq(Frame)]
      /\ Len(stack'[t]) = n - 1 + Len(fs)
      /\ LiveFrames' = (LiveFrames \ {Top(t)}) \cup {<<t, k>> : k \in n .. n - 1 + Len(fs)}
      /\ \A p \in LiveFrames : p # P => FrameAt(p)' = FrameAt(p)
      /\ \A u \in Thread \ {t} : stack'[u] = stack[u]
  BY Zenon, <1>1, <1>2, ContinueFrames
<1>5. n .. n - 1 + Len(fs) = {}
  BY <1>1, <1>3
<1>6. stack'[t] = <<>> <=> Len(stack'[t]) = 0
  BY <1>4
<1> QED BY <1>1, <1>2, <1>3, <1>4, <1>5, <1>6 DEF Idle

\* A call goes on as g.
LEMMA Replaced ==
  ASSUME CallsInv, NEW t \in Thread, ~Idle(t), NEW P, P = Top(t),
         NEW g \in Frame, Continue(t, <<g>>)
  PROVE  /\ stack' \in [Thread -> Seq(Frame)]
         /\ LiveFrames' = LiveFrames
         /\ \A p \in LiveFrames : p # P => FrameAt(p)' = FrameAt(p)
         /\ FrameAt(P)' = g
         /\ \A u \in Thread : Len(stack'[u]) = Len(stack[u])
<1>1. PICK fs \in Seq(Frame) : fs = <<g>> /\ Len(fs) = 1 /\ fs[1] = g
  OBVIOUS
<1>2. PICK n : n = Len(stack[t])
  BY Zenon
<1>3. n \in Nat \ {0} /\ stack[t] \in Seq(Frame) /\ stack[t] # <<>>
  BY <1>2 DEF CallsInv, Idle
<1>4. /\ stack' \in [Thread -> Seq(Frame)]
      /\ Len(stack'[t]) = n - 1 + Len(fs)
      /\ LiveFrames' = (LiveFrames \ {Top(t)}) \cup {<<t, k>> : k \in n .. n - 1 + Len(fs)}
      /\ \A p \in LiveFrames : p # P => FrameAt(p)' = FrameAt(p)
      /\ \A p \in LiveFrames' : p[1] = t /\ p[2] >= n => FrameAt(p)' = fs[Len(fs) + n - p[2]]
      /\ \A u \in Thread \ {t} : stack'[u] = stack[u]
  BY ZenonT(30), <1>1, <1>2, ContinueFrames
<1>5. n .. n - 1 + Len(fs) = {n} /\ Len(fs) + n - n = 1
  BY <1>1, <1>3
<1>6. P = <<t, n>> /\ P \in LiveFrames
  BY <1>2, TopFrame DEF Top
<1>7. LiveFrames' = LiveFrames
  BY Zenon, <1>4, <1>5, <1>6
<1>8. FrameAt(P)' = g
  <2>1. P \in LiveFrames' /\ P[1] = t /\ P[2] = n /\ n >= n
    BY <1>3, <1>6, <1>7
  <2>2. FrameAt(P)' = fs[Len(fs) + n - n]
    BY Zenon, <1>4, <2>1
  <2> QED BY <1>1, <1>5, <2>2
<1>9. Len(stack'[t]) = Len(stack[t])
  BY <1>1, <1>2, <1>3, <1>4
<1> QED BY Zenon, <1>4, <1>7, <1>8, <1>9

\* A call goes on as h and calls g.
LEMMA Pushed ==
  ASSUME CallsInv, NEW t \in Thread, ~Idle(t), NEW P, P = Top(t),
         NEW g \in Frame, NEW h \in Frame, Continue(t, <<g, h>>),
         NEW Q, Q = <<t, Len(stack[t]) + 1>>
  PROVE  /\ stack' \in [Thread -> Seq(Frame)]
         /\ LiveFrames' = LiveFrames \cup {Q} /\ Q \notin LiveFrames
         /\ \A p \in LiveFrames : p # P => FrameAt(p)' = FrameAt(p)
         /\ FrameAt(P)' = h /\ FrameAt(Q)' = g
         /\ Len(stack'[t]) = Len(stack[t]) + 1
         /\ \A u \in Thread : u # t => stack'[u] = stack[u]
<1>1. PICK fs \in Seq(Frame) : fs = <<g, h>> /\ Len(fs) = 2 /\ fs[1] = g /\ fs[2] = h
  <2>1. <<g, h>> \in Seq(Frame) /\ Len(<<g, h>>) = 2 /\ <<g, h>>[1] = g /\ <<g, h>>[2] = h
    OBVIOUS
  <2> QED BY Zenon, <2>1
<1>2. PICK n : n = Len(stack[t])
  BY Zenon
<1>3. n \in Nat \ {0} /\ stack[t] \in Seq(Frame) /\ stack[t] # <<>>
  BY <1>2 DEF CallsInv, Idle
<1>4. /\ stack' \in [Thread -> Seq(Frame)]
      /\ Len(stack'[t]) = n - 1 + Len(fs)
      /\ LiveFrames' = (LiveFrames \ {Top(t)}) \cup {<<t, k>> : k \in n .. n - 1 + Len(fs)}
      /\ \A p \in LiveFrames : p # P => FrameAt(p)' = FrameAt(p)
      /\ \A p \in LiveFrames' : p[1] = t /\ p[2] >= n => FrameAt(p)' = fs[Len(fs) + n - p[2]]
      /\ \A u \in Thread \ {t} : stack'[u] = stack[u]
  BY ZenonT(30), <1>1, <1>2, ContinueFrames
<1>5. /\ n .. n - 1 + Len(fs) = {n, n + 1}
      /\ Len(fs) + n - n = 2 /\ Len(fs) + n - (n + 1) = 1
  BY <1>1, <1>3
<1>6. P = <<t, n>> /\ P \in LiveFrames
  BY <1>2, TopFrame DEF Top
<1>7. Q = <<t, n + 1>> /\ Q \notin LiveFrames
  BY <1>2, <1>3, LiveShape
<1>8. LiveFrames' = LiveFrames \cup {Q}
  <2>1. {<<t, k>> : k \in {n, n + 1}} = {P, Q}
    BY <1>6, <1>7
  <2>2. LiveFrames' = (LiveFrames \ {P}) \cup {P, Q}
    BY Zenon, <1>4, <1>5, <2>1
  <2> QED BY Zenon, <1>6, <2>2
<1>9. FrameAt(P)' = h /\ FrameAt(Q)' = g
  <2>1. P \in LiveFrames' /\ P[1] = t /\ P[2] = n /\ n >= n
    BY <1>3, <1>6, <1>8
  <2>2. Q \in LiveFrames' /\ Q[1] = t /\ Q[2] = n + 1 /\ n + 1 >= n
    BY <1>3, <1>7, <1>8
  <2>3. FrameAt(P)' = fs[Len(fs) + n - n] /\ FrameAt(Q)' = fs[Len(fs) + n - (n + 1)]
    BY Zenon, <1>4, <2>1, <2>2
  <2> QED BY <1>1, <1>5, <2>3
<1>10. Len(stack'[t]) = Len(stack[t]) + 1
  BY <1>1, <1>2, <1>3, <1>4
<1> QED BY <1>4, <1>7, <1>8, <1>9, <1>10

-----------------------------------------------------------------------------
(* Owners *)

LEMMA PairsFinite ==
  ASSUME NEW S, IsFiniteSet(S), NEW size \in [S -> Nat]
  PROVE  IsFiniteSet(UNION {{<<s, i>> : i \in 1 .. size[s]} : s \in S})
<1> DEFINE T == {{<<s, i>> : i \in 1 .. size[s]} : s \in S}
<1>1. IsFiniteSet(T)
  <2> DEFINE f == [s \in S |-> {<<s, i>> : i \in 1 .. size[s]}]
  <2>1. f \in [S -> T]
    OBVIOUS
  <2>2. ASSUME NEW U \in T PROVE \E s \in S : f[s] = U
    OBVIOUS
  <2>3. f \in Surjection(S, T)
    BY Zenon, <2>1, <2>2 DEF Surjection
  <2> QED BY <2>3, FS_Surjection
<1>2. ASSUME NEW U \in T PROVE IsFiniteSet(U)
  <2>1. PICK s \in S : U = {<<s, i>> : i \in 1 .. size[s]}
    OBVIOUS
  <2> DEFINE f == [i \in 1 .. size[s] |-> <<s, i>>]
  <2>2. f \in Surjection(1 .. size[s], U)
    BY Zenon, <2>1 DEF Surjection
  <2>3. IsFiniteSet(1 .. size[s])
    BY FS_Interval
  <2> QED BY <2>2, <2>3, FS_Surjection
<1> QED BY Zenon, <1>1, <1>2, FS_UNION

LEMMA FramesFinite ==
  ASSUME CallsInv
  PROVE  IsFiniteSet(LiveFrames)
<1> DEFINE size == [t \in Thread |-> Len(stack[t])]
<1>1. \A t \in Thread : size[t] \in Nat /\ DOMAIN stack[t] = 1 .. size[t]
  BY DEF CallsInv
<1>2. size \in [Thread -> Nat] /\ IsFiniteSet(Thread)
  BY <1>1, ProgramAssumption
<1>3. IsFiniteSet(UNION {{<<s, i>> : i \in 1 .. size[s]} : s \in Thread})
  BY Zenon, <1>2, PairsFinite
<1>4. LiveFrames = UNION {{<<s, i>> : i \in 1 .. size[s]} : s \in Thread}
  BY <1>1 DEF LiveFrames
<1> QED BY <1>3, <1>4

\* x is a field of a Block on the heap
IsField(x) == IsBlock(x[1]) /\ x[2] \in DOMAIN mem[x[1]].fields /\ x = <<x[1], x[2]>>

LEMMA HelpedShape ==
  ASSUME NEW x
  PROVE  x \in HelpedFields <=>
           IsField(x) /\ \A p \in LiveFrames : ~Withholds(FrameAt(p), x)
BY DEF HelpedFields, IsField, IsBlock

LEMMA FieldsFinite ==
  ASSUME HeapInv
  PROVE  IsFiniteSet(HelpedFields)
<1> DEFINE B == {a \in Heap : mem[a].kind = "block"}
           size == [a \in B |-> Len(mem[a].fields)]
<1>1. \A a \in B : size[a] \in Nat /\ DOMAIN mem[a].fields = 1 .. size[a]
  BY DEF HeapInv, HeapBlock, HeapByref, FreeCell
<1>2. IsFiniteSet(B)
  BY ProgramAssumption, FS_Interval, FS_Subset DEF Heap
<1>3. IsFiniteSet(UNION {{<<s, i>> : i \in 1 .. size[s]} : s \in B})
  <2>1. size \in [B -> Nat]
    BY <1>1
  <2> HIDE DEF B, size
  <2> QED BY <1>2, <2>1, PairsFinite
<1>4. HelpedFields \subseteq UNION {{<<s, i>> : i \in 1 .. size[s]} : s \in B}
  BY <1>1 DEF HelpedFields
<1> QED BY <1>3, <1>4, FS_Subset

LEMMA OwnersFinite ==
  ASSUME HeapInv, CallsInv, NEW a
  PROVE  /\ IsFiniteSet(VarOwners(a)) /\ IsFiniteSet(FieldOwners(a))
         /\ IsFiniteSet(FrameOwners(a)) /\ IsFiniteSet(StackOwners(a))
<1>1. VarOwners(a) \subseteq Var /\ StackOwners(a) \subseteq Byref
  BY DEF VarOwners, StackOwners
<1>2. FieldOwners(a) \subseteq HelpedFields /\ FrameOwners(a) \subseteq LiveFrames
  BY DEF FieldOwners, FrameOwners
<1> QED BY <1>1, <1>2, ProgramAssumption, FramesFinite, FieldsFinite, FS_Subset

LEMMA OneOrMore ==
  ASSUME NEW S, IsFiniteSet(S)
  PROVE  /\ Cardinality(S) \in Nat
         /\ Cardinality(S) = 0 <=> S = {}
         /\ \A x \in S : Cardinality(S) >= 1 /\ (Cardinality(S) = 1 => S = {x})
<1>1. Cardinality(S) \in Nat /\ (Cardinality(S) = 0 <=> S = {})
  BY FS_CardinalityType, FS_EmptySet
<1>2. ASSUME NEW x \in S, Cardinality(S) = 1 PROVE S = {x}
  <2>1. IsFiniteSet(S \ {x}) /\ Cardinality(S \ {x}) = Cardinality(S) - 1
    BY FS_RemoveElement
  <2>2. S \ {x} = {}
    BY <1>2, <2>1, FS_EmptySet
  <2> QED BY <2>2
<1> QED BY <1>1, <1>2

\* What has an owner is on the heap and not dying, and the count says so;
LEMMA Owned ==
  ASSUME HeapInv, CallsInv, OwnersInv, NEW a \in Heap,
         VarOwners(a) # {} \/ FieldOwners(a) # {} \/ FrameOwners(a) # {} \/ StackOwners(a) # {}
  PROVE  mem[a].kind # "free" /\ ~mem[a].dying /\ mem[a].count >= 1
<1>1. /\ Cardinality(VarOwners(a)) \in Nat /\ Cardinality(FieldOwners(a)) \in Nat
      /\ Cardinality(FrameOwners(a)) \in Nat /\ Cardinality(StackOwners(a)) \in Nat
      /\ Cardinality(VarOwners(a)) = 0 <=> VarOwners(a) = {}
      /\ Cardinality(FieldOwners(a)) = 0 <=> FieldOwners(a) = {}
      /\ Cardinality(FrameOwners(a)) = 0 <=> FrameOwners(a) = {}
      /\ Cardinality(StackOwners(a)) = 0 <=> StackOwners(a) = {}
  BY OwnersFinite, OneOrMore
<1>2. Owners(a) >= 1
  BY <1>1 DEF Owners
<1>3. Owners(a) = IF mem[a].kind = "free" THEN 0 ELSE mem[a].count
  BY DEF OwnersInv
<1>4. mem[a].kind # "free" => (mem[a].dying <=> mem[a].count = 0)
  BY DEF HeapInv
<1> QED BY <1>2, <1>3, <1>4

\* a Block that is being made has no owner but the call that makes it.
LEMMA Unshared ==
  ASSUME HeapInv, CallsInv, OwnersInv, NEW p \in LiveFrames, NEW a \in Heap,
         FrameOwns(FrameAt(p), a), mem[a].count = 1
  PROVE  VarOwners(a) = {} /\ FieldOwners(a) = {} /\ FrameOwners(a) = {p} /\ StackOwners(a) = {}
<1>1. p \in FrameOwners(a)
  BY DEF FrameOwners
<1>2. /\ Cardinality(VarOwners(a)) \in Nat /\ Cardinality(FieldOwners(a)) \in Nat
      /\ Cardinality(FrameOwners(a)) \in Nat /\ Cardinality(StackOwners(a)) \in Nat
      /\ Cardinality(VarOwners(a)) = 0 <=> VarOwners(a) = {}
      /\ Cardinality(FieldOwners(a)) = 0 <=> FieldOwners(a) = {}
      /\ Cardinality(FrameOwners(a)) >= 1
      /\ Cardinality(FrameOwners(a)) = 1 => FrameOwners(a) = {p}
      /\ Cardinality(StackOwners(a)) = 0 <=> StackOwners(a) = {}
  BY <1>1, OwnersFinite, OneOrMore
<1>3. Owners(a) = 1
  BY <1>1, Owned DEF OwnersInv
<1> QED BY <1>2, <1>3 DEF Owners

LEMMA Unowned ==
  ASSUME HeapInv, CallsInv, OwnersInv, NEW a \in Heap, mem[a].kind = "free" \/ mem[a].dying
  PROVE  VarOwners(a) = {} /\ FieldOwners(a) = {} /\ FrameOwners(a) = {} /\ StackOwners(a) = {}
BY Owned

-----------------------------------------------------------------------------
(* Blocks that are held, and those that are being made *)

\* A call whose result goes to a field was made by the copy helper of its Block.
LEMMA DestCaller ==
  ASSUME CallsInv, NEW p \in LiveFrames, NEW f, f = FrameAt(p), NEW q, q = <<p[1], p[2] - 1>>,
         f.fn \in {"copy", "copyHelper", "byrefCopy"}, ~IsVar(f.dest)
  PROVE  /\ q \in LiveFrames /\ p[2] > 1
         /\ FrameAt(q).fn = "copyHelper" /\ FrameAt(q).i > 1
         /\ f.dest = ToField(FrameAt(q).result, FrameAt(q).i - 1)
         /\ f.dest.block = FrameAt(q).result /\ f.dest.field = FrameAt(q).i - 1
         /\ f.dest.block \in Heap /\ FrameAt(q).i \in Nat
<1>1. DestInv(p) /\ FrameAt(p) \in Frame
  BY LiveShape DEF CallsInv, FrameInv, CopyInv, CopyHelperInv, ByrefCopyInv
<1>2. /\ p[2] > 1 /\ FrameAt(q).fn = "copyHelper" /\ FrameAt(q).i > 1
      /\ f.dest = ToField(FrameAt(q).result, FrameAt(q).i - 1)
  BY <1>1 DEF DestInv
<1>3. p[1] \in Thread /\ p[2] \in 1 .. Len(stack[p[1]]) /\ Len(stack[p[1]]) \in Nat
  BY LiveShape DEF CallsInv
<1>4. p[2] - 1 \in 1 .. Len(stack[p[1]]) /\ q = <<q[1], q[2]>> /\ q[1] = p[1] /\ q[2] = p[2] - 1
  BY <1>2, <1>3
<1>5. q \in LiveFrames
  BY <1>3, <1>4, LiveShape
<1>6. FrameAt(q).result \in Heap /\ FrameAt(q).i \in Nat
  BY <1>2, <1>5, LiveShape, FrameShape
<1>7. f.dest.block = FrameAt(q).result /\ f.dest.field = FrameAt(q).i - 1
  BY <1>2 DEF ToField
<1> QED BY <1>2, <1>5, <1>6, <1>7

\* the Block that a copy helper fills
LEMMA Draft ==
  ASSUME HeapInv, CallsInv, OwnersInv, NEW p \in LiveFrames, NEW a, Builds(FrameAt(p), a)
  PROVE  /\ IsBlock(a) /\ mem[a].isa = "stack" /\ mem[a].count = 1 /\ ~mem[a].dying
         /\ VarOwners(a) = {} /\ FieldOwners(a) = {} /\ FrameOwners(a) = {p} /\ StackOwners(a) = {}
         /\ \A q \in LiveFrames : Builds(FrameAt(q), a) => q = p
<1>1. IsBlock(a) /\ mem[a].isa = "stack" /\ mem[a].count = 1
  BY DEF Builds, CallsInv, FrameInv, CopyHelperInv
<1>2. \A q \in LiveFrames : Builds(FrameAt(q), a) => FrameOwns(FrameAt(q), a)
  BY DEF Builds, FrameOwns
<1>3. VarOwners(a) = {} /\ FieldOwners(a) = {} /\ FrameOwners(a) = {p} /\ StackOwners(a) = {}
  BY <1>1, <1>2, Unshared DEF IsBlock
<1>4. \A q \in LiveFrames : Builds(FrameAt(q), a) => q = p
  BY <1>2, <1>3 DEF FrameOwners
<1>5. ~mem[a].dying
  BY <1>1 DEF HeapInv, IsBlock
<1> QED BY <1>1, <1>3, <1>4, <1>5

\* A Block with all of its fields: nobody makes it or disposes of it.
Whole(a) ==
  /\ IsBlock(a) /\ ~mem[a].dying /\ mem[a].isa = "malloc" /\ mem[a].count >= 1
  /\ \A i \in DOMAIN mem[a].fields : <<a, i>> \in HelpedFields

LEMMA NotDraft ==
  ASSUME HeapInv, CallsInv, OwnersInv, NEW a, IsBlock(a), ~mem[a].dying,
         \A p \in LiveFrames : ~Builds(FrameAt(p), a)
  PROVE  Whole(a)
<1>1. mem[a].isa = "malloc"
  BY DEF CallsInv, IsBlock, HeapInv, HeapBlock, HeapByref, FreeCell
<1>2. mem[a].count >= 1
  BY DEF HeapInv, HeapBlock, HeapByref, FreeCell, IsBlock
<1>3. ASSUME NEW i \in DOMAIN mem[a].fields PROVE <<a, i>> \in HelpedFields
  <2>1. ASSUME NEW p \in LiveFrames PROVE ~Withholds(FrameAt(p), <<a, i>>)
    <3>1. ~(FrameAt(p).fn = "copyHelper" /\ FrameAt(p).result = a)
      BY DEF Builds
    <3>2. ~(FrameAt(p).fn \in {"copy", "copyHelper", "byrefCopy"} /\ FrameAt(p).dest = ToField(a, i))
      <4> SUFFICES ASSUME FrameAt(p).fn \in {"copy", "copyHelper", "byrefCopy"},
                          FrameAt(p).dest = ToField(a, i)
                   PROVE  FALSE
        OBVIOUS
      <4>1. ~IsVar(FrameAt(p).dest) /\ FrameAt(p).dest.block = a
        BY DEF IsVar, ToField
      <4>2. PICK q \in LiveFrames : FrameAt(q).fn = "copyHelper" /\ FrameAt(q).result = a
        BY Zenon, <4>1, DestCaller
      <4> QED BY <4>2 DEF Builds
    <3>3. ~(FrameAt(p).fn = "disposeHelper" /\ FrameAt(p).arg = a)
      BY DEF CallsInv, FrameInv, ReleaseInv
    <3> QED BY <3>1, <3>2, <3>3 DEF Withholds
  <2> QED BY <2>1, HelpedShape DEF IsField
<1> QED BY <1>1, <1>2, <1>3 DEF Whole

LEMMA SharedIsWhole ==
  ASSUME HeapInv, CallsInv, OwnersInv, NEW a, IsBlock(a),
         VarOwners(a) # {} \/ FieldOwners(a) # {} \/ StackOwners(a) # {}
           \/ (\E p \in LiveFrames : FrameOwns(FrameAt(p), a) /\ ~Builds(FrameAt(p), a))
  PROVE  Whole(a)
<1>1. FrameOwners(a) # {} \/ VarOwners(a) # {} \/ FieldOwners(a) # {} \/ StackOwners(a) # {}
  BY DEF FrameOwners
<1>2. ~mem[a].dying
  BY <1>1, Owned DEF IsBlock
<1>3. \A p \in LiveFrames : ~Builds(FrameAt(p), a)
  BY Draft DEF FrameOwners
<1> QED BY <1>2, <1>3, NotDraft

LEMMA HeldIsWhole ==
  ASSUME HeapInv, ProgramInv, CallsInv, OwnersInv, NEW v \in Var, var[v] \in Heap
  PROVE  Whole(var[v])
<1>1. v \in VarOwners(var[v]) /\ IsBlock(var[v])
  BY DEF VarOwners, ProgramInv, IsBlock
<1> QED BY <1>1, SharedIsWhole

\* What a thread borrows has an owner meanwhile.
LEMMA BorrowedIsOwned ==
  ASSUME HeapInv, ProgramInv, CallsInv, OwnersInv, NEW t \in Thread, NEW a \in Heap, Borrowed(t, a)
  PROVE  /\ VarOwners(a) # {} \/ FieldOwners(a) # {}
         /\ mem[a].kind # "free" /\ ~mem[a].dying /\ mem[a].count >= 1
<1>1. PICK v \in busy[t] :
        \/ var[v] = a
        \/ /\ IsBlock(var[v])
           /\ \E i \in DOMAIN mem[var[v]].fields :
                mem[var[v]].fields[i] = a /\ KindOf(<<var[v], i>>) \in {"block", "byref"}
  BY Zenon DEF Borrowed
<1>2. v \in Var
  BY <1>1 DEF ProgramInv
<1>3. CASE var[v] = a
  BY <1>2, <1>3, Owned DEF VarOwners
<1>4. CASE IsBlock(var[v]) /\ \E i \in DOMAIN mem[var[v]].fields :
             mem[var[v]].fields[i] = a /\ KindOf(<<var[v], i>>) \in {"block", "byref"}
  <2>1. PICK i \in DOMAIN mem[var[v]].fields :
          mem[var[v]].fields[i] = a /\ KindOf(<<var[v], i>>) \in {"block", "byref"}
    BY <1>4
  <2>2. <<var[v], i>> \in HelpedFields
    BY <1>2, <1>4, <2>1, HeldIsWhole DEF Whole, IsBlock
  <2>3. <<var[v], i>> \in FieldOwners(a)
    BY <2>1, <2>2 DEF FieldOwners, Field
  <2> QED BY <2>3, Owned
<1> QED BY <1>1, <1>3, <1>4

-----------------------------------------------------------------------------
(* What a step of t leaves to the other calls *)

\* t has no call but its innermost
Outermost(t) == Len(stack[t]) <= 1

CallsKept(t) ==
  /\ stack' \in [Thread -> Seq(Frame)]
  /\ \A p \in LiveFrames : p # Top(t) => p \in LiveFrames' /\ FrameAt(p)' = FrameAt(p)
  /\ \A u \in Thread : u # t => stack'[u] = stack[u]

\* t alone uses what its operation is about.
ProgramKept(t) ==
  /\ scope' = scope
  /\ \A u \in Thread : busy'[u] = busy[u] \/ (u = t /\ Outermost(t))
  /\ \A v \in busy'[t] :
       v \in busy[t] \/ var[v] # NULL \/ \A u \in Thread : v \notin busy[u]
  /\ \A v \in Var :
       var'[v] = var[v] \/ (Outermost(t) /\ \A u \in Thread : u # t => v \notin busy[u])

\* The cell a is what it was, but for its count, or the fields of a Block that is
\* being made.
CellKept(a) ==
  /\ mem'[a].kind = mem[a].kind
  /\ mem[a].kind = "block" =>
       /\ mem'[a].lit = mem[a].lit
       /\ DOMAIN mem'[a].fields = DOMAIN mem[a].fields
       /\ Len(mem'[a].fields) = Len(mem[a].fields)
       /\ mem[a].isa = "malloc" => mem'[a].fields = mem[a].fields
  /\ mem[a].kind = "byref" => mem'[a].of = mem[a].of /\ mem'[a].forwarding = mem[a].forwarding

\* ... and the cell of a Block that is being made, but for the fields up to i.
DraftKept(a, i) ==
  /\ mem'[a].isa = mem[a].isa /\ mem'[a].count = mem[a].count
  /\ \A j \in i .. Len(mem[a].fields) : mem'[a].fields[j] = mem[a].fields[j]

MemKept(t) ==
  /\ \A a \in Heap : mem[a].kind # "free" /\ ~mem[a].dying => CellKept(a)
  /\ \A l \in Literal : mem'[l] = mem[l]
  /\ \A u \in Thread : mem'[Inner[u]] = mem[Inner[u]] \/ (u = t /\ Outermost(t))
  /\ \A b \in Byref :
       /\ mem'[b].of = mem[b].of
       /\ \/ mem'[b].forwarding = mem[b].forwarding
          \/ ~Idle(t) /\ FrameAt(Top(t)).fn = "byrefCopy" /\ FrameAt(Top(t)).arg = b
  /\ \A p \in LiveFrames : p # Top(t) =>
       /\ FrameAt(p).fn = "copyHelper" => DraftKept(FrameAt(p).result, FrameAt(p).i)
       /\ Disposes(FrameAt(p), FrameAt(p).arg) => mem'[FrameAt(p).arg] = mem[FrameAt(p).arg]

StepKept(t) == CallsKept(t) /\ ProgramKept(t) /\ MemKept(t)

\* everything but the fields and what is owed for objects
CoreInv == HeapInv /\ StackInv /\ ProgramInv /\ CallsInv /\ OwnersInv

LEMMA OtherCalls ==
  ASSUME CoreInv, NEW t \in Thread, StepKept(t), NEW p \in LiveFrames, p # Top(t)
  PROVE  /\ p[1] \in Thread /\ (p[1] = t => ~Outermost(t) /\ ~Idle(t))
         /\ busy'[p[1]] = busy[p[1]]
         /\ \A v \in busy[p[1]] : v \in Var /\ var'[v] = var[v]
         /\ \A a : StackBlock(p[1], a) => mem'[a] = mem[a] /\ StackBlock(p[1], a)'
<1>1. /\ p = <<p[1], p[2]>> /\ p[1] \in Thread /\ p[2] \in 1 .. Len(stack[p[1]])
      /\ Len(stack[p[1]]) \in Nat
  BY LiveShape DEF CoreInv, CallsInv
<1>2. p[1] = t => ~Outermost(t) /\ ~Idle(t)
  <2> SUFFICES ASSUME p[1] = t PROVE ~Outermost(t) /\ ~Idle(t)
    OBVIOUS
  <2>1. p[2] # Len(stack[t])
    BY <1>1 DEF Top
  <2>2. Len(stack[t]) > 1
    BY <1>1, <2>1
  <2> QED BY <2>2, EmptySeq DEF Outermost, Idle
<1>3. busy'[p[1]] = busy[p[1]]
  BY <1>1, <1>2 DEF StepKept, ProgramKept
<1>4. ASSUME NEW v \in busy[p[1]] PROVE v \in Var /\ var'[v] = var[v]
  <2>1. v \in Var
    BY <1>1 DEF CoreInv, ProgramInv
  <2> QED BY <1>1, <1>2, <2>1 DEF StepKept, ProgramKept
<1>5. ASSUME NEW a, StackBlock(p[1], a) PROVE mem'[a] = mem[a] /\ StackBlock(p[1], a)'
  <2>1. scope' = scope
    BY DEF StepKept, ProgramKept
  <2>2. mem'[a] = mem[a]
    BY <1>1, <1>2, <1>5 DEF StackBlock, StepKept, MemKept
  <2> QED BY <1>5, <2>1, <2>2 DEF StackBlock
<1> QED BY <1>1, <1>2, <1>3, <1>4, <1>5

LEMMA BorrowedKept ==
  ASSUME CoreInv, NEW t \in Thread, StepKept(t), NEW p \in LiveFrames, p # Top(t),
         NEW a, Borrowed(p[1], a)
  PROVE  Borrowed(p[1], a)'
<1>1. PICK v \in busy[p[1]] :
        \/ var[v] = a
        \/ /\ IsBlock(var[v])
           /\ \E i \in DOMAIN mem[var[v]].fields :
                mem[var[v]].fields[i] = a /\ KindOf(<<var[v], i>>) \in {"block", "byref"}
  BY Zenon DEF Borrowed
<1>2. v \in busy'[p[1]] /\ v \in Var /\ var'[v] = var[v]
  BY <1>1, OtherCalls
<1>3. CASE var[v] = a
  BY <1>2, <1>3 DEF Borrowed
<1>4. CASE /\ IsBlock(var[v])
           /\ \E i \in DOMAIN mem[var[v]].fields :
                mem[var[v]].fields[i] = a /\ KindOf(<<var[v], i>>) \in {"block", "byref"}
  <2>1. Whole(var[v])
    BY <1>2, <1>4, HeldIsWhole DEF CoreInv, IsBlock
  <2>2. CellKept(var[v])
    BY <2>1 DEF Whole, IsBlock, StepKept, MemKept
  <2>3. /\ mem'[var[v]].kind = "block" /\ mem'[var[v]].fields = mem[var[v]].fields
        /\ mem'[var[v]].lit = mem[var[v]].lit
    BY <2>1, <2>2 DEF Whole, IsBlock, CellKept
  <2>4. PICK i \in DOMAIN mem[var[v]].fields :
          mem[var[v]].fields[i] = a /\ KindOf(<<var[v], i>>) \in {"block", "byref"}
    BY <1>4
  <2>5. IsBlock(var[v])' /\ i \in DOMAIN mem'[var'[v]].fields /\ mem'[var'[v]].fields[i] = a
    BY <1>2, <1>4, <2>3, <2>4 DEF IsBlock
  <2>6. KindOf(<<var[v], i>>)' \in {"block", "byref"}
    BY <1>2, <2>3, <2>4 DEF KindOf, FlagsOf
  <2> QED BY Zenon, <1>2, <2>5, <2>6 DEF Borrowed
<1> QED BY Zenon, <1>1, <1>3, <1>4

LEMMA DestKept ==
  ASSUME CoreInv, NEW t \in Thread, StepKept(t), NEW p \in LiveFrames, p # Top(t),
         NEW f, f = FrameAt(p), f.fn \in {"copy", "copyHelper", "byrefCopy"}
  PROVE  /\ DestInv(p)'
         /\ ~IsVar(f.dest) =>
              /\ Awaited(f.dest)' = Awaited(f.dest)
              /\ IsBlock(f.dest.block)
<1> DEFINE q == <<p[1], p[2] - 1>>
<1>1. FrameAt(p)' = f /\ f \in Frame /\ DestInv(p)
  BY LiveShape DEF StepKept, CallsKept, CoreInv, CallsInv, FrameInv, CopyInv, CopyHelperInv, ByrefCopyInv
<1>2. f.dest \in Dest
  BY <1>1, FrameShape
<1>3. CASE IsVar(f.dest)
  <2>1. p[2] = 1 /\ f.dest.var \in busy[p[1]] /\ var[f.dest.var] = NULL
    BY <1>1, <1>3 DEF DestInv
  <2>2. \A u \in Thread \ {p[1]} : f.dest.var \notin busy[u]
    BY <1>1, <1>3 DEF DestInv
  <2>3. p[1] \in Thread /\ busy'[p[1]] = busy[p[1]] /\ var'[f.dest.var] = NULL
    BY <2>1, OtherCalls
  <2>4. ASSUME NEW u \in Thread \ {p[1]} PROVE f.dest.var \notin busy'[u]
    <3>1. CASE u # t
      BY <2>2, <3>1 DEF StepKept, ProgramKept
    <3>2. CASE u = t
      BY <2>1, <2>2, <2>3, <3>2 DEF StepKept, ProgramKept
    <3> QED BY <3>1, <3>2
  <2> QED BY <1>1, <1>3, <2>1, <2>3, <2>4 DEF DestInv
<1>4. CASE ~IsVar(f.dest)
  <2>1. PICK r : r = q
    BY Zenon
  <2>2. /\ r \in LiveFrames /\ p[2] > 1 /\ FrameAt(r).fn = "copyHelper" /\ FrameAt(r).i > 1
        /\ f.dest = ToField(FrameAt(r).result, FrameAt(r).i - 1)
        /\ f.dest.block = FrameAt(r).result
    BY <1>4, <2>1, DestCaller DEF CoreInv
  <2>3. r # Top(t)
    <3>1. /\ p = <<p[1], p[2]>> /\ p[1] \in Thread /\ p[2] \in 1 .. Len(stack[p[1]])
          /\ Len(stack[p[1]]) \in Nat
      BY LiveShape DEF CoreInv, CallsInv
    <3>2. p[2] - 1 # Len(stack[p[1]])
      BY <3>1
    <3> QED BY <2>1, <3>1, <3>2 DEF Top
  <2>4. FrameAt(r)' = FrameAt(r)
    BY <2>2, <2>3 DEF StepKept, CallsKept
  <2>5. DestInv(p)'
    BY <1>1, <1>4, <2>1, <2>2, <2>4 DEF DestInv
  <2>6. Builds(FrameAt(r), f.dest.block)
    BY <2>2 DEF Builds
  <2>7. IsBlock(f.dest.block) /\ ~mem[f.dest.block].dying
    BY <2>2, <2>6, Draft DEF CoreInv
  <2>8. CellKept(f.dest.block)
    BY <2>7 DEF StepKept, MemKept, IsBlock
  <2>9. Awaited(f.dest)' = Awaited(f.dest)
    BY <2>7, <2>8 DEF Awaited, CellKept, IsBlock
  <2> QED BY <2>5, <2>7, <2>9
<1> QED BY <1>3, <1>4

LEMMA CopyKept ==
  ASSUME CoreInv, NEW t \in Thread, StepKept(t), NEW p \in LiveFrames, p # Top(t)
  PROVE  CopyInv(p)'
<1> PICK f : f = FrameAt(p)
  OBVIOUS
<1> SUFFICES ASSUME f.fn = "copy" PROVE CopyInv(p)'
  BY DEF CopyInv, StepKept, CallsKept
<1>1. FrameAt(p)' = f /\ CopyInv(p)
  BY DEF StepKept, CallsKept, CoreInv, CallsInv, FrameInv
<1>2. DestInv(p)' /\ (~IsVar(f.dest) => Awaited(f.dest)' = Awaited(f.dest))
  BY DestKept
<1>3. CopyArg(p[1], f.arg)
  BY <1>1 DEF CopyInv
<1>4. CopyArg(p[1], f.arg)' /\ (f.arg \notin {NULL, GlobalBlock} => mem'[f.arg].lit = mem[f.arg].lit)
  <2>1. CASE f.arg \in {NULL, GlobalBlock}
    BY <1>1, <2>1 DEF CopyArg
  <2>2. CASE StackBlock(p[1], f.arg)
    <3>1. PICK a : a = f.arg
      OBVIOUS
    <3>2. mem'[a] = mem[a] /\ StackBlock(p[1], a)'
      BY <2>2, <3>1, OtherCalls
    <3> QED BY <1>1, <3>1, <3>2 DEF CopyArg
  <2>3. CASE IsBlock(f.arg) /\ Borrowed(p[1], f.arg)
    <3>1. PICK a : a = f.arg
      OBVIOUS
    <3>2. Borrowed(p[1], a)'
      BY <2>3, <3>1, BorrowedKept
    <3>3. ~mem[a].dying
      BY <2>3, <3>1, BorrowedIsOwned, OtherCalls DEF CoreInv, IsBlock
    <3>4. CellKept(a)
      BY <2>3, <3>1, <3>3 DEF StepKept, MemKept, IsBlock
    <3> QED BY <1>1, <2>3, <3>1, <3>2, <3>4 DEF CopyArg, CellKept, IsBlock
  <2> QED BY <1>3, <2>1, <2>2, <2>3 DEF CopyArg
<1> QED BY <1>1, <1>2, <1>4 DEF CopyInv

LEMMA CopyHelperKept ==
  ASSUME CoreInv, NEW t \in Thread, StepKept(t), NEW p \in LiveFrames, p # Top(t)
  PROVE  CopyHelperInv(p)'
<1> PICK f : f = FrameAt(p)
  OBVIOUS
<1> SUFFICES ASSUME f.fn = "copyHelper" PROVE CopyHelperInv(p)'
  BY DEF CopyHelperInv, StepKept, CallsKept
<1>1. FrameAt(p)' = f /\ CopyHelperInv(p)
  BY DEF StepKept, CallsKept, CoreInv, CallsInv, FrameInv
<1>2. DestInv(p)' /\ (~IsVar(f.dest) => Awaited(f.dest)' = Awaited(f.dest))
  BY DestKept
<1>3. PICK a, b : a = f.arg /\ b = f.result
  OBVIOUS
<1>4. StackBlock(p[1], a)' /\ mem'[a] = mem[a]
  BY <1>1, <1>3, OtherCalls DEF CopyHelperInv
<1>5. CellKept(b) /\ DraftKept(b, f.i)
  <2>1. IsBlock(b) /\ ~mem[b].dying
    BY <1>3, Draft DEF CoreInv, Builds
  <2> QED BY <1>3, <2>1 DEF StepKept, MemKept, IsBlock
<1>6. IsBlock(b) /\ mem[b].fields \in Seq(Pointer) /\ Len(mem[b].fields) = Len(mem[a].fields)
  BY <1>1, <1>3 DEF CopyHelperInv, IsBlock, CoreInv, HeapInv, HeapBlock, HeapByref, FreeCell
<1>7. IsBlock(b)' /\ mem'[b].lit = mem[b].lit /\ Len(mem'[b].fields) = Len(mem[b].fields)
  BY <1>5, <1>6 DEF CellKept, IsBlock
<1>8. /\ mem'[b].isa = "stack" /\ mem'[b].count = 1 /\ mem'[b].lit = mem'[a].lit
      /\ f.i \in 1 .. Len(mem'[a].fields) + 1
      /\ \A j \in f.i .. Len(mem'[a].fields) : mem'[b].fields[j] = mem'[a].fields[j]
      /\ ~IsVar(f.dest) =>
           AssignKind(Awaited(f.dest).flags)' = "block" /\ mem'[b].lit = Awaited(f.dest)'.of
  BY <1>1, <1>2, <1>3, <1>4, <1>5, <1>6, <1>7 DEF CopyHelperInv, DraftKept
<1> QED BY <1>1, <1>2, <1>3, <1>4, <1>6, <1>7, <1>8 DEF CopyHelperInv

LEMMA Apart ==
  /\ \A a \in Byref : a \notin Heap /\ a \notin Literal /\ a # GlobalBlock /\ a # NULL /\ a \notin Object
  /\ \A a \in Literal : a \notin Heap /\ a \notin Byref /\ a # GlobalBlock /\ a # NULL /\ a \notin Object
  /\ \A a \in Object : a \notin Heap /\ a # GlobalBlock /\ a # NULL /\ a \notin Stack
  /\ GlobalBlock \notin Heap /\ GlobalBlock \notin Stack /\ NULL \notin Heap /\ NULL \notin Stack
  /\ GlobalBlock # NULL
  /\ \A a \in Heap : a \notin Stack
  /\ \A t \in Thread : Inner[t] \notin Heap /\ Inner[t] \notin Byref /\ Inner[t] \notin Literal
                        /\ Inner[t] # GlobalBlock /\ Inner[t] # NULL /\ Inner[t] \in Stack
  /\ Byref \subseteq Stack /\ Literal \subseteq Stack
  /\ \A t, u \in Thread : Inner[t] = Inner[u] => t = u
BY AddressAssumption DEF Stack, Inners

\* A stack variable of the open scope keeps its forwarding, but for a step that
\* copies it, which is Main's.
LEMMA ForwardingKept ==
  ASSUME CoreInv, NEW t \in Thread, StepKept(t), NEW p \in LiveFrames, p # Top(t), NEW b \in Byref,
         p = Top(Main) \/ scope # "open"
  PROVE  mem'[b].forwarding = mem[b].forwarding
<1> SUFFICES ASSUME ~Idle(t), FrameAt(Top(t)).fn = "byrefCopy", FrameAt(Top(t)).arg = b
             PROVE  FALSE
  BY DEF StepKept, MemKept
<1>1. Top(t) \in LiveFrames /\ Top(t)[1] = t
  BY TopFrame DEF CoreInv
<1>2. t = Main /\ scope = "open"
  BY <1>1, Apart DEF CoreInv, CallsInv, FrameInv, ByrefCopyInv, IsByref
<1> QED BY <1>2

LEMMA ByrefCopyKept ==
  ASSUME CoreInv, NEW t \in Thread, StepKept(t), NEW p \in LiveFrames, p # Top(t)
  PROVE  ByrefCopyInv(p)'
<1> PICK f : f = FrameAt(p)
  OBVIOUS
<1> SUFFICES ASSUME f.fn = "byrefCopy" PROVE ByrefCopyInv(p)'
  BY DEF ByrefCopyInv, StepKept, CallsKept
<1>1. FrameAt(p)' = f /\ ByrefCopyInv(p)
  BY DEF StepKept, CallsKept, CoreInv, CallsInv, FrameInv
<1>2. DestInv(p)' /\ ~IsVar(f.dest) /\ Awaited(f.dest)' = Awaited(f.dest)
  BY <1>1, DestKept DEF ByrefCopyInv
<1>3. p = Top(p[1])' /\ p[1] \in Thread /\ p[1] # t
  BY Zenon, <1>1, OtherCalls DEF ByrefCopyInv, Top, StepKept, CallsKept
<1>4. PICK a, c : a = f.arg /\ c = f.copy
  OBVIOUS
<1>5. scope' = scope
  BY DEF StepKept, ProgramKept
<1>6. /\ (a \in Byref /\ p[1] = Main /\ scope' = "open") \/ (IsByref(a) /\ Borrowed(p[1], a))'
      /\ mem'[a].of = mem[a].of /\ mem'[a].forwarding = mem[a].forwarding
  <2>1. CASE a \in Byref /\ p[1] = Main /\ scope = "open"
    <3>1. p = Top(Main)
      BY <1>1, <2>1 DEF ByrefCopyInv
    <3>2. mem'[a].of = mem[a].of /\ mem'[a].forwarding = mem[a].forwarding
      BY <2>1, <3>1, ForwardingKept DEF StepKept, MemKept
    <3> QED BY <1>5, <2>1, <3>2
  <2>2. CASE IsByref(a) /\ Borrowed(p[1], a)
    <3>1. Borrowed(p[1], a)'
      BY <2>2, BorrowedKept
    <3>2. CellKept(a)
      BY <1>3, <2>2, BorrowedIsOwned DEF CoreInv, IsByref, StepKept, MemKept
    <3> QED BY <2>2, <3>1, <3>2 DEF CellKept, IsByref
  <2> QED BY <1>1, <1>4, <2>1, <2>2 DEF ByrefCopyInv
<1>7. ASSUME f.pc \in {"publish", "payload"} PROVE IsByref(c)' /\ mem'[c].of = mem[c].of
  <2>1. IsByref(c) /\ FrameOwns(f, c)
    BY <1>1, <1>4, <1>7 DEF ByrefCopyInv, FrameOwns
  <2>2. ~mem[c].dying
    BY <1>4, <2>1, Owned DEF CoreInv, IsByref, FrameOwners
  <2> QED BY <2>1, <2>2 DEF StepKept, MemKept, CellKept, IsByref
<1> QED BY <1>1, <1>2, <1>3, <1>4, <1>5, <1>6, <1>7 DEF ByrefCopyInv

LEMMA ReleaseKept ==
  ASSUME CoreInv, NEW t \in Thread, StepKept(t), NEW p \in LiveFrames, p # Top(t)
  PROVE  ReleaseInv(p)'
<1> PICK f, a : f = FrameAt(p) /\ a = f.arg
  OBVIOUS
<1>1. FrameAt(p)' = f /\ ReleaseInv(p) /\ f \in Frame
  BY LiveShape DEF StepKept, CallsKept, CoreInv, CallsInv, FrameInv
<1>2. ASSUME f.fn = "release" PROVE a \in {NULL, GlobalBlock} \/ IsBlock(a)'
  <2> SUFFICES ASSUME IsBlock(a) PROVE IsBlock(a)'
    BY <1>1, <1>2 DEF ReleaseInv
  <2>1. p \in FrameOwners(a)
    BY <1>2 DEF FrameOwners, FrameOwns
  <2> QED BY <2>1, Owned DEF CoreInv, IsBlock, StepKept, MemKept, CellKept
<1>3. ASSUME f.fn = "disposeHelper"
      PROVE  IsBlock(a)' /\ mem'[a].dying /\ f.i \in 1 .. Len(mem'[a].fields) + 1
  <2>1. mem'[a] = mem[a]
    BY <1>3 DEF StepKept, MemKept, Disposes
  <2> QED BY <1>1, <1>3, <2>1 DEF ReleaseInv, IsBlock
<1>4. ASSUME f.fn = "byrefRelease"
      PROVE  \/ /\ f.pc = "load" /\ a \in Byref /\ p[1] = Main /\ scope' = "closing"
                /\ mem'[a].forwarding = a \/ IsByref(mem[a].forwarding)'
             \/ IsByref(a)' /\ (f.pc = "free" => mem'[a].dying)
  <2>1. CASE /\ f.pc = "load" /\ a \in Byref /\ p[1] = Main /\ scope = "closing"
             /\ mem[a].forwarding = a \/ IsByref(mem[a].forwarding)
    <3>1. mem'[a].forwarding = mem[a].forwarding /\ scope' = scope
      BY <2>1, ForwardingKept DEF StepKept, ProgramKept
    <3>2. ASSUME IsByref(mem[a].forwarding) PROVE IsByref(mem[a].forwarding)'
      <4>1. PICK c : c = mem[a].forwarding
        OBVIOUS
      <4>2. p \in FrameOwners(c)
        BY <1>4, <2>1, <4>1 DEF FrameOwners, FrameOwns
      <4>3. CellKept(c)
        BY <3>2, <4>1, <4>2, Owned DEF CoreInv, IsByref, StepKept, MemKept
      <4> QED BY <3>1, <3>2, <4>1, <4>3 DEF CellKept, IsByref
    <3> QED BY <2>1, <3>1, <3>2
  <2>2. CASE IsByref(a) /\ f.pc = "free" /\ mem[a].dying
    <3>1. mem'[a] = mem[a]
      BY <1>4, <2>2 DEF StepKept, MemKept, Disposes
    <3> QED BY <2>2, <3>1 DEF IsByref
  <2>3. CASE IsByref(a) /\ f.pc \in {"load", "decrement"}
    <3>1. mem[a].forwarding = a
      BY <2>3 DEF CoreInv, HeapInv, IsByref
    <3>2. p \in FrameOwners(a)
      BY <1>4, <2>3, <3>1 DEF FrameOwners, FrameOwns
    <3> QED BY <2>3, <3>2, Owned DEF CoreInv, IsByref, StepKept, MemKept, CellKept
  <2> QED BY <1>1, <1>4, <2>1, <2>2, <2>3, FrameShape DEF ReleaseInv
<1> QED BY <1>1, <1>2, <1>3, <1>4 DEF ReleaseInv

LEMMA CallKept ==
  ASSUME CoreInv, NEW t \in Thread, StepKept(t), NEW p \in LiveFrames, p # Top(t)
  PROVE  FrameInv(p)'
BY CopyKept, CopyHelperKept, ByrefCopyKept, ReleaseKept DEF FrameInv

LEMMA OtherOwners ==
  ASSUME CoreInv, NEW t \in Thread, StepKept(t), NEW p \in LiveFrames, p # Top(t), NEW a \in Heap
  PROVE  FrameOwns(FrameAt(p), a)' <=> FrameOwns(FrameAt(p), a)
<1> PICK f, b : f = FrameAt(p) /\ b = f.arg
  OBVIOUS
<1>1. FrameAt(p)' = f /\ ReleaseInv(p) /\ ByrefCopyInv(p) /\ f \in Frame
  BY LiveShape DEF StepKept, CallsKept, CoreInv, CallsInv, FrameInv
<1>2. ASSUME f.fn = "byrefCopy" PROVE mem'[b].forwarding = mem[b].forwarding
  <2>1. CASE b \in Byref /\ p[1] = Main /\ scope = "open"
    <3>1. p = Top(Main)
      BY <1>1, <1>2, <2>1 DEF ByrefCopyInv
    <3> QED BY <2>1, <3>1, ForwardingKept
  <2>2. CASE IsByref(b) /\ Borrowed(p[1], b)
    BY <2>2, BorrowedIsOwned, OtherCalls DEF CoreInv, IsByref, StepKept, MemKept, CellKept
  <2> QED BY <1>1, <1>2, <2>1, <2>2 DEF ByrefCopyInv
<1>3. ASSUME f.fn = "byrefRelease", f.pc = "load" PROVE mem'[b].forwarding = mem[b].forwarding
  <2>1. CASE b \in Byref /\ scope = "closing"
    BY <2>1, ForwardingKept
  <2>2. CASE IsByref(b)
    <3>1. p \in FrameOwners(b)
      BY <1>3, <2>2 DEF CoreInv, HeapInv, IsByref, FrameOwners, FrameOwns
    <3> QED BY <2>2, <3>1, Owned DEF CoreInv, IsByref, StepKept, MemKept, CellKept
  <2> QED BY <1>1, <1>3, <2>1, <2>2 DEF ReleaseInv
<1> QED BY <1>1, <1>2, <1>3 DEF FrameOwns

\* a field that no call of t is about, before or after
LEMMA HelpedKept ==
  ASSUME CoreInv, NEW t \in Thread, StepKept(t), NEW x, IsField(x)' <=> IsField(x),
         ~Idle(t) => ~Withholds(FrameAt(Top(t)), x),
         \A p \in LiveFrames' : p \notin LiveFrames \/ p = Top(t) => ~Withholds(FrameAt(p), x)'
  PROVE  x \in HelpedFields' <=> x \in HelpedFields
<1>1. x \in HelpedFields' <=> IsField(x)' /\ \A p \in LiveFrames' : ~Withholds(FrameAt(p), x)'
  BY DEF HelpedFields, IsField, IsBlock
<1>2. \A p \in LiveFrames : p # Top(t) =>
        p \in LiveFrames' /\ (Withholds(FrameAt(p), x)' <=> Withholds(FrameAt(p), x))
  BY DEF StepKept, CallsKept, Withholds, ToField
<1>3. Top(t) \in LiveFrames => ~Idle(t)
  BY LiveShape, EmptySeq DEF CoreInv, CallsInv, Top, Idle
<1> QED BY <1>1, <1>2, <1>3, HelpedShape

LEMMA FieldOkKept ==
  ASSUME CoreInv, NEW t \in Thread, StepKept(t), NEW x \in HelpedFields, FieldOk(x),
         mem'[x[1]].lit = mem[x[1]].lit, mem'[x[1]].fields[x[2]] = mem[x[1]].fields[x[2]]
  PROVE  FieldOk(x)' /\ KindOf(x)' = KindOf(x) /\ Field(x)' = Field(x)
<1>1. KindOf(x)' = KindOf(x) /\ Field(x)' = Field(x)
  BY DEF KindOf, FlagsOf, Field
<1>2. ASSUME Field(x) \in Heap, KindOf(x) \in {"block", "byref"} PROVE CellKept(Field(x))
  <2>1. x \in FieldOwners(Field(x))
    BY <1>2 DEF FieldOwners
  <2> QED BY <1>2, <2>1, Owned DEF CoreInv, StepKept, MemKept
<1>3. PICK y, c : y = Field(x) /\ c = Captures[mem[x[1]].lit][x[2]]
  OBVIOUS
<1>4. KindOf(x) = "block" => y \in {GlobalBlock, NULL} \/ (IsBlock(y)' /\ mem'[y].lit = c.of)
  BY <1>2, <1>3 DEF FieldOk, IsBlock, CellKept
<1>5. KindOf(x) = "byref" => IsByref(y)' /\ mem'[y].of = c.of
  BY <1>2, <1>3 DEF FieldOk, IsByref, CellKept
<1>6. y \notin Stack /\ (KindOf(x) = "object" => y \in Object \cup {NULL})
  BY <1>3 DEF FieldOk
<1>7. Field(x)' = y /\ c = Captures[mem'[x[1]].lit][x[2]]
  BY <1>1, <1>3
<1> QED BY <1>1, <1>4, <1>5, <1>6, <1>7 DEF FieldOk

LEMMA StackOwnersKept ==
  ASSUME CoreInv, NEW t \in Thread, StepKept(t), NEW a \in Heap,
         \A b \in Byref : mem'[b].forwarding = mem[b].forwarding,
         ~Idle(t) => ~(FrameAt(Top(t)).fn = "byrefCopy" /\ FrameAt(Top(t)).pc = "publish"),
         \A p \in LiveFrames' : p \notin LiveFrames \/ p = Top(t) =>
           ~(FrameAt(p)'.fn = "byrefCopy" /\ FrameAt(p)'.pc = "publish")
  PROVE  StackOwners(a)' = StackOwners(a)
<1>1. Top(t) \in LiveFrames => ~Idle(t)
  BY LiveShape, EmptySeq DEF CoreInv, CallsInv, Top, Idle
<1>2. \A p \in LiveFrames : p # Top(t) => p \in LiveFrames' /\ FrameAt(p)' = FrameAt(p)
  BY DEF StepKept, CallsKept
<1>3. scope' = scope
  BY DEF StepKept, ProgramKept
<1>4. ASSUME NEW b \in Byref PROVE StackOwns(b, a)' <=> StackOwns(b, a)
  BY <1>1, <1>2, <1>3 DEF StackOwns
<1> QED BY <1>4 DEF StackOwners

LEMMA MirrorKept ==
  ASSUME CoreInv, NEW t \in Thread, StepKept(t), NEW u \in Thread, Mirrors(u),
         mem'[Inner[u]] = mem[Inner[u]], busy'[u] = busy[u],
         \A v \in busy[u] : var'[v] = var[v]
  PROVE  Mirrors(u)'
<1>1. CASE u = Main /\ scope = "open" /\ \E l \in Literal : mem[Inner[u]] = LiteralCell(l)
  BY <1>1 DEF Mirrors, LiteralCell, StepKept, ProgramKept
<1>2. CASE \E v \in busy[u] :
       /\ IsBlock(var[v])
       /\ mem[Inner[u]] = Block("stack", "stack", 0, mem[var[v]].lit, mem[var[v]].fields)
  <2>1. PICK v \in busy[u] :
       /\ IsBlock(var[v])
       /\ mem[Inner[u]] = Block("stack", "stack", 0, mem[var[v]].lit, mem[var[v]].fields)
    BY <1>2
  <2>2. Whole(var[v])
    BY <2>1, HeldIsWhole DEF CoreInv, ProgramInv, IsBlock
  <2>3. CellKept(var[v])
    BY <2>2 DEF Whole, IsBlock, StepKept, MemKept
  <2>4. IsBlock(var[v])' /\ mem'[var'[v]].lit = mem[var[v]].lit
          /\ mem'[var'[v]].fields = mem[var[v]].fields
    BY <2>1, <2>2, <2>3 DEF Whole, IsBlock, CellKept
  <2> QED BY <2>1, <2>4 DEF Mirrors
<1> QED BY <1>1, <1>2 DEF Mirrors

LEMMA StackInvKept ==
  ASSUME CoreInv, NEW t \in Thread, StepKept(t),
         mem' = [a \in Addr |-> mem'[a]], mem'[GlobalBlock] = mem[GlobalBlock],
         \A b \in Byref : \/ mem'[b] = mem[b]
                          \/ scope # "closed" /\ \E x \in Value : mem'[b] = [mem[b] EXCEPT !.val = x]
  PROVE  StackInv'
<1>1. scope' = scope /\ \A l \in Literal : mem'[l] = mem[l]
  BY DEF StepKept, ProgramKept, MemKept
<1>2. ASSUME scope # "closed", NEW b \in Byref
      PROVE  /\ mem'[b] = ByrefCell("stack", 0, mem'[b].forwarding, b, mem'[b].val)
             /\ mem'[b].val \in Value
             /\ mem'[b].forwarding = mem[b].forwarding
  <2>1. mem[b] = ByrefCell("stack", 0, mem[b].forwarding, b, mem[b].val) /\ mem[b].val \in Value
    BY Zenon, <1>2 DEF CoreInv, StackInv
  <2>2. CASE mem'[b] = mem[b]
    BY <2>1, <2>2
  <2>3. ASSUME NEW x \in Value, mem'[b] = [mem[b] EXCEPT !.val = x]
        PROVE  mem'[b] = ByrefCell("stack", 0, mem[b].forwarding, b, x)
    <3>1. PICK f, y : f = mem[b].forwarding /\ y = mem[b].val
      BY Zenon
    <3>2. mem[b] = ByrefCell("stack", 0, f, b, y)
      BY <2>1, <3>1
    <3>3. mem'[b] = [ByrefCell("stack", 0, f, b, y) EXCEPT !.val = x]
      BY <2>3, <3>2
    <3> QED BY Zenon, <3>1, <3>3 DEF ByrefCell
  <2>4. ASSUME NEW x \in Value, mem'[b] = ByrefCell("stack", 0, mem[b].forwarding, b, x)
        PROVE  /\ mem'[b] = ByrefCell("stack", 0, mem'[b].forwarding, b, mem'[b].val)
               /\ mem'[b].val \in Value
               /\ mem'[b].forwarding = mem[b].forwarding
    <3>1. mem'[b].val = x /\ mem'[b].forwarding = mem[b].forwarding
      BY <2>4 DEF ByrefCell
    <3> QED BY <2>4, <3>1
  <2> QED BY Zenon, <2>2, <2>3, <2>4, <2>1
<1>3. ASSUME scope = "open", NEW b \in Byref, mem[b].forwarding # b
      PROVE  IsByref(mem[b].forwarding)' /\ mem'[mem[b].forwarding].of = b
  <2>1. PICK c : c = mem[b].forwarding
    OBVIOUS
  <2>2. IsByref(c) /\ mem[c].of = b
    BY Zenon, <1>3, <2>1 DEF CoreInv, StackInv
  <2>3. b \in StackOwners(c)
    BY <1>3, <2>1 DEF StackOwners, StackOwns
  <2>4. CellKept(c)
    BY <2>2, <2>3, Owned DEF CoreInv, IsByref, StepKept, MemKept
  <2>5. mem'[b].forwarding = c
    BY <1>2, <1>3, <2>1
  <2> QED BY <2>1, <2>2, <2>4, <2>5 DEF CellKept, IsByref
<1> QED BY Zenon, <1>1, <1>2, <1>3 DEF StackInv, CoreInv, LiteralCell

\* The calls of t that a step makes, ends or changes are its innermost ones.
Changed(t) == {p \in LiveFrames' : p \notin LiveFrames \/ p = Top(t)}

LEMMA CallsInvKept ==
  ASSUME CoreInv, NEW t \in Thread, StepKept(t),
         \A p \in Changed(t) : FrameInv(p)',
         \* the Blocks that are being made after the step
         \A a \in Heap : mem'[a].kind = "block" /\ mem'[a].isa = "stack" =>
           \/ \E p \in Changed(t) : Builds(FrameAt(p), a)'
           \/ /\ mem[a].kind = "block" /\ mem[a].isa = "stack"
              /\ ~Idle(t) => ~Builds(FrameAt(Top(t)), a),
         \* what is being disposed of after it
         \A a \in Heap : mem'[a].kind # "free" /\ mem'[a].dying =>
           \/ \E p \in Changed(t) : Disposes(FrameAt(p), a)'
           \/ /\ mem[a].kind # "free" /\ mem[a].dying
              /\ ~Idle(t) => ~Disposes(FrameAt(Top(t)), a),
         \* a disposal goes on, or is of something with an owner
         \A p \in Changed(t), a \in Heap : Disposes(FrameAt(p), a)' =>
           /\ \A q \in Changed(t) : Disposes(FrameAt(q), a)' => q = p
           /\ \/ ~Idle(t) /\ Disposes(FrameAt(Top(t)), a)
              \/ ~mem[a].dying
  PROVE  CallsInv'
<1>1. Top(t) \in LiveFrames <=> ~Idle(t)
  BY LiveShape, EmptySeq, TopFrame DEF CoreInv, CallsInv, Top, Idle
<1>2. \A p \in LiveFrames : p # Top(t) => p \in LiveFrames' /\ FrameAt(p)' = FrameAt(p)
  BY DEF StepKept, CallsKept
<1>3. \A p \in LiveFrames' : p \in Changed(t) \/ (p \in LiveFrames /\ p # Top(t))
  BY DEF Changed
<1>4. stack' \in [Thread -> Seq(Frame)]
  BY DEF StepKept, CallsKept
<1>5. \A p \in LiveFrames' : FrameInv(p)'
  BY <1>3, CallKept
<1>6. ASSUME NEW a \in Heap, mem'[a].kind = "block", mem'[a].isa = "stack"
      PROVE  \E p \in LiveFrames' : Builds(FrameAt(p), a)'
  <2>1. CASE \E p \in Changed(t) : Builds(FrameAt(p), a)'
    BY <2>1 DEF Changed
  <2>2. CASE /\ mem[a].kind = "block" /\ mem[a].isa = "stack"
             /\ ~Idle(t) => ~Builds(FrameAt(Top(t)), a)
    <3>1. PICK p \in LiveFrames : Builds(FrameAt(p), a)
      BY <2>2 DEF CoreInv, CallsInv
    <3>2. p # Top(t)
      BY <1>1, <2>2, <3>1
    <3> QED BY <1>2, <3>1, <3>2 DEF Builds
  <2> QED BY <1>6, <2>1, <2>2
<1>7. ASSUME NEW a \in Heap, mem'[a].kind # "free", mem'[a].dying
      PROVE  \E p \in LiveFrames' : Disposes(FrameAt(p), a)'
  <2>1. CASE \E p \in Changed(t) : Disposes(FrameAt(p), a)'
    BY <2>1 DEF Changed
  <2>2. CASE /\ mem[a].kind # "free" /\ mem[a].dying
             /\ ~Idle(t) => ~Disposes(FrameAt(Top(t)), a)
    <3>1. PICK p \in LiveFrames : Disposes(FrameAt(p), a)
      BY <2>2 DEF CoreInv, CallsInv
    <3>2. p # Top(t)
      BY <1>1, <2>2, <3>1
    <3> QED BY <1>2, <3>1, <3>2 DEF Disposes
  <2> QED BY <1>7, <2>1, <2>2
<1>8. \A a \in Heap, p \in LiveFrames : Disposes(FrameAt(p), a) => mem[a].dying
  <2>1. ASSUME NEW a \in Heap, NEW p \in LiveFrames, Disposes(FrameAt(p), a) PROVE mem[a].dying
    <3>1. ReleaseInv(p)
      BY DEF CoreInv, CallsInv, FrameInv
    <3> QED BY <2>1, <3>1 DEF ReleaseInv, Disposes
  <2> QED BY <2>1
<1>9. ASSUME NEW a \in Heap, NEW p \in LiveFrames', NEW q \in LiveFrames',
             Disposes(FrameAt(p), a)', Disposes(FrameAt(q), a)', p \in Changed(t)
      PROVE  p = q
  <2>1. CASE q \in Changed(t)
    BY <1>9, <2>1
  <2>2. CASE q \in LiveFrames /\ q # Top(t)
    <3>1. Disposes(FrameAt(q), a)
      BY <1>2, <1>9, <2>2 DEF Disposes
    <3>2. ~Idle(t) /\ Disposes(FrameAt(Top(t)), a)
      BY <1>8, <1>9, <2>2, <3>1
    <3> QED BY <1>1, <2>2, <3>1, <3>2 DEF CoreInv, CallsInv
  <2> QED BY <1>3, <2>1, <2>2
<1>10. ASSUME NEW a \in Heap, NEW p \in LiveFrames', NEW q \in LiveFrames',
              Disposes(FrameAt(p), a)', Disposes(FrameAt(q), a)'
       PROVE  p = q
  <2>1. CASE p \in Changed(t) \/ q \in Changed(t)
    BY <1>9, <1>10, <2>1
  <2>2. CASE p \in LiveFrames /\ p # Top(t) /\ q \in LiveFrames /\ q # Top(t)
    <3>1. Disposes(FrameAt(p), a) /\ Disposes(FrameAt(q), a)
      BY <1>2, <1>10, <2>2 DEF Disposes
    <3> QED BY <3>1, <2>2 DEF CoreInv, CallsInv
  <2> QED BY <1>3, <2>1, <2>2
<1> QED BY <1>4, <1>5, <1>6, <1>7, <1>10 DEF CallsInv

-----------------------------------------------------------------------------
(* A call with a result returns it *)

\* the result r of the call f, and what the call does to its cell
Result(f, r, m) ==
  \/ r \in {NULL, GlobalBlock} /\ m = mem /\ f.fn = "copy"
  \/ /\ r \in Heap /\ f.fn = "copy"
     /\ VarOwners(r) # {} \/ FieldOwners(r) # {}
     /\ m = [mem EXCEPT ![r].count = @ + 1]
  \/ /\ Builds(f, r) /\ f.i > Len(mem[r].fields)
     /\ m = [mem EXCEPT ![r].isa = "malloc"]
  \/ /\ r \in Heap /\ f.fn = "byrefCopy" /\ f.pc = "return" /\ FrameOwns(f, r)
     /\ m = mem

\* r is what the destination d awaits.
Fits(d, r) ==
  IF IsVar(d) THEN r \in {NULL, GlobalBlock} \/ IsBlock(r)
  ELSE \/ /\ AssignKind(Awaited(d).flags) = "block"
          /\ r \in {NULL, GlobalBlock} \/ (IsBlock(r) /\ mem[r].lit = Awaited(d).of)
       \/ /\ AssignKind(Awaited(d).flags) = "byref"
          /\ IsByref(r) /\ mem[r].of = Awaited(d).of

\* the cells that a return changes: the destination's Block and r's own
ReturnedCell(d, r, f, a) ==
  IF ~IsVar(d) /\ a = d.block THEN [mem[a] EXCEPT !.fields[d.field] = r]
  ELSE IF a = r /\ a \in Heap /\ f.fn = "copy" THEN [mem[a] EXCEPT !.count = @ + 1]
  ELSE IF a = r /\ f.fn = "copyHelper" THEN [mem[a] EXCEPT !.isa = "malloc"]
  ELSE mem[a]

LEMMA ReturnedShape ==
  ASSUME CoreInv, NEW t \in Thread, ~Idle(t), NEW P, P = Top(t), NEW f, f = FrameAt(P),
         f.fn \in {"copy", "copyHelper", "byrefCopy"}, NEW r, NEW m, Result(f, r, m)
  PROVE  /\ P \in LiveFrames /\ P[1] = t
         /\ IsVar(f.dest) =>
              /\ f.dest.var \in Var /\ var[f.dest.var] = NULL
              /\ Len(stack[t]) = 1
              /\ \A u \in Thread : u # t => f.dest.var \notin busy[u]
         /\ ~IsVar(f.dest) =>
              /\ IsBlock(f.dest.block) /\ mem[f.dest.block].isa = "stack" /\ ~mem[f.dest.block].dying
              /\ f.dest.field \in DOMAIN mem[f.dest.block].fields
              /\ f.dest.block # r
              /\ \A p \in LiveFrames : Builds(FrameAt(p), f.dest.block) =>
                   p # P /\ FrameAt(p).i = f.dest.field + 1
         /\ r \in Heap =>
              /\ mem[r].kind # "free" /\ ~mem[r].dying /\ mem[r].count >= 1
              /\ \A p \in LiveFrames : Builds(FrameAt(p), r) => p = P
         /\ r \in Heap \cup {NULL, GlobalBlock}
<1>1. P \in LiveFrames /\ P[1] = t /\ P[2] = Len(stack[t])
  BY TopFrame DEF CoreInv
<1>2. f \in Frame /\ DestInv(P)
  BY <1>1, LiveShape DEF CoreInv, CallsInv, FrameInv, CopyInv, CopyHelperInv, ByrefCopyInv
<1>3. ASSUME IsVar(f.dest)
      PROVE  /\ f.dest.var \in Var /\ var[f.dest.var] = NULL
             /\ Len(stack[t]) = 1
             /\ \A u \in Thread : u # t => f.dest.var \notin busy[u]
  <2>1. f.dest.var \in Var
    BY <1>2, <1>3, FrameShape, DestShape
  <2> QED BY <1>1, <1>2, <1>3, <2>1 DEF DestInv
<1>4. ASSUME r \in Heap
      PROVE  /\ mem[r].kind # "free" /\ ~mem[r].dying /\ mem[r].count >= 1
             /\ \A p \in LiveFrames : Builds(FrameAt(p), r) => p = P
  <2>1. \/ VarOwners(r) # {} \/ FieldOwners(r) # {}
        \/ P \in FrameOwners(r)
    BY <1>1, <1>4, AddressAssumption DEF Result, FrameOwners, FrameOwns, Builds
  <2>2. mem[r].kind # "free" /\ ~mem[r].dying /\ mem[r].count >= 1
    BY <1>4, <2>1, Owned DEF CoreInv
  <2>3. ASSUME NEW p \in LiveFrames, Builds(FrameAt(p), r) PROVE p = P
    BY <2>1, <2>3, Draft DEF CoreInv
  <2> QED BY <2>2, <2>3
<1>5. ASSUME ~IsVar(f.dest)
      PROVE  /\ IsBlock(f.dest.block) /\ mem[f.dest.block].isa = "stack" /\ ~mem[f.dest.block].dying
             /\ f.dest.field \in DOMAIN mem[f.dest.block].fields
             /\ f.dest.block # r
             /\ \A p \in LiveFrames : Builds(FrameAt(p), f.dest.block) =>
                  p # P /\ FrameAt(p).i = f.dest.field + 1
  <2>1. PICK q : q = <<P[1], P[2] - 1>>
    BY Zenon
  <2>2. /\ q \in LiveFrames /\ FrameAt(q).fn = "copyHelper" /\ FrameAt(q).i > 1
        /\ f.dest.block = FrameAt(q).result /\ f.dest.field = FrameAt(q).i - 1
        /\ f.dest.block \in Heap /\ FrameAt(q).i \in Nat
    BY <1>1, <1>5, <2>1, DestCaller DEF CoreInv
  <2>3. q # P
    <3>1. P[2] \in Nat
      BY <1>1, TopFrame DEF CoreInv
    <3> QED BY <2>1, <3>1
  <2>4. Builds(FrameAt(q), f.dest.block)
    BY <2>2 DEF Builds
  <2>5. /\ IsBlock(f.dest.block) /\ mem[f.dest.block].isa = "stack" /\ ~mem[f.dest.block].dying
        /\ \A p \in LiveFrames : Builds(FrameAt(p), f.dest.block) => p = q
    BY <2>2, <2>4, Draft DEF CoreInv
  <2>6. f.dest.block # r
    BY <1>4, <2>2, <2>3, <2>4
  <2>7. f.dest.field \in DOMAIN mem[f.dest.block].fields
    <3>1. CopyHelperInv(q)
      BY <2>2 DEF CoreInv, CallsInv, FrameInv
    <3>2. FrameAt(q).i <= Len(mem[f.dest.block].fields) + 1
      BY SMTT(20), <2>2, <3>1 DEF CopyHelperInv
    <3>3. mem[f.dest.block].fields \in Seq(Pointer)
      BY <2>5 DEF CoreInv, HeapInv, HeapBlock, HeapByref, FreeCell, IsBlock
    <3> QED BY <2>2, <3>2, <3>3
  <2> QED BY <2>2, <2>3, <2>5, <2>6, <2>7
<1>6. r \in Heap \cup {NULL, GlobalBlock}
  <2>1. ASSUME Builds(f, r) PROVE r \in Heap
    BY <1>1, <2>1, Draft DEF CoreInv, IsBlock
  <2> QED BY <2>1 DEF Result
<1> QED BY <1>1, <1>3, <1>4, <1>5, <1>6

Returns(t, f, r, m) == Return(t, m, f.dest, r) /\ UNCHANGED <<scope, retains, written>>

LEMMA ReturnedCells ==
  ASSUME CoreInv, NEW t \in Thread, ~Idle(t), NEW P, P = Top(t), NEW f, f = FrameAt(P),
         f.fn \in {"copy", "copyHelper", "byrefCopy"}, NEW r, NEW m, Result(f, r, m),
         Returns(t, f, r, m)
  PROVE  /\ mem' = [a \in Addr |-> mem'[a]]
         /\ \A a \in Addr : a # Inner[t] => mem'[a] = ReturnedCell(f.dest, r, f, a)
         /\ mem'[Inner[t]] = IF Len(stack[t]) = 1 THEN FreeCell ELSE mem[Inner[t]]
         /\ busy' = IF Len(stack[t]) = 1 THEN [busy EXCEPT ![t] = {}] ELSE busy
         /\ var' = IF IsVar(f.dest) THEN [var EXCEPT ![f.dest.var] = r] ELSE var
         /\ scope' = scope /\ retains' = retains /\ written' = written
         /\ stack' \in [Thread -> Seq(Frame)]
         /\ LiveFrames' = LiveFrames \ {P}
         /\ \A p \in LiveFrames : p # P => FrameAt(p)' = FrameAt(p)
         /\ Idle(t)' <=> Len(stack[t]) = 1
         /\ \A u \in Thread : u # t => stack'[u] = stack[u]
<1> DEFINE last == Len(stack[t]) = 1
           d == f.dest
           m2 == IF IsVar(d) THEN m ELSE [m EXCEPT ![d.block].fields[d.field] = r]
<1>1. /\ Continue(t, <<>>)
      /\ busy' = IF last THEN [busy EXCEPT ![t] = {}] ELSE busy
      /\ mem' = IF last THEN [m2 EXCEPT ![Inner[t]] = FreeCell] ELSE m2
      /\ var' = IF IsVar(d) THEN [var EXCEPT ![d.var] = r] ELSE var
      /\ scope' = scope /\ retains' = retains /\ written' = written
  BY DEF Returns, Return, ReturnFrom
<1>2. /\ \A a \in Heap : a \in Addr /\ a # Inner[t]
      /\ Inner[t] \in Addr /\ Inner[t] \notin Heap /\ Inner[t] # r
      /\ ~IsVar(d) => d.block \in Heap /\ d.block # r
      /\ r \in Heap \cup {NULL, GlobalBlock} /\ GlobalBlock \notin Heap /\ NULL \notin Heap
  BY ReturnedShape, Apart DEF Addr, IsBlock
<1>3. mem = [a \in Addr |-> mem[a]]
  BY DEF CoreInv, StackInv
<1>4. /\ m = [a \in Addr |-> m[a]]
      /\ \A a \in Addr : m[a] =
           IF a = r /\ r \in Heap /\ f.fn = "copy" THEN [mem[a] EXCEPT !.count = @ + 1]
           ELSE IF a = r /\ f.fn = "copyHelper" THEN [mem[a] EXCEPT !.isa = "malloc"]
           ELSE mem[a]
  <2>1. CASE m = mem /\ ((r \notin Heap /\ f.fn = "copy") \/ f.fn = "byrefCopy")
    BY <1>3, <2>1
  <2>2. CASE r \in Heap /\ f.fn = "copy" /\ m = [mem EXCEPT ![r].count = @ + 1]
    BY Zenon, <1>2, <1>3, <2>2
  <2>3. CASE f.fn = "copyHelper" /\ m = [mem EXCEPT ![r].isa = "malloc"]
    BY Zenon, <1>2, <1>3, <2>3
  <2> QED BY <1>2, <2>1, <2>2, <2>3 DEF Result, Builds
<1>5. /\ m2 = [a \in Addr |-> m2[a]]
      /\ \A a \in Addr : m2[a] =
           IF ~IsVar(d) /\ a = d.block THEN [m[a] EXCEPT !.fields[d.field] = r] ELSE m[a]
  BY Zenon, <1>2, <1>4
<1> HIDE DEF m2
<1>6. ASSUME NEW a \in Addr, a # Inner[t] PROVE mem'[a] = ReturnedCell(d, r, f, a)
  <2>1. mem'[a] = m2[a]
    BY <1>1, <1>5, <1>6
  <2>2. CASE ~IsVar(d) /\ a = d.block
    BY <1>2, <1>4, <1>5, <2>1, <2>2 DEF ReturnedCell
  <2>3. CASE ~(~IsVar(d) /\ a = d.block)
    <3>1. mem'[a] = m[a]
      BY <1>5, <2>1, <2>3
    <3> QED BY <1>4, <2>3, <3>1 DEF ReturnedCell
  <2> QED BY <2>2, <2>3
<1>7. /\ mem' = [a \in Addr |-> mem'[a]]
      /\ mem'[Inner[t]] = IF last THEN FreeCell ELSE mem[Inner[t]]
  <2>1. m2[Inner[t]] = mem[Inner[t]]
    BY <1>2, <1>4, <1>5
  <2> QED BY <1>1, <1>2, <1>5, <2>1
<1>8. /\ stack' \in [Thread -> Seq(Frame)]
      /\ LiveFrames' = LiveFrames \ {P}
      /\ \A p \in LiveFrames : p # P => FrameAt(p)' = FrameAt(p)
      /\ Idle(t)' <=> Len(stack[t]) = 1
      /\ \A u \in Thread : u # t => stack'[u] = stack[u]
  BY <1>1, Popped DEF CoreInv
<1> QED BY <1>1, <1>6, <1>7, <1>8

LEMMA ReturnedKept ==
  ASSUME CoreInv, NEW t \in Thread, ~Idle(t), NEW P, P = Top(t), NEW f, f = FrameAt(P),
         f.fn \in {"copy", "copyHelper", "byrefCopy"}, NEW r, NEW m, Result(f, r, m),
         Returns(t, f, r, m)
  PROVE  /\ StepKept(t) /\ Changed(t) = {}
         /\ \A b \in Byref \cup {GlobalBlock} : mem'[b] = mem[b]
<1> DEFINE d == f.dest
<1>1. /\ \A a \in Heap : a \in Addr /\ a # Inner[t] /\ mem'[a] = ReturnedCell(d, r, f, a)
      /\ r \in Heap \cup {NULL, GlobalBlock}
  BY ReturnedCells, ReturnedShape, Apart DEF Addr
<1>2. \A a \in Stack \cup {GlobalBlock} : a # Inner[t] => mem'[a] = mem[a]
  <2>1. ASSUME NEW a \in Stack \cup {GlobalBlock}, a # Inner[t] PROVE mem'[a] = mem[a]
    <3>1. a \in Addr /\ a \notin Heap /\ mem'[a] = ReturnedCell(d, r, f, a)
      BY <2>1, ReturnedCells, Apart DEF Addr
    <3>2. ~IsVar(d) => d.block # a
      BY <3>1, ReturnedShape DEF IsBlock
    <3>3. f.fn = "copyHelper" => r \in Heap
      <4>1. f.fn = "copyHelper" => Builds(f, r)
        BY DEF Result
      <4>2. P \in LiveFrames
        BY ReturnedShape
      <4> QED BY <4>1, <4>2, Draft DEF CoreInv, IsBlock
    <3> QED BY <3>1, <3>2, <3>3 DEF ReturnedCell
  <2> QED BY <2>1
<1>0. Len(stack[t]) = 1 => Outermost(t)
  BY DEF Outermost
<1>3. CallsKept(t)
  BY ReturnedCells DEF CallsKept
<1>4. ProgramKept(t)
  <2>1. scope' = scope
    BY ReturnedCells
  <2>2. \A u \in Thread : busy'[u] = busy[u] \/ (u = t /\ Outermost(t))
    <3>1. busy' = IF Len(stack[t]) = 1 THEN [busy EXCEPT ![t] = {}] ELSE busy
      BY ReturnedCells
    <3>2. busy = [u \in Thread |-> busy[u]]
      BY DEF CoreInv, ProgramInv
    <3> QED BY <1>0, <3>1, <3>2
  <2>3. \A v \in busy'[t] : v \in busy[t]
    BY ReturnedCells DEF CoreInv, ProgramInv
  <2>4. \A v \in Var :
       var'[v] = var[v] \/ (Outermost(t) /\ \A u \in Thread : u # t => v \notin busy[u])
    <3>1. var' = IF IsVar(f.dest) THEN [var EXCEPT ![f.dest.var] = r] ELSE var
      BY ReturnedCells
    <3>2. IsVar(f.dest) => Outermost(t) /\ \A u \in Thread : u # t => f.dest.var \notin busy[u]
      BY <1>0, ReturnedShape
    <3>3. var = [v \in Var |-> var[v]]
      BY DEF CoreInv, ProgramInv
    <3> QED BY <3>1, <3>2, <3>3
  <2> QED BY <2>1, <2>2, <2>3, <2>4 DEF ProgramKept
<1>5. ASSUME NEW a \in Heap, mem[a].kind # "free", ~mem[a].dying PROVE CellKept(a)
  <2>1. mem[a] \in HeapBlock \cup HeapByref
    BY <1>5 DEF CoreInv, HeapInv, FreeCell
  <2>2. CASE ~IsVar(d) /\ a = d.block
    <3>1. /\ mem[a] \in HeapBlock /\ mem[a].isa = "stack"
      BY <2>1, <2>2, ReturnedShape DEF IsBlock, HeapBlock, HeapByref
    <3>2. mem'[a] = [mem[a] EXCEPT !.fields[d.field] = r]
      BY Zenon, <1>1, <2>2 DEF ReturnedCell
    <3>3. mem[a].fields \in Seq(Pointer) /\ r \in Pointer
      BY <1>1, <3>1 DEF HeapBlock, Pointer, Addr
    <3>4. mem'[a].kind = mem[a].kind /\ mem'[a].lit = mem[a].lit /\ mem[a].kind = "block"
      BY <3>1, <3>2 DEF HeapBlock
    <3>5. mem'[a].fields = [mem[a].fields EXCEPT ![d.field] = r]
      BY <3>1, <3>2 DEF HeapBlock
    <3> QED BY <3>1, <3>3, <3>4, <3>5 DEF CellKept
  <2>3. CASE ~(~IsVar(d) /\ a = d.block) /\ a = r /\ f.fn = "copy"
    <3>1. mem'[a] = [mem[a] EXCEPT !.count = @ + 1]
      BY Zenon, <1>1, <2>3 DEF ReturnedCell
    <3> QED BY <2>1, <3>1 DEF CellKept, HeapBlock, HeapByref
  <2>4. CASE ~(~IsVar(d) /\ a = d.block) /\ a = r /\ f.fn = "copyHelper"
    <3>1. mem'[a] = [mem[a] EXCEPT !.isa = "malloc"]
      BY Zenon, <1>1, <2>4 DEF ReturnedCell
    <3> QED BY <2>1, <3>1 DEF CellKept, HeapBlock, HeapByref
  <2>5. CASE ~(~IsVar(d) /\ a = d.block) /\ (a = r => f.fn = "byrefCopy")
    <3>1. mem'[a] = mem[a]
      BY Zenon, <1>1, <2>5 DEF ReturnedCell
    <3> QED BY <3>1 DEF CellKept
  <2> QED BY <2>2, <2>3, <2>4, <2>5
<1>6. ASSUME NEW p \in LiveFrames, p # Top(t), FrameAt(p).fn = "copyHelper"
      PROVE  DraftKept(FrameAt(p).result, FrameAt(p).i)
  <2>1. PICK a, i : a = FrameAt(p).result /\ i = FrameAt(p).i
    OBVIOUS
  <2>2. Builds(FrameAt(p), a) /\ IsBlock(a) /\ a # r
    BY <1>6, <2>1, Draft, ReturnedShape DEF Builds, CoreInv, IsBlock
  <2>3. CASE ~IsVar(d) /\ a = d.block
    <3>1. mem[a] \in HeapBlock /\ i = d.field + 1 /\ d.field \in DOMAIN mem[a].fields
      BY <2>1, <2>2, <2>3, ReturnedShape DEF CoreInv, HeapInv, IsBlock, HeapBlock, HeapByref, FreeCell
    <3>2. mem'[a] = [mem[a] EXCEPT !.fields[d.field] = r]
      BY Zenon, <1>1, <2>2, <2>3 DEF ReturnedCell, IsBlock
    <3>3. mem'[a].isa = mem[a].isa /\ mem'[a].count = mem[a].count
      BY <3>1, <3>2 DEF HeapBlock
    <3>4. mem'[a].fields = [mem[a].fields EXCEPT ![d.field] = r]
      BY <3>1, <3>2 DEF HeapBlock
    <3>5. mem[a].fields \in Seq(Pointer)
      BY <3>1 DEF HeapBlock
    <3>6. \A j \in i .. Len(mem[a].fields) : j # d.field /\ j \in DOMAIN mem[a].fields
      BY <3>1, <3>5
    <3> QED BY <2>1, <3>3, <3>4, <3>6 DEF DraftKept
  <2>4. CASE ~(~IsVar(d) /\ a = d.block)
    <3>1. mem'[a] = mem[a]
      BY Zenon, <1>1, <2>2, <2>4 DEF ReturnedCell, IsBlock
    <3> QED BY <2>1, <3>1 DEF DraftKept
  <2> QED BY <2>3, <2>4
<1>7. ASSUME NEW p \in LiveFrames, p # Top(t), Disposes(FrameAt(p), FrameAt(p).arg)
      PROVE  mem'[FrameAt(p).arg] = mem[FrameAt(p).arg]
  <2>1. PICK a : a = FrameAt(p).arg
    OBVIOUS
  <2>2. a \in Heap /\ mem[a].dying
    <3>1. ReleaseInv(p)
      BY DEF CoreInv, CallsInv, FrameInv
    <3> QED BY <1>7, <2>1, <3>1, Apart DEF ReleaseInv, Disposes, IsBlock, IsByref
  <2>3. a # r /\ (~IsVar(d) => a # d.block)
    BY <2>2, ReturnedShape
  <2> QED BY Zenon, <1>1, <2>1, <2>2, <2>3 DEF ReturnedCell
<1>8. \A u \in Thread : mem'[Inner[u]] = mem[Inner[u]] \/ (u = t /\ Outermost(t))
  <2>1. ASSUME NEW u \in Thread, u # t PROVE mem'[Inner[u]] = mem[Inner[u]]
    BY <1>2, <2>1, Apart
  <2>2. mem'[Inner[t]] = mem[Inner[t]] \/ Outermost(t)
    BY <1>0, ReturnedCells
  <2> QED BY <2>1, <2>2
<1>9. (\A l \in Literal : mem'[l] = mem[l]) /\ \A b \in Byref \cup {GlobalBlock} : mem'[b] = mem[b]
  BY <1>2, Apart
<1>10. MemKept(t)
  BY <1>5, <1>6, <1>7, <1>8, <1>9 DEF MemKept
<1>11. Changed(t) = {}
  BY ReturnedCells DEF Changed
<1> QED BY <1>3, <1>4, <1>9, <1>10, <1>11 DEF StepKept

LEMMA SetInSeq ==
  ASSUME NEW S, NEW s \in Seq(S), NEW k, NEW x \in S
  PROVE  [s EXCEPT ![k] = x] \in Seq(S) /\ Len([s EXCEPT ![k] = x]) = Len(s)
<1>1. PICK n \in Nat : s \in [1 .. n -> S]
  BY SeqDef
<1>2. [s EXCEPT ![k] = x] \in [1 .. n -> S]
  BY Zenon, <1>1
<1>3. [s EXCEPT ![k] = x] \in Seq(S)
  BY <1>2, SeqDef
<1> QED BY <1>1, <1>2, <1>3, LenProperties

LEMMA ReturnedInv ==
  ASSUME CoreInv, NEW t \in Thread, ~Idle(t), NEW P, P = Top(t), NEW f, f = FrameAt(P),
         f.fn \in {"copy", "copyHelper", "byrefCopy"}, NEW r, NEW m, Result(f, r, m),
         Returns(t, f, r, m), Fits(f.dest, r)
  PROVE  HeapInv' /\ StackInv' /\ ProgramInv' /\ CallsInv'
<1> DEFINE d == f.dest
<1>1. /\ \A a \in Heap : a \in Addr /\ a # Inner[t] /\ mem'[a] = ReturnedCell(d, r, f, a)
      /\ r \in Heap \cup {NULL, GlobalBlock} /\ r \in Pointer
  BY ReturnedCells, ReturnedShape, Apart DEF Addr, Pointer
<1>2. StepKept(t) /\ Changed(t) = {} /\ \A b \in Byref \cup {GlobalBlock} : mem'[b] = mem[b]
  BY ReturnedKept
<1>3. ASSUME NEW a \in Heap
      PROVE  /\ mem'[a] \in {FreeCell} \cup HeapBlock \cup HeapByref
             /\ mem'[a].kind = "block" => Len(mem'[a].fields) = Len(Captures[mem'[a].lit])
             /\ mem'[a].kind = "byref" => mem'[a].forwarding = a
             /\ mem'[a].kind # "free" => (mem'[a].dying <=> mem'[a].count = 0)
             /\ mem'[a].kind # "free" => mem[a].kind # "free" /\ mem'[a].dying = mem[a].dying
             /\ mem'[a].kind = "block" /\ mem'[a].isa = "stack" =>
                  mem[a].kind = "block" /\ mem[a].isa = "stack" /\ (a = r => f.fn # "copyHelper")
  <2>1. /\ mem[a] \in {FreeCell} \cup HeapBlock \cup HeapByref
        /\ mem[a].kind = "block" => Len(mem[a].fields) = Len(Captures[mem[a].lit])
        /\ mem[a].kind = "byref" => mem[a].forwarding = a
        /\ mem[a].kind # "free" => (mem[a].dying <=> mem[a].count = 0)
    BY DEF CoreInv, HeapInv
  <2>2. CASE ~IsVar(d) /\ a = d.block
    <3>1. mem[a] \in HeapBlock /\ a # r
      BY <2>1, <2>2, ReturnedShape DEF IsBlock, HeapByref, FreeCell
    <3>2. mem'[a] = [mem[a] EXCEPT !.fields[d.field] = r]
      BY Zenon, <1>1, <2>2 DEF ReturnedCell
    <3>3. mem[a].fields \in Seq(Pointer)
      BY <3>1 DEF HeapBlock
    <3>4. mem'[a].fields = [mem[a].fields EXCEPT ![d.field] = r]
      BY <3>1, <3>2 DEF HeapBlock
    <3>5. mem'[a].fields \in Seq(Pointer) /\ Len(mem'[a].fields) = Len(mem[a].fields)
      <4>1. PICK g, k : g = mem[a].fields /\ k = d.field
        OBVIOUS
      <4>2. [g EXCEPT ![k] = r] \in Seq(Pointer) /\ Len([g EXCEPT ![k] = r]) = Len(g)
        <5>1. g \in Seq(Pointer) /\ r \in Pointer
          BY <1>1, <3>3, <4>1
        <5> QED BY <5>1, SetInSeq
      <4> QED BY <3>4, <4>1, <4>2
    <3>6. /\ mem'[a] = [mem[a] EXCEPT !.fields = mem'[a].fields]
      BY <3>1, <3>2, <3>4 DEF HeapBlock
    <3>7. mem'[a] \in HeapBlock
      BY <3>1, <3>5, <3>6 DEF HeapBlock
    <3>8. /\ mem'[a].kind = mem[a].kind /\ mem'[a].lit = mem[a].lit /\ mem'[a].count = mem[a].count
          /\ mem'[a].dying = mem[a].dying /\ mem'[a].isa = mem[a].isa /\ mem[a].kind = "block"
      BY <3>1, <3>2 DEF HeapBlock
    <3> QED BY <2>1, <3>1, <3>5, <3>7, <3>8
  <2>3. CASE ~(~IsVar(d) /\ a = d.block) /\ a = r /\ f.fn = "copy"
    <3>1. mem'[a] = [mem[a] EXCEPT !.count = @ + 1]
      BY Zenon, <1>1, <2>3 DEF ReturnedCell
    <3>2. mem[a].kind # "free" /\ ~mem[a].dying
      BY <2>3, ReturnedShape
    <3>3. mem[a] \in HeapBlock \/ mem[a] \in HeapByref
      BY <2>1, <3>2 DEF FreeCell
    <3>4. /\ mem'[a].kind = mem[a].kind /\ mem'[a].dying = mem[a].dying
          /\ mem'[a].count = mem[a].count + 1 /\ mem[a].count \in Nat
      BY <3>1, <3>3 DEF HeapBlock, HeapByref
    <3>5. CASE mem[a] \in HeapBlock
      <4>1. mem'[a] \in HeapBlock /\ mem'[a].lit = mem[a].lit /\ mem'[a].fields = mem[a].fields
              /\ mem'[a].isa = mem[a].isa /\ mem[a].kind = "block"
        BY <3>1, <3>4, <3>5 DEF HeapBlock
      <4> QED BY <2>1, <2>3, <3>2, <3>4, <4>1
    <3>6. CASE mem[a] \in HeapByref
      <4>1. mem'[a] \in HeapByref /\ mem'[a].forwarding = mem[a].forwarding /\ mem[a].kind = "byref"
        BY <3>1, <3>4, <3>6 DEF HeapByref
      <4> QED BY <2>1, <2>3, <3>2, <3>4, <4>1
    <3> QED BY <3>3, <3>5, <3>6
  <2>4. CASE ~(~IsVar(d) /\ a = d.block) /\ a = r /\ f.fn = "copyHelper"
    <3>1. mem'[a] = [mem[a] EXCEPT !.isa = "malloc"]
      BY Zenon, <1>1, <2>4 DEF ReturnedCell
    <3>2. IsBlock(a)
      <4>1. P \in LiveFrames /\ Builds(f, a)
        BY Zenon, <2>4, ReturnedShape DEF Result
      <4> QED BY <4>1, Draft DEF CoreInv
    <3> QED BY <2>1, <3>1, <3>2 DEF HeapBlock, HeapByref, FreeCell, IsBlock
  <2>5. CASE ~(~IsVar(d) /\ a = d.block) /\ (a = r => f.fn = "byrefCopy")
    <3>1. mem'[a] = mem[a]
      BY Zenon, <1>1, <2>5 DEF ReturnedCell
    <3> QED BY <2>1, <2>5, <3>1
  <2> QED BY <2>2, <2>3, <2>4, <2>5
<1>4. HeapInv'
  BY <1>3 DEF HeapInv
<1>5. StackInv'
  BY <1>2, ReturnedCells, StackInvKept
<1>6. CallsInv'
  <2>1. ASSUME NEW a \in Heap, mem'[a].kind = "block", mem'[a].isa = "stack"
        PROVE  /\ mem[a].kind = "block" /\ mem[a].isa = "stack"
               /\ ~Builds(f, a)
    <3>1. Builds(f, a) => a = r /\ f.fn = "copyHelper"
      BY DEF Builds, Result
    <3> QED BY <1>3, <2>1, <3>1
  <2>2. ASSUME NEW a \in Heap, mem'[a].kind # "free", mem'[a].dying
        PROVE  mem[a].kind # "free" /\ mem[a].dying /\ ~Disposes(f, a)
    BY <1>3, <2>2 DEF Disposes
  <2> QED BY <1>2, <2>1, <2>2, CallsInvKept
<1>7. ProgramInv'
  <2>1. /\ var' = IF IsVar(d) THEN [var EXCEPT ![d.var] = r] ELSE var
        /\ busy' = IF Len(stack[t]) = 1 THEN [busy EXCEPT ![t] = {}] ELSE busy
        /\ mem'[Inner[t]] = IF Len(stack[t]) = 1 THEN FreeCell ELSE mem[Inner[t]]
        /\ scope' = scope /\ retains' = retains /\ written' = written
        /\ Idle(t)' <=> Len(stack[t]) = 1
        /\ \A u \in Thread : u # t => stack'[u] = stack[u]
    BY ReturnedCells
  <2>2. IsVar(d) => d.var \in Var /\ var[d.var] = NULL /\ Len(stack[t]) = 1
                      /\ \A u \in Thread : u # t => d.var \notin busy[u]
    BY ReturnedShape
  <2>3. /\ var \in [Var -> Heap \cup {GlobalBlock, NULL}] /\ busy \in [Thread -> SUBSET Var]
        /\ scope \in {"open", "closing", "closed"} /\ retains = [o \in Object |-> retains[o]]
        /\ written \in [Byref -> Value]
    BY DEF CoreInv, ProgramInv
  <2>4. /\ var' \in [Var -> Heap \cup {GlobalBlock, NULL}] /\ busy' \in [Thread -> SUBSET Var]
    BY <1>1, <2>1, <2>2, <2>3
  <2>5. ASSUME NEW v \in Var, var'[v] \in Heap PROVE mem'[var'[v]].kind = "block"
    <3>1. PICK a : a = var'[v]
      OBVIOUS
    <3>2. CASE IsVar(d) /\ v = d.var
      <4>1. a = r /\ IsBlock(r)
        BY <2>1, <2>3, <2>5, <3>1, <3>2, Apart DEF Fits
      <4>2. CellKept(r)
        BY <4>1, ReturnedShape, <1>2 DEF StepKept, MemKept, IsBlock
      <4> QED BY <3>1, <4>1, <4>2 DEF CellKept, IsBlock
    <3>3. CASE ~(IsVar(d) /\ v = d.var)
      <4>1. var[v] = a
        BY <2>1, <2>3, <3>1, <3>3
      <4>2. Whole(a)
        BY <2>5, <3>1, <4>1, HeldIsWhole DEF CoreInv
      <4>3. CellKept(a)
        BY <4>2, <1>2 DEF StepKept, MemKept, Whole, IsBlock
      <4> QED BY <3>1, <4>2, <4>3 DEF CellKept, Whole, IsBlock
    <3> QED BY <3>2, <3>3
  <2>6. ASSUME NEW u \in Thread
        PROVE  /\ Idle(u)' => busy'[u] = {} /\ mem'[Inner[u]] = FreeCell
               /\ mem'[Inner[u]] = FreeCell \/ Mirrors(u)'
    <3>1. CASE u = t /\ Len(stack[t]) = 1
      BY <2>1, <2>3, <3>1
    <3>2. CASE ~(u = t /\ Len(stack[t]) = 1)
      <4>1. mem'[Inner[u]] = mem[Inner[u]] /\ busy'[u] = busy[u]
        <5>1. CASE u = t
          BY <2>1, <3>2, <5>1
        <5>2. CASE u # t
          BY <1>2, <2>1, <2>3, <5>2 DEF StepKept, MemKept
        <5> QED BY <5>1, <5>2
      <4>2. \A v \in busy[u] : var'[v] = var[v]
        BY <2>1, <2>2, <2>3, <3>2
      <4>3. Idle(u)' => Idle(u)
        BY <2>1, <3>2 DEF Idle
      <4>4. /\ Idle(u) => busy[u] = {} /\ mem[Inner[u]] = FreeCell
            /\ mem[Inner[u]] = FreeCell \/ Mirrors(u)
        BY DEF CoreInv, ProgramInv
      <4> QED BY <1>2, <4>1, <4>2, <4>3, <4>4, MirrorKept
    <3> QED BY <3>1, <3>2
  <2> QED BY <2>1, <2>3, <2>4, <2>5, <2>6 DEF ProgramInv
<1> QED BY <1>4, <1>5, <1>6, <1>7

-----------------------------------------------------------------------------
(* What a step does to the owners *)

\* T is S with n elements more, n being -1, 0 or 1.
Grows(S, T, n) ==
  \/ n = 0 /\ T = S
  \/ n = 1 /\ \E x : x \notin S /\ T = S \cup {x}
  \/ n = -1 /\ \E x \in S : T = S \ {x}

LEMMA GrownCardinality ==
  ASSUME NEW S, IsFiniteSet(S), NEW T, NEW n, Grows(S, T, n)
  PROVE  Cardinality(S) \in Nat /\ Cardinality(T) = Cardinality(S) + n /\ n \in {-1, 0, 1}
<1>1. Cardinality(S) \in Nat
  BY FS_CardinalityType
<1>2. CASE n = 0 /\ T = S
  BY <1>1, <1>2
<1>3. CASE n = 1 /\ \E x : x \notin S /\ T = S \cup {x}
  BY <1>1, <1>3, FS_AddElement
<1>4. CASE n = -1 /\ \E x \in S : T = S \ {x}
  BY <1>1, <1>4, FS_RemoveElement
<1> QED BY <1>1, <1>2, <1>3, <1>4 DEF Grows

LEMMA OwnersGrow ==
  ASSUME HeapInv, CallsInv, NEW a, NEW v, NEW x, NEW p, NEW s,
         Grows(VarOwners(a), VarOwners(a)', v), Grows(FieldOwners(a), FieldOwners(a)', x),
         Grows(FrameOwners(a), FrameOwners(a)', p), Grows(StackOwners(a), StackOwners(a)', s)
  PROVE  /\ Owners(a) \in Nat /\ Owners(a)' = Owners(a) + v + x + p + s
         /\ v \in {-1, 0, 1} /\ x \in {-1, 0, 1} /\ p \in {-1, 0, 1} /\ s \in {-1, 0, 1}
<1>1. /\ Cardinality(VarOwners(a)) \in Nat
      /\ Cardinality(VarOwners(a)') = Cardinality(VarOwners(a)) + v /\ v \in {-1, 0, 1}
  BY OwnersFinite, GrownCardinality
<1>2. /\ Cardinality(FieldOwners(a)) \in Nat
      /\ Cardinality(FieldOwners(a)') = Cardinality(FieldOwners(a)) + x /\ x \in {-1, 0, 1}
  BY OwnersFinite, GrownCardinality
<1>3. /\ Cardinality(FrameOwners(a)) \in Nat
      /\ Cardinality(FrameOwners(a)') = Cardinality(FrameOwners(a)) + p /\ p \in {-1, 0, 1}
  BY OwnersFinite, GrownCardinality
<1>4. /\ Cardinality(StackOwners(a)) \in Nat
      /\ Cardinality(StackOwners(a)') = Cardinality(StackOwners(a)) + s /\ s \in {-1, 0, 1}
  BY OwnersFinite, GrownCardinality
<1> QED BY <1>1, <1>2, <1>3, <1>4 DEF Owners

\* the calls that own a after a step of t
LEMMA FrameOwnersStep ==
  ASSUME CoreInv, NEW t \in Thread, StepKept(t), NEW a \in Heap, NEW P, P = Top(t)
  PROVE  FrameOwners(a)' =
           (FrameOwners(a) \ {P}) \cup {p \in Changed(t) : FrameOwns(FrameAt(p), a)'}
<1>1. \A p \in LiveFrames : p # P => p \in LiveFrames' /\ FrameAt(p)' = FrameAt(p)
  BY DEF StepKept, CallsKept
<1>2. \A p \in LiveFrames : p # P => (FrameOwns(FrameAt(p), a)' <=> FrameOwns(FrameAt(p), a))
  BY OtherOwners
<1>3. \A p \in LiveFrames' : p \in Changed(t) <=> ~(p \in LiveFrames /\ p # P)
  BY DEF Changed
<1>4. Changed(t) \subseteq LiveFrames'
  BY DEF Changed
<1> QED BY <1>1, <1>2, <1>3, <1>4 DEF FrameOwners

\* the fields that hold the object o
ObjectFields(o) == {x \in HelpedFields : Field(x) = o /\ KindOf(x) = "object"}

FieldKept(x) ==
  mem'[x[1]].lit = mem[x[1]].lit /\ mem'[x[1]].fields[x[2]] = mem[x[1]].fields[x[2]]

\* A step takes the fields L from those that are dealt with and adds the fields G.
LEMMA FieldsStep ==
  ASSUME CoreInv, FieldsInv, NEW t \in Thread, StepKept(t), NEW L, NEW G,
         HelpedFields' = (HelpedFields \ L) \cup G, G \cap HelpedFields = {},
         \A x \in HelpedFields \ L : FieldKept(x),
         \A x \in G : FieldOk(x)'
  PROVE  /\ FieldsInv'
         /\ \A a, x : x \in FieldOwners(a)' <=>
              \/ x \in FieldOwners(a) /\ x \notin L
              \/ x \in G /\ Field(x)' = a /\ KindOf(x)' \in {"block", "byref"}
         /\ \A o, x : x \in ObjectFields(o)' <=>
              \/ x \in ObjectFields(o) /\ x \notin L
              \/ x \in G /\ Field(x)' = o /\ KindOf(x)' = "object"
<1>1. \A x \in HelpedFields \ L :
        FieldOk(x)' /\ KindOf(x)' = KindOf(x) /\ Field(x)' = Field(x)
  <2>1. \A x \in HelpedFields : FieldOk(x)
    BY DEF FieldsInv
  <2> QED BY <2>1, FieldOkKept DEF FieldKept
<1>2. FieldsInv'
  BY <1>1 DEF FieldsInv
<1>3. \A a, x : x \in FieldOwners(a)' <=>
        \/ x \in FieldOwners(a) /\ x \notin L
        \/ x \in G /\ Field(x)' = a /\ KindOf(x)' \in {"block", "byref"}
  BY <1>1 DEF FieldOwners
<1>4. \A o, x : x \in ObjectFields(o)' <=>
        \/ x \in ObjectFields(o) /\ x \notin L
        \/ x \in G /\ Field(x)' = o /\ KindOf(x)' = "object"
  BY <1>1 DEF ObjectFields
<1> QED BY <1>2, <1>3, <1>4

LEMMA ReturnedFields ==
  ASSUME CoreInv, FieldsInv, NEW t \in Thread, ~Idle(t), NEW P, P = Top(t), NEW f, f = FrameAt(P),
         f.fn \in {"copy", "copyHelper", "byrefCopy"}, NEW r, NEW m, Result(f, r, m),
         Returns(t, f, r, m), Fits(f.dest, r),
         NEW G, G = IF IsVar(f.dest) THEN {} ELSE {<<f.dest.block, f.dest.field>>}
  PROVE  /\ FieldsInv'
         /\ G \cap HelpedFields = {}
         /\ \A a : FieldOwners(a)' = FieldOwners(a) \cup (IF a = r THEN G ELSE {})
         /\ \A o : ObjectFields(o)' = ObjectFields(o)
<1> DEFINE d == f.dest
<1>1. /\ \A a \in Heap : a \in Addr /\ a # Inner[t] /\ mem'[a] = ReturnedCell(d, r, f, a)
      /\ r \in Heap \cup {NULL, GlobalBlock} /\ r \in Pointer /\ P \in LiveFrames
      /\ LiveFrames' = LiveFrames \ {P}
      /\ \A p \in LiveFrames : p # P => FrameAt(p)' = FrameAt(p)
      /\ f \in Frame
  BY ReturnedCells, ReturnedShape, Apart, LiveShape DEF Addr, Pointer, CoreInv
<1>2. StepKept(t) /\ Changed(t) = {}
  BY ReturnedKept
<1>3. \A a \in Heap : mem[a] \in {FreeCell} \cup HeapBlock \cup HeapByref
  BY DEF CoreInv, HeapInv
<1>4. ASSUME NEW a \in Heap
      PROVE  /\ mem'[a].kind = mem[a].kind
             /\ mem[a].kind = "block" =>
                  /\ mem'[a].lit = mem[a].lit
                  /\ DOMAIN mem'[a].fields = DOMAIN mem[a].fields
                  /\ \A i \in DOMAIN mem[a].fields :
                       mem'[a].fields[i] = IF <<a, i>> \in G THEN r ELSE mem[a].fields[i]
  <2>1. CASE ~IsVar(d) /\ a = d.block
    <3>1. mem[a] \in HeapBlock /\ mem[a].kind = "block"
      BY <1>3, <2>1, ReturnedShape DEF IsBlock, HeapByref, FreeCell
    <3>2. mem'[a] = [mem[a] EXCEPT !.fields[d.field] = r]
      BY Zenon, <1>1, <2>1 DEF ReturnedCell
    <3>3. mem'[a].fields = [mem[a].fields EXCEPT ![d.field] = r]
      BY <3>1, <3>2 DEF HeapBlock
    <3>4. mem'[a].kind = mem[a].kind /\ mem'[a].lit = mem[a].lit
      BY <3>1, <3>2 DEF HeapBlock
    <3>5. \A i : <<a, i>> \in G <=> i = d.field
      BY <2>1
    <3>6. mem[a].fields \in Seq(Pointer)
      BY <3>1 DEF HeapBlock
    <3> QED BY <3>3, <3>4, <3>5, <3>6
  <2>2. CASE ~(~IsVar(d) /\ a = d.block)
    <3>1. \A i : <<a, i>> \notin G
      BY <2>2
    <3>2. mem[a].kind # "free" /\ ~mem[a].dying => CellKept(a)
      BY <1>2 DEF StepKept, MemKept
    <3>3. \/ mem'[a] = mem[a]
          \/ mem'[a] = [mem[a] EXCEPT !.count = @ + 1]
          \/ mem'[a] = [mem[a] EXCEPT !.isa = "malloc"]
      BY Zenon, <1>1, <2>2 DEF ReturnedCell
    <3>4. mem[a] \in {FreeCell} \cup HeapBlock \cup HeapByref
      BY <1>3
    <3>5. mem'[a].kind = mem[a].kind
      BY <3>3, <3>4 DEF HeapBlock, HeapByref, FreeCell
    <3>6. mem[a].kind = "block" => mem'[a].lit = mem[a].lit /\ mem'[a].fields = mem[a].fields
      BY <3>3, <3>4 DEF HeapBlock, HeapByref, FreeCell
    <3> QED BY <3>1, <3>5, <3>6
  <2> QED BY <2>1, <2>2
<1>5. \A x : IsField(x)' <=> IsField(x)
  BY <1>4 DEF IsField, IsBlock
<1>6. G \cap HelpedFields = {} /\ \A x \in G : IsField(x) /\ x \in HelpedFields'
  <2> SUFFICES ASSUME ~IsVar(d), NEW x, x = <<d.block, d.field>>
               PROVE  x \notin HelpedFields /\ IsField(x) /\ x \in HelpedFields'
    BY DEF HelpedFields
  <2>1. IsField(x)
    BY ReturnedShape DEF IsField
  <2>2. d = ToField(x[1], x[2])
    <3>1. d \in Dest
      BY <1>1, FrameShape
    <3> QED BY <3>1, DestShape
  <2>3. x \notin HelpedFields
    BY Zenon, <1>1, <2>2, HelpedShape DEF Withholds
  <2>4. ASSUME NEW p \in LiveFrames, p # P PROVE ~Withholds(FrameAt(p), x)
    <3>1. ~(FrameAt(p).fn = "disposeHelper" /\ FrameAt(p).arg = d.block)
      BY ReturnedShape DEF CoreInv, CallsInv, FrameInv, ReleaseInv
    <3>2. ASSUME FrameAt(p).fn = "copyHelper", FrameAt(p).result = d.block, FrameAt(p).i <= d.field
          PROVE FALSE
      <4>1. FrameAt(p).i = d.field + 1 /\ d.field \in Nat
        <5>1. Builds(FrameAt(p), d.block)
          BY <3>2 DEF Builds
        <5>2. d \in Dest
          BY <1>1, FrameShape
        <5> QED BY <5>1, <5>2, ReturnedShape, DestShape
      <4> QED BY <3>2, <4>1
    <3>3. ASSUME FrameAt(p).fn \in {"copy", "copyHelper", "byrefCopy"}, FrameAt(p).dest = d
          PROVE FALSE
      <4>1. PICK q : q = <<p[1], p[2] - 1>>
        BY Zenon
      <4>2. q \in LiveFrames /\ FrameAt(q).fn = "copyHelper" /\ FrameAt(q).result = d.block /\ p[2] > 1
        BY <3>3, <4>1, DestCaller DEF CoreInv
      <4>3. PICK q1 : q1 = <<P[1], P[2] - 1>>
        BY Zenon
      <4>4. q1 \in LiveFrames /\ FrameAt(q1).fn = "copyHelper" /\ FrameAt(q1).result = d.block
        BY <1>1, <4>3, DestCaller DEF CoreInv
      <4>5. q = q1
        BY <4>2, <4>4, Draft DEF Builds, CoreInv
      <4>6. p = P
        <5>1. /\ p = <<p[1], p[2]>> /\ p[2] \in 1 .. Len(stack[p[1]]) /\ Len(stack[p[1]]) \in Nat
              /\ P = <<P[1], P[2]>> /\ P[2] \in 1 .. Len(stack[P[1]]) /\ Len(stack[P[1]]) \in Nat
          BY <1>1, LiveShape DEF CoreInv, CallsInv
        <5>2. p[1] = P[1] /\ p[2] - 1 = P[2] - 1
          BY <4>1, <4>3, <4>5
        <5> QED BY <5>1, <5>2
      <4> QED BY <2>4, <4>6
    <3> QED BY <2>2, <3>1, <3>2, <3>3 DEF Withholds
  <2>5. \A p \in LiveFrames' : ~Withholds(FrameAt(p), x)'
    BY <1>1, <2>4 DEF Withholds, ToField
  <2> QED BY <1>5, <2>1, <2>3, <2>5 DEF HelpedFields, IsField, IsBlock
<1>7. ASSUME NEW x, x \notin G PROVE x \in HelpedFields' <=> x \in HelpedFields
  <2>1. CASE ~IsField(x)
    BY <1>5, <2>1 DEF HelpedFields, IsField, IsBlock
  <2>2. CASE IsField(x)
    <3>1. ~Withholds(f, x)
      <4>1. f.fn = "copyHelper" => f.result = r /\ f.i > Len(mem[r].fields)
        BY Apart DEF Result, Builds
      <4>2. ~(f.fn = "copyHelper" /\ f.result = x[1] /\ f.i <= x[2])
        <5>1. x[2] \in Nat /\ x[2] <= Len(mem[x[1]].fields) /\ Len(mem[x[1]].fields) \in Nat
          BY <1>3, <2>2 DEF IsField, IsBlock, HeapBlock, HeapByref, FreeCell
        <5>2. f.fn = "copyHelper" => f.i \in Nat
          BY <1>1, FrameShape
        <5> QED BY <4>1, <5>1, <5>2
      <4>3. f.dest # ToField(x[1], x[2])
        <5> SUFFICES ASSUME f.dest = ToField(x[1], x[2]) PROVE FALSE
          OBVIOUS
        <5>1. ~IsVar(d) /\ d.block = x[1] /\ d.field = x[2]
          BY DEF IsVar, ToField
        <5> QED BY <1>7, <2>2, <5>1 DEF IsField
      <4> QED BY <4>2, <4>3 DEF Withholds
    <3> QED BY <1>2, <1>5, <3>1, HelpedKept DEF Changed
  <2> QED BY <2>1, <2>2
<1>8. HelpedFields' = (HelpedFields \ {}) \cup G
  BY <1>6, <1>7
<1>9. ASSUME NEW x \in HelpedFields PROVE FieldKept(x)
  <2>1. IsField(x) /\ x \notin G
    BY <1>6, HelpedShape
  <2> QED BY <1>4, <2>1 DEF IsField, IsBlock, FieldKept
<1>10. ASSUME NEW x \in G
       PROVE  FieldOk(x)' /\ Field(x)' = r /\ KindOf(x)' \in {"block", "byref"}
  <2>1. ~IsVar(d) /\ x = <<d.block, d.field>> /\ x[1] = d.block /\ x[2] = d.field /\ IsField(x)
    BY <1>6
  <2>2. mem'[x[1]].lit = mem[x[1]].lit /\ mem'[x[1]].fields[x[2]] = r
    BY <1>4, <2>1 DEF IsField, IsBlock
  <2>3. PICK c : c = Awaited(d)
    OBVIOUS
  <2>4. Captures[mem'[x[1]].lit][x[2]] = c
    BY <2>1, <2>2, <2>3 DEF Awaited
  <2>5. r \notin Stack
    BY <1>1, Apart
  <2>6. r \in Heap => CellKept(r)
    BY <1>2, ReturnedShape DEF StepKept, MemKept
  <2>7. \/ /\ AssignKind(c.flags) = "block"
           /\ r \in {NULL, GlobalBlock} \/ (IsBlock(r)' /\ mem'[r].lit = c.of)
        \/ /\ AssignKind(c.flags) = "byref"
           /\ IsByref(r)' /\ mem'[r].of = c.of
    BY <2>1, <2>3, <2>6 DEF Fits, IsBlock, IsByref, CellKept
  <2>8. Field(x)' = r /\ KindOf(x)' = AssignKind(c.flags)
    BY <2>2, <2>4 DEF Field, KindOf, FlagsOf
  <2>9. AssignKind(c.flags) \in {"block", "byref"}
    BY <2>7
  <2>10. FieldOk(x)'
    BY <2>4, <2>5, <2>7, <2>8 DEF FieldOk
  <2> QED BY <2>8, <2>9, <2>10
<1>11. /\ FieldsInv'
       /\ \A a, x : x \in FieldOwners(a)' <=>
            \/ x \in FieldOwners(a)
            \/ x \in G /\ Field(x)' = a /\ KindOf(x)' \in {"block", "byref"}
       /\ \A o, x : x \in ObjectFields(o)' <=>
            \/ x \in ObjectFields(o)
            \/ x \in G /\ Field(x)' = o /\ KindOf(x)' = "object"
  <2> HIDE DEF d
  <2>1. \A x \in G : FieldOk(x)'
    BY <1>10
  <2>2. PICK L : L = {}
    BY Zenon
  <2>3. HelpedFields' = (HelpedFields \ L) \cup G
    BY <1>8, <2>2
  <2>4. \A x \in HelpedFields \ L : FieldKept(x)
    BY <1>9
  <2>5. G \cap HelpedFields = {}
    BY <1>6
  <2>6. FieldsInv'
    BY <1>2, <2>1, <2>3, <2>4, <2>5, FieldsStep
  <2>7. ASSUME NEW a, NEW x
        PROVE  x \in FieldOwners(a)' <=>
                 \/ x \in FieldOwners(a) /\ x \notin L
                 \/ x \in G /\ Field(x)' = a /\ KindOf(x)' \in {"block", "byref"}
    BY <1>2, <2>1, <2>3, <2>4, <2>5, FieldsStep
  <2>8. ASSUME NEW o, NEW x
        PROVE  x \in ObjectFields(o)' <=>
                 \/ x \in ObjectFields(o) /\ x \notin L
                 \/ x \in G /\ Field(x)' = o /\ KindOf(x)' = "object"
    BY <1>2, <2>1, <2>3, <2>4, <2>5, FieldsStep
  <2> QED BY <2>2, <2>6, <2>7, <2>8
<1>12. ASSUME NEW a PROVE FieldOwners(a)' = FieldOwners(a) \cup (IF a = r THEN G ELSE {})
  BY <1>10, <1>11
<1>13. ASSUME NEW o PROVE ObjectFields(o)' = ObjectFields(o)
  <2>1. \A x \in G : KindOf(x)' # "object"
    BY <1>10
  <2> QED BY <1>11, <2>1 DEF ObjectFields
<1> QED BY <1>6, <1>11, <1>12, <1>13

LEMMA FieldsSame ==
  ASSUME CoreInv, FieldsInv, NEW t \in Thread, StepKept(t), HelpedFields' = HelpedFields,
         \A x \in HelpedFields : FieldKept(x)
  PROVE  /\ FieldsInv'
         /\ \A a : FieldOwners(a)' = FieldOwners(a)
         /\ \A o : ObjectFields(o)' = ObjectFields(o)
<1>1. PICK L, G : L = {} /\ G = {}
  BY Zenon
<1>2. HelpedFields' = (HelpedFields \ L) \cup G /\ G \cap HelpedFields = {}
  BY <1>1
<1>3. (\A x \in HelpedFields \ L : FieldKept(x)) /\ \A x \in G : FieldOk(x)'
  BY <1>1
<1>4. FieldsInv'
  BY <1>2, <1>3, FieldsStep
<1>5. ASSUME NEW a, NEW x
      PROVE  x \in FieldOwners(a)' <=>
               \/ x \in FieldOwners(a) /\ x \notin L
               \/ x \in G /\ Field(x)' = a /\ KindOf(x)' \in {"block", "byref"}
  BY <1>2, <1>3, FieldsStep
<1>6. ASSUME NEW o, NEW x
      PROVE  x \in ObjectFields(o)' <=>
               \/ x \in ObjectFields(o) /\ x \notin L
               \/ x \in G /\ Field(x)' = o /\ KindOf(x)' = "object"
  BY <1>2, <1>3, FieldsStep
<1>7. ASSUME NEW a PROVE FieldOwners(a)' = FieldOwners(a)
  <2>1. \A x : x \in FieldOwners(a)' <=> x \in FieldOwners(a)
    BY <1>1, <1>5
  <2> QED BY <2>1 DEF FieldOwners
<1>8. ASSUME NEW o PROVE ObjectFields(o)' = ObjectFields(o)
  <2>1. \A x : x \in ObjectFields(o)' <=> x \in ObjectFields(o)
    BY <1>1, <1>6
  <2> QED BY <2>1 DEF ObjectFields
<1> QED BY <1>4, <1>7, <1>8

RetainsInv == \A o \in Object : retains[o] = Cardinality(ObjectFields(o))

LEMMA RetainsSame ==
  ASSUME RetainsInv, retains' = retains, \A o : ObjectFields(o)' = ObjectFields(o)
  PROVE  RetainsInv'
BY DEF RetainsInv

LEMMA ReturnedOwners ==
  ASSUME CoreInv, FieldsInv, RetainsInv,
         NEW t \in Thread, ~Idle(t), NEW P, P = Top(t), NEW f, f = FrameAt(P),
         f.fn \in {"copy", "copyHelper", "byrefCopy"}, NEW r, NEW m, Result(f, r, m),
         Returns(t, f, r, m), Fits(f.dest, r)
  PROVE  OwnersInv' /\ FieldsInv' /\ RetainsInv'
<1> DEFINE d == f.dest
<1>1. PICK G : G = IF IsVar(f.dest) THEN {} ELSE {<<f.dest.block, f.dest.field>>}
  BY Zenon
<1>2. /\ FieldsInv' /\ G \cap HelpedFields = {}
      /\ \A a : FieldOwners(a)' = FieldOwners(a) \cup (IF a = r THEN G ELSE {})
      /\ \A o : ObjectFields(o)' = ObjectFields(o)
  BY <1>1, ReturnedFields
<1>3. retains' = retains /\ var' = (IF IsVar(f.dest) THEN [var EXCEPT ![f.dest.var] = r] ELSE var)
  BY ReturnedCells
<1>4. RetainsInv'
  BY <1>2, <1>3, RetainsSame
<1>5. /\ StepKept(t) /\ Changed(t) = {} /\ \A b \in Byref \cup {GlobalBlock} : mem'[b] = mem[b]
  BY ReturnedKept
<1>6. /\ P \in LiveFrames
      /\ \A a \in Heap : a \in Addr /\ a # Inner[t] /\ mem'[a] = ReturnedCell(d, r, f, a)
      /\ r \in Heap \cup {NULL, GlobalBlock}
  BY ReturnedCells, ReturnedShape, Apart DEF Addr
<1>7. ASSUME NEW a \in Heap PROVE Owners(a)' = IF mem'[a].kind = "free" THEN 0 ELSE mem'[a].count
  <2>1. PICK g : g = IF a = r THEN 1 ELSE 0
    OBVIOUS
  <2>2. PICK h : h = IF a = r /\ f.fn # "copy" THEN -1 ELSE 0
    OBVIOUS
  <2>3. Grows(FrameOwners(a), FrameOwners(a)', h)
    <3>1. FrameOwners(a)' = (FrameOwners(a) \ {P}) \cup {p \in {} : FrameOwns(FrameAt(p), a)'}
      BY <1>5, FrameOwnersStep
    <3>2. FrameOwners(a)' = FrameOwners(a) \ {P}
      BY <3>1
    <3>3. P \in FrameOwners(a) <=> a = r /\ f.fn # "copy"
      <4>1. FrameOwns(f, a) <=> a = r /\ f.fn # "copy"
        BY DEF Result, Builds, FrameOwns
      <4> QED BY <1>6, <4>1 DEF FrameOwners
    <3> QED BY <2>2, <3>2, <3>3 DEF Grows
  <2>4. StackOwners(a)' = StackOwners(a)
    <3>1. \A b \in Byref : mem'[b].forwarding = mem[b].forwarding
      BY <1>5
    <3>2. ~(f.fn = "byrefCopy" /\ f.pc = "publish")
      BY DEF Result, Builds
    <3>3. \A p \in LiveFrames' : ~(p \notin LiveFrames \/ p = Top(t))
      BY <1>5 DEF Changed
    <3> QED BY <1>5, <3>1, <3>2, <3>3, StackOwnersKept
  <2>5. Grows(StackOwners(a), StackOwners(a)', 0)
    BY <2>4 DEF Grows
  <2>6. CASE IsVar(d)
    <3>1. d.var \in Var /\ var[d.var] = NULL
      BY <2>6, ReturnedShape
    <3>2. Grows(VarOwners(a), VarOwners(a)', g)
      <4>1. \A v \in Var : var'[v] = IF v = d.var THEN r ELSE var[v]
        BY <1>3, <2>6, <3>1 DEF CoreInv, ProgramInv
      <4>2. d.var \notin VarOwners(a)
        BY <3>1, Apart DEF VarOwners
      <4>3. VarOwners(a)' = VarOwners(a) \cup (IF a = r THEN {d.var} ELSE {})
        BY <3>1, <4>1, <4>2 DEF VarOwners
      <4> QED BY <2>1, <4>2, <4>3 DEF Grows
    <3>3. Grows(FieldOwners(a), FieldOwners(a)', 0)
      BY Zenon, <1>1, <1>2, <2>6 DEF Grows
    <3>4. Owners(a)' = Owners(a) + g + 0 + h + 0 /\ Owners(a) \in Nat
      BY <2>3, <2>5, <3>2, <3>3, OwnersGrow DEF CoreInv
    <3>5. mem'[a] = IF a = r /\ f.fn = "copy" THEN [mem[a] EXCEPT !.count = @ + 1]
                    ELSE IF a = r /\ f.fn = "copyHelper" THEN [mem[a] EXCEPT !.isa = "malloc"]
                    ELSE mem[a]
      BY <1>6, <2>6 DEF ReturnedCell
    <3>6. a = r => mem[a].kind # "free"
      BY ReturnedShape
    <3>7. mem[a] \in {FreeCell} \cup HeapBlock \cup HeapByref
      BY DEF CoreInv, HeapInv
    <3>8. /\ mem'[a].kind = mem[a].kind
          /\ mem[a].kind # "free" =>
               mem'[a].count = (IF a = r /\ f.fn = "copy" THEN mem[a].count + 1 ELSE mem[a].count)
                 /\ mem[a].count \in Nat
      BY <3>5, <3>6, <3>7 DEF HeapBlock, HeapByref, FreeCell
    <3>9. Owners(a) = IF mem[a].kind = "free" THEN 0 ELSE mem[a].count
      BY DEF CoreInv, OwnersInv
    <3> QED BY <2>1, <2>2, <3>4, <3>6, <3>8, <3>9
  <2>7. CASE ~IsVar(d)
    <3>1. VarOwners(a)' = VarOwners(a)
      BY <1>3, <2>7 DEF VarOwners
    <3>2. Grows(VarOwners(a), VarOwners(a)', 0)
      BY <3>1 DEF Grows
    <3>3. Grows(FieldOwners(a), FieldOwners(a)', g)
      <4>1. PICK x : G = {x}
        BY Zenon, <1>1, <2>7
      <4>2. x \notin FieldOwners(a)
        BY <1>2, <4>1 DEF FieldOwners
      <4>3. FieldOwners(a)' = FieldOwners(a) \cup (IF a = r THEN {x} ELSE {})
        BY <1>2, <4>1
      <4> QED BY <2>1, <4>2, <4>3 DEF Grows
    <3>4. Owners(a)' = Owners(a) + 0 + g + h + 0 /\ Owners(a) \in Nat
      BY <2>3, <2>5, <3>2, <3>3, OwnersGrow DEF CoreInv
    <3>5. mem'[a] = IF a = d.block THEN [mem[a] EXCEPT !.fields[d.field] = r]
                    ELSE IF a = r /\ f.fn = "copy" THEN [mem[a] EXCEPT !.count = @ + 1]
                    ELSE IF a = r /\ f.fn = "copyHelper" THEN [mem[a] EXCEPT !.isa = "malloc"]
                    ELSE mem[a]
      BY <1>6, <2>7 DEF ReturnedCell
    <3>6. (a = r => mem[a].kind # "free") /\ d.block # r
      BY <2>7, ReturnedShape
    <3>7. mem[a] \in {FreeCell} \cup HeapBlock \cup HeapByref
      BY DEF CoreInv, HeapInv
    <3>8. a = d.block => mem[a].kind = "block"
      BY <2>7, ReturnedShape DEF IsBlock
    <3>9. /\ mem'[a].kind = mem[a].kind
          /\ mem[a].kind # "free" =>
               mem'[a].count = (IF a = r /\ f.fn = "copy" THEN mem[a].count + 1 ELSE mem[a].count)
                 /\ mem[a].count \in Nat
      BY <3>5, <3>6, <3>7, <3>8 DEF HeapBlock, HeapByref, FreeCell
    <3>10. Owners(a) = IF mem[a].kind = "free" THEN 0 ELSE mem[a].count
      BY DEF CoreInv, OwnersInv
    <3> QED BY <2>1, <2>2, <3>4, <3>6, <3>9, <3>10
  <2> QED BY <2>6, <2>7
<1>8. OwnersInv'
  BY <1>7 DEF OwnersInv
<1> QED BY <1>2, <1>4, <1>8

IInv == CoreInv /\ FieldsInv /\ RetainsInv

\* the call that a runtime step of t is about
LEMMA Running ==
  ASSUME CoreInv, NEW t \in Thread, ~Idle(t), NEW f, f = Head(stack[t])
  PROVE  /\ Top(t) \in LiveFrames /\ FrameAt(Top(t)) = f /\ f \in Frame /\ Top(t)[1] = t
         /\ FrameInv(Top(t))
         /\ In(t, f.fn)
BY TopFrame, LiveShape DEF CoreInv, CallsInv, In, Idle

LEMMA LiteralFields ==
  ASSUME NEW l \in Literal
  PROVE  /\ [i \in DOMAIN Captures[l] |-> Captures[l][i].of] \in Seq(Pointer)
         /\ Len([i \in DOMAIN Captures[l] |-> Captures[l][i].of]) = Len(Captures[l])
<1> DEFINE T == [flags : SUBSET Bit, of : Pointer]
<1>1. PICK c \in Seq(T) : c = Captures[l]
  BY Zenon, ProgramAssumption
<1>2. ASSUME NEW i \in 1 .. Len(c) PROVE c[i].of \in Pointer
  <2>1. c[i] \in T
    BY Zenon, <1>1, ElementOfSeq
  <2> QED BY <2>1
<1>3. DOMAIN c = 1 .. Len(c) /\ Len(c) \in Nat
  BY <1>1
<1>4. [i \in 1 .. Len(c) |-> c[i].of] \in [1 .. Len(c) -> Pointer]
  BY <1>2
<1>5. [i \in DOMAIN c |-> c[i].of] \in Seq(Pointer)
  BY <1>3, <1>4, SeqDef
<1>6. Len([i \in DOMAIN c |-> c[i].of]) = Len(c)
  BY <1>3, <1>5, LenProperties
<1> QED BY <1>1, <1>5, <1>6

\* a Block on a stack
LEMMA StackBlockCell ==
  ASSUME CoreInv, NEW t \in Thread, NEW a, StackBlock(t, a)
  PROVE  /\ a \in Addr
         /\ \E l \in Literal : \E fs \in Seq(Pointer) :
              mem[a] = Block("stack", "stack", 0, l, fs) /\ Len(fs) = Len(Captures[l])
<1>1. CASE a \in Literal /\ scope = "open"
  <2>1. mem[a] = LiteralCell(a)
    BY <1>1 DEF CoreInv, StackInv
  <2>2. PICK fs \in Seq(Pointer) : fs = [i \in DOMAIN Captures[a] |-> Captures[a][i].of] /\ Len(fs) = Len(Captures[a])
    BY Zenon, <1>1, LiteralFields
  <2>3. a \in Addr
    BY <1>1, Apart DEF Addr
  <2> QED BY Zenon, <1>1, <2>1, <2>2, <2>3 DEF LiteralCell
<1>2. CASE a = Inner[t] /\ mem[a].kind = "block"
  <2>1. Mirrors(t) /\ a \in Addr
    BY <1>2, Apart DEF CoreInv, ProgramInv, FreeCell, Addr
  <2>2. ASSUME NEW l \in Literal, mem[a] = LiteralCell(l)
        PROVE  \E k \in Literal : \E fs \in Seq(Pointer) :
                 mem[a] = Block("stack", "stack", 0, k, fs) /\ Len(fs) = Len(Captures[k])
    <3>1. PICK fs \in Seq(Pointer) : fs = [i \in DOMAIN Captures[l] |-> Captures[l][i].of] /\ Len(fs) = Len(Captures[l])
      BY Zenon, LiteralFields
    <3> QED BY Zenon, <2>2, <3>1 DEF LiteralCell
  <2>3. ASSUME NEW h, IsBlock(h), mem[a] = Block("stack", "stack", 0, mem[h].lit, mem[h].fields)
        PROVE  \E k \in Literal : \E fs \in Seq(Pointer) :
                 mem[a] = Block("stack", "stack", 0, k, fs) /\ Len(fs) = Len(Captures[k])
    <3>1. mem[h] \in HeapBlock /\ Len(mem[h].fields) = Len(Captures[mem[h].lit])
      BY <2>3 DEF CoreInv, HeapInv, HeapByref, FreeCell, IsBlock
    <3>2. PICK l, fs : l = mem[h].lit /\ fs = mem[h].fields
      OBVIOUS
    <3>3. l \in Literal /\ fs \in Seq(Pointer) /\ Len(fs) = Len(Captures[l])
      BY <3>1, <3>2 DEF HeapBlock
    <3>4. mem[a] = Block("stack", "stack", 0, l, fs)
      BY <2>3, <3>2
    <3> QED BY <3>3, <3>4
  <2> QED BY <1>2, <2>1, <2>2, <2>3 DEF Mirrors
<1> QED BY <1>1, <1>2 DEF StackBlock

\* what _Block_copy finds by its flags
LEMMA CopyArgCell ==
  ASSUME CoreInv, NEW t \in Thread, NEW a, CopyArg(t, a), a # NULL
  PROVE  /\ mem[a].where = "global" => a = GlobalBlock
         /\ mem[a].where = "stack" => StackBlock(t, a)
         /\ mem[a].where = "heap" =>
              IsBlock(a) /\ (VarOwners(a) # {} \/ FieldOwners(a) # {})
<1>1. CASE a = GlobalBlock
  <2>1. mem[a].where = "global"
    BY <1>1 DEF CoreInv, StackInv, Block
  <2> QED BY <1>1, <2>1
<1>2. CASE StackBlock(t, a)
  <2>1. PICK l, fs : mem[a] = Block("stack", "stack", 0, l, fs)
    BY <1>2, StackBlockCell
  <2>2. mem[a].where = "stack"
    BY <2>1 DEF Block
  <2> QED BY <1>2, <2>2
<1>3. CASE IsBlock(a) /\ Borrowed(t, a)
  <2>1. mem[a].where = "heap"
    BY <1>3 DEF CoreInv, HeapInv, HeapBlock, HeapByref, FreeCell, IsBlock
  <2>2. VarOwners(a) # {} \/ FieldOwners(a) # {}
    BY <1>3, BorrowedIsOwned DEF CoreInv, IsBlock
  <2> QED BY <1>3, <2>1, <2>2
<1> QED BY <1>1, <1>2, <1>3 DEF CopyArg

\* The call f moves a __block variable to the heap, where its copy is not complete.
Moves(f) == f.fn = "byrefCopy" /\ f.pc \in {"publish", "payload"}

\* the copy of a __block variable whose count a step changes for an owner of it
Recounted(a) ==
  /\ mem[a].kind = "byref" /\ mem'[a].of = mem[a].of /\ mem'[a].val = mem[a].val
  /\ mem[a].dying => mem'[a].dying
  /\ \/ VarOwners(a) # {} \/ FieldOwners(a) # {}
     \/ \E p \in LiveFrames : FrameOwns(FrameAt(p), a) /\ ~Moves(FrameAt(p))
     \/ ~Moves(FrameAt(Top(Main)))

\* A step of t neither moves a __block variable nor gives one a value.
NothingMoves(t) ==
  /\ ~Idle(t) => ~Moves(FrameAt(Top(t)))
  /\ \A p \in Changed(t) : ~Moves(FrameAt(p))'
  /\ written' = written
  /\ \A b \in Byref : mem'[b] = mem[b]
  /\ \A a \in Heap : mem'[a].kind = "byref" => mem'[a] = mem[a] \/ Recounted(a)

LEMMA Returned ==
  ASSUME IInv, NEW t \in Thread, ~Idle(t), NEW f, f = Head(stack[t]),
         f.fn \in {"copy", "copyHelper", "byrefCopy"}, NEW r, NEW m, Result(f, r, m),
         Returns(t, f, r, m), Fits(f.dest, r)
  PROVE  IInv' /\ StepKept(t) /\ NothingMoves(t)
<1>1. PICK P : P = Top(t)
  OBVIOUS
<1>2. f = FrameAt(P)
  BY <1>1, Running DEF IInv
<1>3. HeapInv' /\ StackInv' /\ ProgramInv' /\ CallsInv'
  BY <1>1, <1>2, ReturnedInv DEF IInv
<1>4. OwnersInv' /\ FieldsInv' /\ RetainsInv'
  BY <1>1, <1>2, ReturnedOwners DEF IInv
<1>5. StepKept(t) /\ Changed(t) = {} /\ \A b \in Byref : mem'[b] = mem[b]
  BY <1>1, <1>2, ReturnedKept DEF IInv
<1>6. NothingMoves(t)
  <2>1. ~Moves(f)
    BY DEF Moves, Result, Builds
  <2>2. written' = written /\ \A a \in Addr : a # Inner[t] => mem'[a] = ReturnedCell(f.dest, r, f, a)
    BY <1>1, <1>2, ReturnedCells DEF IInv
  <2>3. ~IsVar(f.dest) => IsBlock(f.dest.block)
    BY <1>1, <1>2, ReturnedShape DEF IInv
  <2>4. ASSUME NEW a \in Heap, mem'[a].kind = "byref" PROVE mem'[a] = mem[a] \/ Recounted(a)
    <3>1. mem'[a] = ReturnedCell(f.dest, r, f, a)
      BY <2>2, Apart DEF Addr
    <3>2. mem[a] \in {FreeCell} \cup HeapBlock \cup HeapByref
      BY DEF IInv, CoreInv, HeapInv
    <3>3. CASE ~IsVar(f.dest) /\ a = f.dest.block
      <4>1. mem[a] \in HeapBlock
        BY <2>3, <3>2, <3>3 DEF IsBlock, HeapByref, FreeCell
      <4>2. mem'[a] = [mem[a] EXCEPT !.fields[f.dest.field] = r]
        BY <3>1, <3>3 DEF ReturnedCell
      <4>3. mem'[a].kind = "block"
        BY <4>1, <4>2 DEF HeapBlock
      <4> QED BY <2>4, <4>3
    <3>4. CASE (IsVar(f.dest) \/ a # f.dest.block) /\ a = r /\ f.fn = "copy"
      <4>1. mem'[a] = [mem[a] EXCEPT !.count = @ + 1]
        BY <3>1, <3>4 DEF ReturnedCell
      <4>2. VarOwners(a) # {} \/ FieldOwners(a) # {}
        BY <3>4, Apart DEF Result, Builds
      <4>3. mem[a] \in HeapByref
        BY <2>4, <3>2, <4>1 DEF HeapBlock, FreeCell
      <4> QED BY <4>1, <4>2, <4>3 DEF Recounted, HeapByref
    <3>5. CASE (IsVar(f.dest) \/ a # f.dest.block) /\ a = r /\ f.fn = "copyHelper"
      <4>1. Builds(f, a)
        BY <3>5 DEF Result
      <4>2. IsBlock(a)
        BY <1>1, <1>2, <4>1, Draft, TopFrame DEF IInv, CoreInv
      <4>3. mem[a] \in HeapBlock
        BY <3>2, <4>2 DEF IsBlock, HeapByref, FreeCell
      <4>4. mem'[a] = [mem[a] EXCEPT !.isa = "malloc"]
        BY <3>1, <3>5 DEF ReturnedCell
      <4>5. mem'[a].kind = "block"
        BY <4>3, <4>4 DEF HeapBlock
      <4> QED BY <2>4, <4>5
    <3> QED BY <3>1, <3>3, <3>4, <3>5 DEF ReturnedCell
  <2> QED BY <1>1, <1>2, <1>5, <2>1, <2>2, <2>4 DEF NothingMoves
<1> QED BY <1>3, <1>4, <1>5, <1>6 DEF IInv, CoreInv

LEMMA CopyReturns ==
  ASSUME IInv, NEW t \in Thread,
         CopyNull(t) \/ CopyHeap(t) \/ CopyGlobal(t) \/ CopyStackFails(t)
  PROVE  IInv' /\ StepKept(t) /\ NothingMoves(t)
<1>1. PICK f : f = Head(stack[t])
  OBVIOUS
<1>2. In(t, "copy") /\ f.fn = "copy" /\ ~Idle(t)
  BY <1>1 DEF CopyNull, CopyHeap, CopyGlobal, CopyStackFails, In, Idle
<1>3. CopyInv(Top(t)) /\ FrameAt(Top(t)) = f /\ Top(t)[1] = t
  BY <1>1, <1>2, Running DEF IInv, FrameInv
<1>4. CopyArg(t, f.arg) /\ (~IsVar(f.dest) => AssignKind(Awaited(f.dest).flags) = "block")
  BY <1>2, <1>3 DEF CopyInv
<1>5. CASE CopyNull(t) \/ CopyStackFails(t)
  <2>1. Returns(t, f, NULL, mem)
    BY <1>1, <1>5 DEF CopyNull, CopyStackFails, Returns
  <2>2. Result(f, NULL, mem) /\ Fits(f.dest, NULL)
    BY <1>2, <1>4 DEF Result, Fits
  <2>3. PICK r, m : r = NULL /\ m = mem
    OBVIOUS
  <2>4. Returns(t, f, r, m) /\ Result(f, r, m) /\ Fits(f.dest, r)
    BY <2>1, <2>2, <2>3 DEF Returns
  <2> QED BY <1>1, <1>2, <2>4, Returned
<1>6. CASE CopyGlobal(t)
  <2>1. Returns(t, f, f.arg, mem)
    BY <1>1, <1>6 DEF CopyGlobal, Returns
  <2>2. f.arg = GlobalBlock
    BY <1>1, <1>4, <1>6, CopyArgCell DEF CopyGlobal, IInv
  <2>3. PICK r, m : r = f.arg /\ m = mem
    OBVIOUS
  <2>4. Returns(t, f, r, m) /\ Result(f, r, m) /\ Fits(f.dest, r)
    BY <1>2, <1>4, <2>1, <2>2, <2>3 DEF Returns, Result, Fits
  <2> QED BY <1>1, <1>2, <2>4, Returned
<1>7. CASE CopyHeap(t)
  <2>1. PICK r, m : r = f.arg /\ m = [mem EXCEPT ![f.arg].count = @ + 1]
    BY Zenon
  <2>2. Returns(t, f, r, m)
    BY SMTT(20), <1>1, <1>7, <2>1 DEF CopyHeap, Returns
  <2>3. IsBlock(r) /\ (VarOwners(r) # {} \/ FieldOwners(r) # {})
    BY <1>1, <1>4, <1>7, <2>1, CopyArgCell DEF CopyHeap, IInv
  <2>4. Result(f, r, m)
    BY <1>2, <2>1, <2>3 DEF Result, IsBlock
  <2>5. Fits(f.dest, r)
    <3>1. ~IsVar(f.dest) => mem[r].lit = Awaited(f.dest).of
      BY <1>2, <1>3, <2>1, <2>3, Apart DEF CopyInv, IsBlock
    <3> QED BY <1>4, <2>3, <3>1 DEF Fits
  <2> QED BY <1>1, <1>2, <2>2, <2>4, <2>5, Returned
<1> QED BY <1>5, <1>6, <1>7

LEMMA CopyDoneStep ==
  ASSUME IInv, NEW t \in Thread, CopyDone(t)
  PROVE  IInv' /\ StepKept(t) /\ NothingMoves(t)
<1>1. PICK f : f = Head(stack[t])
  OBVIOUS
<1>2. f.fn = "copyHelper" /\ ~Idle(t)
  BY <1>1 DEF CopyDone, In, Idle
<1>3. CopyHelperInv(Top(t)) /\ FrameAt(Top(t)) = f
  BY <1>1, <1>2, Running DEF IInv, FrameInv
<1>4. PICK r, m : r = f.result /\ m = [mem EXCEPT ![f.result].isa = "malloc"]
  BY Zenon
<1>5. Returns(t, f, r, m)
  BY <1>1, <1>4 DEF CopyDone, Returns
<1>6. /\ IsBlock(r) /\ Len(mem[r].fields) = Len(mem[f.arg].fields)
      /\ ~IsVar(f.dest) =>
           AssignKind(Awaited(f.dest).flags) = "block" /\ mem[r].lit = Awaited(f.dest).of
  BY <1>2, <1>3, <1>4 DEF CopyHelperInv
<1>7. Result(f, r, m)
  BY Zenon, <1>1, <1>2, <1>4, <1>6 DEF CopyDone, Result, Builds
<1>8. Fits(f.dest, r)
  BY <1>6 DEF Fits
<1> QED BY <1>1, <1>2, <1>5, <1>7, <1>8, Returned

LEMMA ByrefCopyReturnStep ==
  ASSUME IInv, NEW t \in Thread, ByrefCopyReturn(t)
  PROVE  IInv' /\ StepKept(t) /\ NothingMoves(t)
<1>1. PICK f, b : f = Head(stack[t]) /\ b = f.arg
  OBVIOUS
<1>2. f.fn = "byrefCopy" /\ f.pc = "return" /\ ~Idle(t)
  BY <1>1 DEF ByrefCopyReturn, InAt, In, Idle
<1>3. ByrefCopyInv(Top(t)) /\ FrameAt(Top(t)) = f /\ Top(t)[1] = t
  BY <1>1, <1>2, Running DEF IInv, FrameInv
<1>4. PICK r, m : r = mem[f.arg].forwarding /\ m = mem
  OBVIOUS
<1>5. Returns(t, f, r, m)
  BY <1>1, <1>4 DEF ByrefCopyReturn, Returns
<1>6. /\ r \in Heap /\ ~IsVar(f.dest) /\ AssignKind(Awaited(f.dest).flags) = "byref"
      /\ (b \in Byref /\ scope = "open") \/ IsByref(b)
      /\ mem[b].of = Awaited(f.dest).of
  BY <1>1, <1>2, <1>3, <1>4 DEF ByrefCopyInv
<1>7. Result(f, r, m)
  BY <1>2, <1>4, <1>6 DEF Result, FrameOwns
<1>8. IsByref(r) /\ mem[r].of = mem[b].of
  <2>1. CASE b \in Byref /\ scope = "open"
    <3>1. mem[b] = ByrefCell("stack", 0, mem[b].forwarding, b, mem[b].val)
      BY Zenon, <2>1 DEF IInv, CoreInv, StackInv
    <3>2. mem[b].of = b
      BY <3>1 DEF ByrefCell
    <3>3. r # b
      BY <1>6, <2>1, Apart
    <3> QED BY Zenon, <1>1, <1>4, <2>1, <3>2, <3>3 DEF IInv, CoreInv, StackInv
  <2>2. CASE IsByref(b)
    BY <1>1, <1>4, <2>2 DEF IInv, CoreInv, HeapInv, IsByref
  <2> QED BY <1>6, <2>1, <2>2
<1>9. Fits(f.dest, r)
  BY <1>6, <1>8 DEF Fits
<1> QED BY <1>1, <1>2, <1>5, <1>7, <1>9, Returned

-----------------------------------------------------------------------------
(* A step that changes at most one cell of the heap *)

\* c is the cell, or NULL.
LEMMA OneCell ==
  ASSUME CoreInv, NEW t \in Thread, NEW c \in Heap \cup {NULL},
         \A a \in Addr : a # c /\ a # Inner[t] => mem'[a] = mem[a],
         mem'[Inner[t]] = mem[Inner[t]] \/ Outermost(t),
         c \in Heap =>
           \/ mem[c].kind = "free"
           \/ ~Idle(t) /\ Disposes(FrameAt(Top(t)), c)
           \/ /\ CellKept(c) /\ ~mem[c].dying
              /\ \A p \in LiveFrames : Builds(FrameAt(p), c) => p = Top(t)
  PROVE  /\ MemKept(t)
         /\ \A b \in Byref \cup {GlobalBlock} : mem'[b] = mem[b]
         /\ \A a \in Heap : a # c => mem'[a] = mem[a]
<1>1. /\ \A a \in Heap : a \in Addr /\ a # Inner[t]
      /\ \A a \in Byref \cup Literal \cup {GlobalBlock} : a \in Addr /\ a # Inner[t] /\ a # c
      /\ \A u \in Thread : Inner[u] \in Addr /\ Inner[u] # c /\ (u # t => Inner[u] # Inner[t])
  BY Apart DEF Addr
<1>2. \A a \in Heap : a # c => mem'[a] = mem[a]
  BY <1>1
<1>3. ASSUME NEW p \in LiveFrames, NEW a, Disposes(FrameAt(p), a)
      PROVE  a \in Heap /\ mem[a].dying /\ mem[a].kind # "free"
  <2>1. ReleaseInv(p)
    BY DEF CoreInv, CallsInv, FrameInv
  <2> QED BY <1>3, <2>1 DEF ReleaseInv, Disposes, IsBlock, IsByref
<1>4. ASSUME NEW a \in Heap, mem[a].kind # "free", ~mem[a].dying PROVE CellKept(a)
  <2>1. CASE a # c
    BY <1>2, <2>1 DEF CellKept
  <2>2. CASE a = c
    <3>1. ASSUME ~Idle(t), Disposes(FrameAt(Top(t)), c) PROVE FALSE
      <4>1. Top(t) \in LiveFrames
        BY <3>1, TopFrame DEF CoreInv
      <4> QED BY <1>3, <1>4, <2>2, <3>1, <4>1
    <3> QED BY <1>4, <2>2, <3>1
  <2> QED BY <2>1, <2>2
<1>5. ASSUME NEW p \in LiveFrames, p # Top(t), FrameAt(p).fn = "copyHelper"
      PROVE  DraftKept(FrameAt(p).result, FrameAt(p).i)
  <2>1. PICK a, i : a = FrameAt(p).result /\ i = FrameAt(p).i
    OBVIOUS
  <2>2. Builds(FrameAt(p), a) /\ IsBlock(a) /\ ~mem[a].dying
    BY <1>5, <2>1, Draft DEF Builds, CoreInv
  <2>3. a # c
    <3> SUFFICES ASSUME a = c PROVE FALSE
      OBVIOUS
    <3>1. ASSUME ~Idle(t), Disposes(FrameAt(Top(t)), c) PROVE FALSE
      <4>1. Top(t) \in LiveFrames
        BY <3>1, TopFrame DEF CoreInv
      <4> QED BY <1>3, <2>2, <3>1, <4>1
    <3> QED BY <1>5, <2>2, <3>1 DEF IsBlock
  <2>4. mem'[a] = mem[a]
    BY <1>2, <2>2, <2>3 DEF IsBlock
  <2> QED BY <2>1, <2>4 DEF DraftKept
<1>6. ASSUME NEW p \in LiveFrames, p # Top(t), Disposes(FrameAt(p), FrameAt(p).arg)
      PROVE  mem'[FrameAt(p).arg] = mem[FrameAt(p).arg]
  <2>1. PICK a : a = FrameAt(p).arg
    OBVIOUS
  <2>2. a \in Heap /\ mem[a].dying /\ mem[a].kind # "free"
    BY <1>3, <1>6, <2>1
  <2>3. a # c
    <3> SUFFICES ASSUME a = c, ~Idle(t), Disposes(FrameAt(Top(t)), c) PROVE FALSE
      BY <2>2
    <3>1. Top(t) \in LiveFrames
      BY TopFrame DEF CoreInv
    <3> QED BY <1>6, <2>1, <2>2, <3>1 DEF CoreInv, CallsInv
  <2> QED BY <1>2, <2>1, <2>2, <2>3
<1>7. \A u \in Thread : mem'[Inner[u]] = mem[Inner[u]] \/ (u = t /\ Outermost(t))
  BY <1>1
<1>8. \A a \in Byref \cup Literal \cup {GlobalBlock} : mem'[a] = mem[a]
  BY <1>1
<1> QED BY <1>2, <1>4, <1>5, <1>6, <1>7, <1>8 DEF MemKept

LEMMA HeapStep ==
  ASSUME HeapInv, NEW c \in Heap \cup {NULL}, \A a \in Heap : a # c => mem'[a] = mem[a],
         c \in Heap =>
           /\ mem'[c] \in {FreeCell} \cup HeapBlock \cup HeapByref
           /\ mem'[c].kind = "block" => Len(mem'[c].fields) = Len(Captures[mem'[c].lit])
           /\ mem'[c].kind = "byref" => mem'[c].forwarding = c
           /\ mem'[c].kind # "free" => (mem'[c].dying <=> mem'[c].count = 0)
  PROVE  HeapInv'
<1>1. ASSUME NEW a \in Heap
      PROVE  /\ mem'[a] \in {FreeCell} \cup HeapBlock \cup HeapByref
             /\ mem'[a].kind = "block" => Len(mem'[a].fields) = Len(Captures[mem'[a].lit])
             /\ mem'[a].kind = "byref" => mem'[a].forwarding = a
             /\ mem'[a].kind # "free" => (mem'[a].dying <=> mem'[a].count = 0)
  <2>1. CASE a = c
    BY <2>1
  <2>2. CASE a # c
    <3>1. /\ mem[a] \in {FreeCell} \cup HeapBlock \cup HeapByref
          /\ mem[a].kind = "block" => Len(mem[a].fields) = Len(Captures[mem[a].lit])
          /\ mem[a].kind = "byref" => mem[a].forwarding = a
          /\ mem[a].kind # "free" => (mem[a].dying <=> mem[a].count = 0)
      BY DEF HeapInv
    <3> QED BY <2>2, <3>1
  <2> QED BY <2>1, <2>2
<1> QED BY <1>1 DEF HeapInv

\* The thread u keeps its literal and the variables it uses, or its last call returns.
ThreadKept(u) ==
  \/ mem'[Inner[u]] = mem[Inner[u]] /\ busy'[u] = busy[u] /\ (Idle(u)' => Idle(u))
  \/ mem'[Inner[u]] = FreeCell /\ busy'[u] = {}

LEMMA ProgramInvKept ==
  ASSUME CoreInv, NEW t \in Thread, StepKept(t), var' = var,
         busy' \in [Thread -> SUBSET Var], retains' = [o \in Object |-> retains'[o]],
         written' \in [Byref -> Value], \A u \in Thread : ThreadKept(u)
  PROVE  ProgramInv'
<1>1. /\ var \in [Var -> Heap \cup {GlobalBlock, NULL}]
      /\ scope \in {"open", "closing", "closed"} /\ scope' = scope
  BY DEF CoreInv, ProgramInv, StepKept, ProgramKept
<1>2. ASSUME NEW v \in Var, var[v] \in Heap PROVE mem'[var[v]].kind = "block"
  <2>1. Whole(var[v])
    BY <1>2, HeldIsWhole DEF CoreInv
  <2> QED BY <2>1 DEF StepKept, MemKept, CellKept, Whole, IsBlock
<1>3. ASSUME NEW u \in Thread
      PROVE  /\ Idle(u)' => busy'[u] = {} /\ mem'[Inner[u]] = FreeCell
             /\ mem'[Inner[u]] = FreeCell \/ Mirrors(u)'
  <2>1. ThreadKept(u)
    OBVIOUS
  <2>2. CASE mem'[Inner[u]] = FreeCell /\ busy'[u] = {}
    BY <2>2
  <2>3. CASE mem'[Inner[u]] = mem[Inner[u]] /\ busy'[u] = busy[u] /\ (Idle(u)' => Idle(u))
    <3>1. /\ Idle(u) => busy[u] = {} /\ mem[Inner[u]] = FreeCell
          /\ mem[Inner[u]] = FreeCell \/ Mirrors(u)
      BY DEF CoreInv, ProgramInv
    <3> QED BY <2>3, <3>1, MirrorKept
  <2> QED BY <2>1, <2>2, <2>3 DEF ThreadKept
<1> QED BY <1>1, <1>2, <1>3 DEF ProgramInv

\* A step that changes the cell c (or none), and lets no other field be dealt with.
LEMMA SameHelped ==
  ASSUME CoreInv, NEW t \in Thread, StepKept(t), NEW c,
         \A a \in Heap : a # c => mem'[a] = mem[a],
         \A x : x[1] = c => (x \in HelpedFields' <=> x \in HelpedFields),
         \A x : x[1] = c /\ x \in HelpedFields => FieldKept(x),
         \A x : IsField(x) /\ x[1] # c /\ ~Idle(t) => ~Withholds(FrameAt(Top(t)), x),
         \A x, p : IsField(x) /\ x[1] # c /\ p \in Changed(t) => ~Withholds(FrameAt(p), x)'
  PROVE  HelpedFields' = HelpedFields /\ \A x \in HelpedFields : FieldKept(x)
<1>1. ASSUME NEW x, x[1] # c PROVE x \in HelpedFields' <=> x \in HelpedFields
  <2>1. IsField(x)' <=> IsField(x)
    BY <1>1 DEF IsField, IsBlock
  <2>2. CASE ~IsField(x)
    BY <2>1, <2>2 DEF HelpedFields, IsField, IsBlock
  <2>3. CASE IsField(x)
    <3>1. ~Idle(t) => ~Withholds(FrameAt(Top(t)), x)
      BY <1>1, <2>3
    <3>2. \A p \in LiveFrames' : p \notin LiveFrames \/ p = Top(t) => ~Withholds(FrameAt(p), x)'
      BY <1>1, <2>3 DEF Changed
    <3> QED BY <2>1, <3>1, <3>2, HelpedKept
  <2> QED BY <2>2, <2>3
<1>2. ASSUME NEW x \in HelpedFields PROVE FieldKept(x)
  <2>1. CASE x[1] = c
    BY <2>1
  <2>2. CASE x[1] # c
    <3>1. mem'[x[1]] = mem[x[1]]
      BY <2>2, HelpedShape DEF IsField, IsBlock
    <3> QED BY <3>1 DEF FieldKept
  <2> QED BY <2>1, <2>2
<1>3. \A x : x \in HelpedFields' <=> x \in HelpedFields
  BY <1>1
<1> QED BY <1>2, <1>3

-----------------------------------------------------------------------------
(* A call without a result returns *)

\* The cell c of m (or none, when it is NULL) is what the call f leaves of it: a
\* reference was dropped, or its last one was and it is freed.
Dropped(f, c, m) ==
  \/ /\ c = NULL /\ m = mem
     /\ f.fn = "release" \/ (f.fn = "byrefRelease" /\ f.pc # "free")
     /\ \A a \in Heap : ~FrameOwns(f, a)
  \/ /\ c \in Heap /\ m = [mem EXCEPT ![c].count = IF @ = 0 THEN 0 ELSE @ - 1]
     /\ f.fn = "release" \/ (f.fn = "byrefRelease" /\ f.pc # "free")
     /\ mem[c].count # 1 \/ mem[c].dying
     /\ \A a \in Heap : FrameOwns(f, a) <=> a = c
  \/ /\ c \in Heap /\ m = [mem EXCEPT ![c] = FreeCell]
     /\ Disposes(f, c)
     /\ f.fn = "disposeHelper" => f.i > Len(mem[c].fields)

Drops(t, m) == ReturnFrom(t, m) /\ UNCHANGED <<var, scope, retains, written>>

\* the cell of c after it
DroppedCell(f, c) ==
  IF f.fn = "disposeHelper" \/ (f.fn = "byrefRelease" /\ f.pc = "free") THEN FreeCell
  ELSE [mem[c] EXCEPT !.count = @ - 1]

LEMMA DroppedShape ==
  ASSUME CoreInv, NEW t \in Thread, ~Idle(t), NEW P, P = Top(t), NEW f, f = FrameAt(P),
         NEW c, NEW m, Dropped(f, c, m), Drops(t, m)
  PROVE  /\ P \in LiveFrames /\ P[1] = t /\ f \in Frame
         /\ c \in Heap \cup {NULL}
         /\ \A a \in Addr : a # Inner[t] /\ a # c => mem'[a] = mem[a]
         /\ mem' = [a \in Addr |-> mem'[a]]
         /\ c \in Heap => mem'[c] = DroppedCell(f, c)
         /\ mem'[Inner[t]] = IF Len(stack[t]) = 1 THEN FreeCell ELSE mem[Inner[t]]
         /\ busy' = IF Len(stack[t]) = 1 THEN [busy EXCEPT ![t] = {}] ELSE busy
         /\ var' = var /\ scope' = scope /\ retains' = retains /\ written' = written
         /\ stack' \in [Thread -> Seq(Frame)]
         /\ LiveFrames' = LiveFrames \ {P}
         /\ \A p \in LiveFrames : p # P => FrameAt(p)' = FrameAt(p)
         /\ Idle(t)' <=> Len(stack[t]) = 1
         /\ \A u \in Thread : u # t => stack'[u] = stack[u]
         /\ f.fn \notin {"copy", "copyHelper", "byrefCopy"}
         /\ c \in Heap /\ ~Disposes(f, c) =>
              /\ mem[c].kind # "free" /\ ~mem[c].dying /\ mem[c].count \in Nat /\ mem[c].count > 1
              /\ \A p \in LiveFrames : ~Builds(FrameAt(p), c)
              /\ \A a \in Heap : FrameOwns(f, a) <=> a = c
         /\ c \in Heap /\ Disposes(f, c) => mem[c].kind # "free" /\ mem[c].dying /\ mem[c].count = 0
         /\ c \notin Heap \/ Disposes(f, c) => \A a \in Heap : ~FrameOwns(f, a)
         /\ \A a \in Heap : Disposes(f, a) => a = c
         /\ f.fn = "disposeHelper" => c \in Heap /\ f.arg = c /\ f.i > Len(mem[c].fields)
<1>1. P \in LiveFrames /\ P[1] = t /\ f \in Frame /\ ReleaseInv(P)
  BY TopFrame, LiveShape DEF CoreInv, CallsInv, FrameInv
<1>2. c \in Heap \cup {NULL} /\ f.fn \notin {"copy", "copyHelper", "byrefCopy"}
  BY DEF Dropped, Disposes
<1>3. /\ Continue(t, <<>>)
      /\ busy' = IF Len(stack[t]) = 1 THEN [busy EXCEPT ![t] = {}] ELSE busy
      /\ mem' = IF Len(stack[t]) = 1 THEN [m EXCEPT ![Inner[t]] = FreeCell] ELSE m
      /\ var' = var /\ scope' = scope /\ retains' = retains /\ written' = written
  BY DEF Drops, ReturnFrom
<1>4. mem = [a \in Addr |-> mem[a]]
  BY DEF CoreInv, StackInv
<1>5. /\ Inner[t] \in Addr /\ Inner[t] # c /\ (c \in Heap => c \in Addr)
  BY <1>2, Apart DEF Addr
<1>6. ASSUME c \in Heap, ~Disposes(f, c)
      PROVE  /\ mem[c].kind # "free" /\ ~mem[c].dying /\ mem[c].count \in Nat /\ mem[c].count > 1
             /\ \A p \in LiveFrames : ~Builds(FrameAt(p), c)
             /\ \A a \in Heap : FrameOwns(f, a) <=> a = c
             /\ m = [mem EXCEPT ![c].count = IF @ = 0 THEN 0 ELSE @ - 1]
             /\ f.fn = "release" \/ (f.fn = "byrefRelease" /\ f.pc # "free")
  <2>1. /\ \A a \in Heap : FrameOwns(f, a) <=> a = c
        /\ m = [mem EXCEPT ![c].count = IF @ = 0 THEN 0 ELSE @ - 1]
        /\ f.fn = "release" \/ (f.fn = "byrefRelease" /\ f.pc # "free")
        /\ mem[c].count # 1 \/ mem[c].dying
    BY <1>6, Apart DEF Dropped
  <2>2. P \in FrameOwners(c)
    BY <1>1, <1>6, <2>1 DEF FrameOwners
  <2>3. mem[c].kind # "free" /\ ~mem[c].dying /\ mem[c].count >= 1
    BY <1>6, <2>2, Owned DEF CoreInv
  <2>4. mem[c].count \in Nat
    BY <1>6, <2>3 DEF CoreInv, HeapInv, HeapBlock, HeapByref, FreeCell
  <2>5. ASSUME NEW p \in LiveFrames, Builds(FrameAt(p), c) PROVE FALSE
    <3>1. FrameOwners(c) = {p}
      BY <2>5, Draft DEF CoreInv
    <3> QED BY <1>2, <2>2, <2>5, <3>1 DEF Builds
  <2> QED BY <2>1, <2>3, <2>4, <2>5
<1>7. ASSUME c \in Heap, Disposes(f, c)
      PROVE  /\ mem[c].kind # "free" /\ mem[c].dying /\ mem[c].count = 0
             /\ m = [mem EXCEPT ![c] = FreeCell]
             /\ f.fn = "disposeHelper" \/ (f.fn = "byrefRelease" /\ f.pc = "free")
  <2>1. /\ m = [mem EXCEPT ![c] = FreeCell]
        /\ f.fn = "disposeHelper" \/ (f.fn = "byrefRelease" /\ f.pc = "free")
    BY <1>7, Apart DEF Dropped, Disposes
  <2>2. mem[c].kind # "free" /\ mem[c].dying
    BY <1>1, <1>7, <2>1 DEF ReleaseInv, Disposes, IsBlock, IsByref
  <2> QED BY <1>7, <2>1, <2>2 DEF CoreInv, HeapInv
<1>8. m = [a \in Addr |-> IF a = c THEN DroppedCell(f, c) ELSE mem[a]]
  <2>1. CASE c \notin Heap
    <3>1. m = mem /\ c = NULL /\ c \notin Addr
      BY <1>2, <2>1, Apart DEF Dropped, Addr
    <3> QED BY <1>4, <3>1
  <2>2. CASE c \in Heap /\ ~Disposes(f, c)
    <3>1. (IF mem[c].count = 0 THEN 0 ELSE mem[c].count - 1) = mem[c].count - 1
      BY <1>6, <2>2
    <3>2. PICK k : k = mem[c].count - 1
      OBVIOUS
    <3>3. m = [mem EXCEPT ![c] = [mem[c] EXCEPT !.count = k]]
      BY <1>4, <1>5, <1>6, <2>2, <3>1, <3>2
    <3>4. DroppedCell(f, c) = [mem[c] EXCEPT !.count = k]
      BY <1>6, <2>2, <3>2 DEF DroppedCell
    <3> QED BY <1>4, <1>5, <2>2, <3>3, <3>4
  <2>3. CASE c \in Heap /\ Disposes(f, c)
    <3>1. DroppedCell(f, c) = FreeCell
      BY <1>7, <2>3 DEF DroppedCell
    <3> QED BY <1>4, <1>5, <1>7, <2>3, <3>1
  <2> QED BY <2>1, <2>2, <2>3
<1>9. /\ mem' = [a \in Addr |-> mem'[a]]
      /\ \A a \in Addr : a # Inner[t] /\ a # c => mem'[a] = mem[a]
      /\ c \in Heap => mem'[c] = DroppedCell(f, c)
      /\ mem'[Inner[t]] = IF Len(stack[t]) = 1 THEN FreeCell ELSE mem[Inner[t]]
  BY <1>3, <1>5, <1>8
<1>10. /\ stack' \in [Thread -> Seq(Frame)]
       /\ LiveFrames' = LiveFrames \ {P}
       /\ \A p \in LiveFrames : p # P => FrameAt(p)' = FrameAt(p)
       /\ Idle(t)' <=> Len(stack[t]) = 1
       /\ \A u \in Thread : u # t => stack'[u] = stack[u]
  BY <1>3, Popped DEF CoreInv
<1>11. c \notin Heap \/ Disposes(f, c) => \A a \in Heap : ~FrameOwns(f, a)
  <2>1. c \notin Heap => \A a \in Heap : ~FrameOwns(f, a)
    BY DEF Dropped
  <2>2. c \in Heap /\ Disposes(f, c) => \A a \in Heap : ~FrameOwns(f, a)
    BY <1>7 DEF FrameOwns
  <2> QED BY <2>1, <2>2
<1>12. \A a \in Heap : Disposes(f, a) => a = c
  BY DEF Dropped, Disposes
<1>13. f.fn = "disposeHelper" => c \in Heap /\ f.arg = c /\ f.i > Len(mem[c].fields)
  BY DEF Dropped, Disposes
<1> QED BY <1>1, <1>2, <1>3, <1>6, <1>7, <1>9, <1>10, <1>11, <1>12, <1>13

\* what a dropped reference does to the cell
LEMMA DroppedCellShape ==
  ASSUME CoreInv, NEW f, NEW c \in Heap, mem'[c] = DroppedCell(f, c),
         mem[c].kind # "free",
         Disposes(f, c) => mem[c].dying /\ mem[c].count = 0,
         ~Disposes(f, c) => ~mem[c].dying /\ mem[c].count \in Nat /\ mem[c].count > 1,
         f.fn \in {"release", "disposeHelper", "byrefRelease"},
         f.fn \in {"release", "byrefRelease"} /\ ~Disposes(f, c) => ~(f.fn = "byrefRelease" /\ f.pc = "free"),
         f.fn = "disposeHelper" => Disposes(f, c)
  PROVE  /\ Disposes(f, c) => mem'[c] = FreeCell
         /\ ~Disposes(f, c) =>
              /\ CellKept(c)
              /\ mem'[c].isa = mem[c].isa
              /\ mem'[c].dying = mem[c].dying
              /\ mem'[c].count = mem[c].count - 1
              /\ mem[c].kind = "block" => mem'[c].fields = mem[c].fields
         /\ mem'[c] \in {FreeCell} \cup HeapBlock \cup HeapByref
         /\ mem'[c].kind = "block" => Len(mem'[c].fields) = Len(Captures[mem'[c].lit])
         /\ mem'[c].kind = "byref" => mem'[c].forwarding = c
         /\ mem'[c].kind # "free" => (mem'[c].dying <=> mem'[c].count = 0)
<1>1. CASE Disposes(f, c)
  <2>1. mem'[c] = FreeCell
    BY <1>1 DEF DroppedCell, Disposes
  <2> QED BY <1>1, <2>1 DEF FreeCell
<1>2. CASE ~Disposes(f, c)
  <2>1. mem'[c] = [mem[c] EXCEPT !.count = @ - 1]
    BY <1>2 DEF DroppedCell
  <2>2. /\ mem[c].kind = "block" => Len(mem[c].fields) = Len(Captures[mem[c].lit])
        /\ mem[c].kind = "byref" => mem[c].forwarding = c
        /\ mem[c].count > 1 /\ ~mem[c].dying /\ mem[c].count \in Nat
        /\ mem[c] \in HeapBlock \/ mem[c] \in HeapByref
    BY <1>2 DEF CoreInv, HeapInv, FreeCell
  <2>3. PICK k : k = mem[c].count - 1
    OBVIOUS
  <2>4. k \in Nat /\ k # 0
    BY <2>2, <2>3
  <2>5. mem'[c] = [mem[c] EXCEPT !.count = k]
    BY <2>1, <2>2, <2>3 DEF HeapBlock, HeapByref
  <2>6. CASE mem[c] \in HeapBlock
    <3>1. mem'[c] \in HeapBlock
      BY Zenon, <2>4, <2>5, <2>6 DEF HeapBlock
    <3>2. /\ mem'[c].kind = mem[c].kind /\ mem'[c].lit = mem[c].lit /\ mem'[c].fields = mem[c].fields
          /\ mem'[c].isa = mem[c].isa /\ mem'[c].dying = mem[c].dying /\ mem'[c].count = k
          /\ mem[c].kind = "block"
      BY <2>5, <2>6 DEF HeapBlock
    <3> QED BY <1>2, <2>2, <2>3, <2>4, <3>1, <3>2 DEF CellKept
  <2>7. CASE mem[c] \in HeapByref
    <3>1. mem'[c] \in HeapByref
      BY <2>4, <2>5, <2>7 DEF HeapByref
    <3>2. /\ mem'[c].kind = mem[c].kind /\ mem'[c].forwarding = mem[c].forwarding
          /\ mem'[c].of = mem[c].of /\ mem'[c].dying = mem[c].dying /\ mem'[c].count = k
          /\ mem[c].kind = "byref"
      BY <2>5, <2>7 DEF HeapByref
    <3>3. mem'[c].isa = mem[c].isa
      BY <2>5, <2>7, <3>2 DEF HeapByref
    <3> QED BY <1>2, <2>2, <2>3, <2>4, <3>1, <3>2, <3>3 DEF CellKept
  <2> QED BY <2>2, <2>6, <2>7
<1> QED BY <1>1, <1>2

LEMMA DropInv ==
  ASSUME IInv, NEW t \in Thread, ~Idle(t), NEW f, f = Head(stack[t]),
         NEW c, NEW m, Dropped(f, c, m), Drops(t, m)
  PROVE  IInv' /\ StepKept(t) /\ NothingMoves(t)
<1> PICK P : P = Top(t)
  OBVIOUS
<1>0. f = FrameAt(P) /\ CoreInv
  BY Running DEF IInv
<1>1. /\ P \in LiveFrames /\ P[1] = t /\ f \in Frame
      /\ c \in Heap \cup {NULL}
      /\ \A a \in Addr : a # Inner[t] /\ a # c => mem'[a] = mem[a]
      /\ mem' = [a \in Addr |-> mem'[a]]
      /\ c \in Heap => mem'[c] = DroppedCell(f, c)
      /\ f.fn \notin {"copy", "copyHelper", "byrefCopy"}
      /\ c \in Heap /\ ~Disposes(f, c) =>
           /\ mem[c].kind # "free" /\ ~mem[c].dying /\ mem[c].count \in Nat /\ mem[c].count > 1
           /\ \A p \in LiveFrames : ~Builds(FrameAt(p), c)
           /\ \A a \in Heap : FrameOwns(f, a) <=> a = c
      /\ c \in Heap /\ Disposes(f, c) => mem[c].kind # "free" /\ mem[c].dying /\ mem[c].count = 0
      /\ c \notin Heap \/ Disposes(f, c) => \A a \in Heap : ~FrameOwns(f, a)
      /\ \A a \in Heap : Disposes(f, a) => a = c
      /\ f.fn = "disposeHelper" => c \in Heap /\ f.arg = c /\ f.i > Len(mem[c].fields)
  BY <1>0, DroppedShape
<1>2. /\ mem'[Inner[t]] = IF Len(stack[t]) = 1 THEN FreeCell ELSE mem[Inner[t]]
      /\ busy' = IF Len(stack[t]) = 1 THEN [busy EXCEPT ![t] = {}] ELSE busy
      /\ var' = var /\ scope' = scope /\ retains' = retains /\ written' = written
      /\ stack' \in [Thread -> Seq(Frame)]
      /\ LiveFrames' = LiveFrames \ {P}
      /\ \A p \in LiveFrames : p # P => FrameAt(p)' = FrameAt(p)
      /\ Idle(t)' <=> Len(stack[t]) = 1
      /\ \A u \in Thread : u # t => stack'[u] = stack[u]
  BY <1>0, DroppedShape
<1>3. ASSUME c \in Heap
      PROVE  /\ Disposes(f, c) => mem'[c] = FreeCell
             /\ ~Disposes(f, c) =>
                  /\ CellKept(c)
                  /\ mem'[c].isa = mem[c].isa
                  /\ mem'[c].dying = mem[c].dying
                  /\ mem'[c].count = mem[c].count - 1
                  /\ mem[c].kind = "block" => mem'[c].fields = mem[c].fields
             /\ mem'[c] \in {FreeCell} \cup HeapBlock \cup HeapByref
             /\ mem'[c].kind = "block" => Len(mem'[c].fields) = Len(Captures[mem'[c].lit])
             /\ mem'[c].kind = "byref" => mem'[c].forwarding = c
             /\ mem'[c].kind # "free" => (mem'[c].dying <=> mem'[c].count = 0)
  <2>1. f.fn \in {"release", "disposeHelper", "byrefRelease"}
    BY <1>1, <1>3, FrameShape
  <2>2. f.fn = "disposeHelper" => Disposes(f, c)
    BY <1>1, <1>3 DEF Disposes
  <2>3. ~Disposes(f, c) => ~(f.fn = "byrefRelease" /\ f.pc = "free")
    BY Zenon, <1>1, <1>3 DEF Dropped, Disposes, FrameOwns
  <2>4. mem[c].kind # "free" /\ mem'[c] = DroppedCell(f, c)
    BY <1>1, <1>3
  <2>5. /\ Disposes(f, c) => mem[c].dying /\ mem[c].count = 0
        /\ ~Disposes(f, c) => ~mem[c].dying /\ mem[c].count \in Nat /\ mem[c].count > 1
    BY <1>1, <1>3
  <2> QED BY <1>0, <1>3, <2>1, <2>2, <2>3, <2>4, <2>5, DroppedCellShape
<1>4. Outermost(t) <=> Len(stack[t]) = 1
  <2>1. PICK n : n = Len(stack[t])
    BY Zenon
  <2>2. n \in Nat \ {0}
    BY <1>0, <2>1, TopFrame DEF CoreInv
  <2>3. n <= 1 <=> n = 1
    BY <2>2
  <2> QED BY <2>1, <2>3 DEF Outermost
<1>5. /\ MemKept(t) /\ \A b \in Byref \cup {GlobalBlock} : mem'[b] = mem[b]
      /\ \A a \in Heap : a # c => mem'[a] = mem[a]
  <2>1. c \in Heap =>
           \/ mem[c].kind = "free"
           \/ ~Idle(t) /\ Disposes(FrameAt(Top(t)), c)
           \/ /\ CellKept(c) /\ ~mem[c].dying
              /\ \A p \in LiveFrames : Builds(FrameAt(p), c) => p = Top(t)
    BY <1>0, <1>1, <1>3
  <2>2. mem'[Inner[t]] = mem[Inner[t]] \/ Outermost(t)
    BY <1>2, <1>4
  <2> QED BY <1>0, <1>1, <2>1, <2>2, OneCell
<1>6. CallsKept(t)
  BY <1>2 DEF CallsKept
<1>7. /\ busy' \in [Thread -> SUBSET Var]
      /\ \A u \in Thread : busy'[u] = IF u = t /\ Len(stack[t]) = 1 THEN {} ELSE busy[u]
  BY <1>0, <1>2 DEF CoreInv, ProgramInv
<1>8. ProgramKept(t)
  BY <1>2, <1>4, <1>7 DEF ProgramKept
<1>9. StepKept(t) /\ Changed(t) = {}
  BY <1>2, <1>5, <1>6, <1>8 DEF StepKept, Changed
<1>10. HeapInv'
  BY <1>0, <1>1, <1>3, <1>5, HeapStep DEF CoreInv
<1>11. StackInv'
  BY <1>0, <1>1, <1>5, <1>9, StackInvKept
<1>12. ProgramInv'
  <2>1. \A u \in Thread : ThreadKept(u)
    <3>1. ASSUME NEW u \in Thread PROVE ThreadKept(u)
      <4>1. CASE u = t /\ Len(stack[t]) = 1
        BY <1>2, <1>7, <4>1 DEF ThreadKept
      <4>2. CASE ~(u = t /\ Len(stack[t]) = 1)
        <5>1. mem'[Inner[u]] = mem[Inner[u]]
          BY <1>2, <1>4, <1>5, <4>2 DEF MemKept
        <5>2. Idle(u)' => Idle(u)
          BY <1>2, <4>2 DEF Idle
        <5> QED BY <1>7, <4>2, <5>1, <5>2 DEF ThreadKept
      <4> QED BY <4>1, <4>2
    <3> QED BY <3>1
  <2>2. retains' = [o \in Object |-> retains'[o]] /\ written' \in [Byref -> Value]
    BY <1>0, <1>2 DEF CoreInv, ProgramInv
  <2> QED BY <1>0, <1>2, <1>7, <1>9, <2>1, <2>2, ProgramInvKept
<1>13. CallsInv'
  <2>1. \A a \in Heap : mem'[a].kind = "block" /\ mem'[a].isa = "stack" =>
           mem[a].kind = "block" /\ mem[a].isa = "stack" /\ ~Builds(f, a)
    BY <1>1, <1>3, <1>5 DEF Builds, FreeCell, CellKept
  <2>2. \A a \in Heap : mem'[a].kind # "free" /\ mem'[a].dying =>
           mem[a].kind # "free" /\ mem[a].dying /\ ~Disposes(f, a)
    BY <1>1, <1>3, <1>5 DEF FreeCell
  <2> QED BY <1>0, <1>9, <2>1, <2>2, CallsInvKept
<1>14. HelpedFields' = HelpedFields /\ \A x \in HelpedFields : FieldKept(x)
  <2>1. \A x : x[1] = c => (x \in HelpedFields' <=> x \in HelpedFields)
    <3>1. ASSUME NEW x, x[1] = c, c \in Heap, Disposes(f, c)
          PROVE  x \notin HelpedFields' /\ x \notin HelpedFields
      <4>1. x \notin HelpedFields'
        BY <1>3, <3>1 DEF HelpedFields, FreeCell
      <4>2. x \notin HelpedFields
        <5> SUFFICES ASSUME x \in HelpedFields PROVE FALSE
          OBVIOUS
        <5>1. IsField(x) /\ ~Withholds(f, x)
          BY <1>0, <1>1, HelpedShape
        <5>2. mem[c] \in HeapBlock
          BY <1>0, <3>1, <5>1 DEF CoreInv, HeapInv, HeapBlock, HeapByref, FreeCell, IsField, IsBlock
        <5>3. x[2] \in 1 .. Len(mem[c].fields) /\ Len(mem[c].fields) \in Nat
          BY <3>1, <5>1, <5>2 DEF IsField, HeapBlock
        <5>4. CASE f.fn = "disposeHelper"
          <6>1. f.i \in Nat /\ f.i > Len(mem[c].fields) /\ f.arg = c
            BY <1>1, <5>4, FrameShape
          <6> QED BY <3>1, <5>1, <5>3, <5>4, <6>1 DEF Withholds
        <5>5. CASE f.fn = "byrefRelease"
          <6>1. ReleaseInv(P) /\ f.arg = c
            BY <1>0, <1>1, <3>1 DEF CoreInv, CallsInv, FrameInv, Disposes
          <6> QED BY <1>0, <3>1, <5>1, <5>5, <6>1, Apart DEF ReleaseInv, IsByref, IsField, IsBlock
        <5> QED BY <3>1, <5>4, <5>5 DEF Disposes
      <4> QED BY <4>1, <4>2
    <3>2. ASSUME NEW x, x[1] = c, c \in Heap, ~Disposes(f, c)
          PROVE  x \in HelpedFields' <=> x \in HelpedFields
      <4>1. IsField(x)' <=> IsField(x)
        BY <1>3, <3>2 DEF IsField, IsBlock, CellKept
      <4>2. ~Withholds(f, x)
        BY <1>1, <3>2 DEF Withholds, Dropped, Disposes
      <4> QED BY <1>0, <1>9, <4>1, <4>2, HelpedKept DEF Changed
    <3>3. ASSUME NEW x, x[1] = c, c \notin Heap
          PROVE  x \notin HelpedFields' /\ x \notin HelpedFields
      BY <3>3 DEF HelpedFields
    <3> QED BY <3>1, <3>2, <3>3
  <2>2. \A x : x[1] = c /\ x \in HelpedFields => FieldKept(x)
    <3>1. ASSUME NEW x, x[1] = c, x \in HelpedFields PROVE FieldKept(x)
      <4>1. c \in Heap /\ mem[c].kind = "block" /\ x \in HelpedFields'
        BY <2>1, <3>1, HelpedShape DEF IsField, IsBlock
      <4>2. mem'[c].kind = "block"
        BY <3>1, <4>1 DEF HelpedFields
      <4>3. CellKept(c) /\ mem'[c].fields = mem[c].fields
        BY <1>3, <4>1, <4>2 DEF FreeCell
      <4> QED BY <3>1, <4>1, <4>3 DEF FieldKept, CellKept
    <3> QED BY <3>1
  <2>3. \A x : IsField(x) /\ x[1] # c /\ ~Idle(t) => ~Withholds(FrameAt(Top(t)), x)
    BY <1>0, <1>1 DEF Withholds
  <2>4. \A x, p : IsField(x) /\ x[1] # c /\ p \in Changed(t) => ~Withholds(FrameAt(p), x)'
    BY <1>9
  <2> QED BY <1>0, <1>5, <1>9, <2>1, <2>2, <2>3, <2>4, SameHelped
<1>15. /\ FieldsInv' /\ \A a : FieldOwners(a)' = FieldOwners(a)
       /\ RetainsInv'
  <2>1. /\ FieldsInv'
        /\ \A a : FieldOwners(a)' = FieldOwners(a)
        /\ \A o : ObjectFields(o)' = ObjectFields(o)
    BY <1>0, <1>9, <1>14, FieldsSame DEF IInv
  <2> QED BY <1>2, <2>1, RetainsSame DEF IInv
<1>16. ASSUME NEW a \in Heap PROVE Owners(a)' = IF mem'[a].kind = "free" THEN 0 ELSE mem'[a].count
  <2>1. PICK h : h = IF c \in Heap /\ ~Disposes(f, c) /\ a = c THEN -1 ELSE 0
    OBVIOUS
  <2>2. Grows(VarOwners(a), VarOwners(a)', 0)
    <3>1. VarOwners(a)' = VarOwners(a)
      BY <1>2 DEF VarOwners
    <3> QED BY <3>1 DEF Grows
  <2>3. Grows(FieldOwners(a), FieldOwners(a)', 0)
    BY <1>15 DEF Grows
  <2>4. Grows(StackOwners(a), StackOwners(a)', 0)
    <3>1. \A b \in Byref : mem'[b].forwarding = mem[b].forwarding
      BY <1>5
    <3>2. ~(f.fn = "byrefCopy" /\ f.pc = "publish")
      BY <1>1
    <3>3. \A p \in LiveFrames' : ~(p \notin LiveFrames \/ p = Top(t))
      BY <1>9 DEF Changed
    <3>4. StackOwners(a)' = StackOwners(a)
      BY <1>0, <1>9, <3>1, <3>2, <3>3, StackOwnersKept
    <3> QED BY <3>4 DEF Grows
  <2>5. Grows(FrameOwners(a), FrameOwners(a)', h)
    <3>1. FrameOwners(a)' = (FrameOwners(a) \ {P}) \cup {p \in {} : FrameOwns(FrameAt(p), a)'}
      BY <1>0, <1>9, FrameOwnersStep
    <3>2. FrameOwners(a)' = FrameOwners(a) \ {P}
      BY <3>1
    <3>3. P \in FrameOwners(a) <=> c \in Heap /\ ~Disposes(f, c) /\ a = c
      BY <1>0, <1>1 DEF FrameOwners
    <3> QED BY <2>1, <3>2, <3>3 DEF Grows
  <2>6. Owners(a)' = Owners(a) + 0 + 0 + h + 0 /\ Owners(a) \in Nat
    BY <1>0, <2>2, <2>3, <2>4, <2>5, OwnersGrow DEF CoreInv
  <2>7. Owners(a) = IF mem[a].kind = "free" THEN 0 ELSE mem[a].count
    BY <1>0 DEF CoreInv, OwnersInv
  <2>8. CASE a # c
    BY <1>5, <2>1, <2>6, <2>7, <2>8
  <2>9. CASE a = c /\ Disposes(f, c)
    <3>1. mem'[a].kind = "free"
      BY <1>3, <2>9 DEF FreeCell
    <3> QED BY <1>1, <2>1, <2>6, <2>7, <2>9, <3>1
  <2>10. CASE a = c /\ ~Disposes(f, c)
    BY <1>1, <1>3, <2>1, <2>6, <2>7, <2>10 DEF CellKept
  <2> QED BY <2>8, <2>9, <2>10
<1>17. OwnersInv'
  BY <1>16 DEF OwnersInv
<1>18. NothingMoves(t)
  <2>1. ~Moves(f)
    BY <1>1 DEF Moves
  <2>2. ASSUME NEW a \in Heap, mem'[a].kind = "byref" PROVE mem'[a] = mem[a] \/ Recounted(a)
    <3>1. CASE a # c
      BY <1>5, <3>1
    <3>2. CASE a = c
      <4>1. ~Disposes(f, c)
        BY <1>3, <2>2, <3>2 DEF FreeCell
      <4>2. mem[c] \in HeapByref
        BY <1>0, <1>3, <2>2, <3>2, <4>1 DEF CellKept, CoreInv, HeapInv, FreeCell, HeapBlock
      <4>3. mem'[c] = [mem[c] EXCEPT !.count = @ - 1]
        BY <1>1, <2>2, <3>2 DEF DroppedCell, FreeCell
      <4>4. mem'[c].of = mem[c].of /\ mem'[c].val = mem[c].val /\ mem'[c].dying = mem[c].dying
        BY <4>2, <4>3 DEF HeapByref
      <4>5. FrameOwns(FrameAt(P), c)
        BY <1>0, <1>1, <3>2, <4>1
      <4>6. mem[c].kind = "byref"
        BY <4>2 DEF HeapByref
      <4> QED BY <1>0, <1>1, <2>1, <3>2, <4>4, <4>5, <4>6 DEF Recounted
    <3> QED BY <3>1, <3>2
  <2> QED BY <1>0, <1>2, <1>5, <1>9, <2>1, <2>2 DEF NothingMoves
<1> QED BY <1>9, <1>10, <1>11, <1>12, <1>13, <1>15, <1>17, <1>18 DEF IInv, CoreInv

\* what the flags of a Block or __block variable that a release finds say
LEMMA HeapCellWhere ==
  ASSUME CoreInv, NEW a
  PROVE  /\ IsBlock(a) \/ IsByref(a) => mem[a].where = "heap" /\ a \in Heap
         /\ a = GlobalBlock => mem[a].where # "heap"
         /\ a \in Byref /\ scope # "closed" => mem[a].where # "heap"
<1>1. IsBlock(a) \/ IsByref(a) => mem[a].where = "heap" /\ a \in Heap
  BY DEF CoreInv, HeapInv, HeapBlock, HeapByref, FreeCell, IsBlock, IsByref
<1>2. a = GlobalBlock => mem[a].where # "heap"
  BY DEF CoreInv, StackInv, Block
<1>3. ASSUME a \in Byref, scope # "closed" PROVE mem[a].where # "heap"
  <2>1. PICK f, x : mem[a] = ByrefCell("stack", 0, f, a, x)
    BY <1>3 DEF CoreInv, StackInv
  <2> QED BY <2>1 DEF ByrefCell
<1> QED BY <1>1, <1>2, <1>3

LEMMA ReleaseReturns ==
  ASSUME IInv, NEW t \in Thread, ReleaseNothing(t) \/ ReleaseShared(t) \/ ReleaseDone(t)
  PROVE  IInv' /\ StepKept(t) /\ NothingMoves(t)
<1>1. PICK f : f = Head(stack[t])
  OBVIOUS
<1>2. ~Idle(t)
  BY DEF ReleaseNothing, ReleaseShared, ReleaseDone, In, Idle
<1>3. ReleaseInv(Top(t)) /\ FrameAt(Top(t)) = f /\ CoreInv
  BY <1>1, <1>2, Running DEF IInv, FrameInv
<1>4. CASE ReleaseNothing(t)
  <2>1. f.fn = "release" /\ Drops(t, mem) /\ (f.arg # NULL => mem[f.arg].where # "heap")
    BY <1>1, <1>4 DEF ReleaseNothing, In, Drops
  <2>2. f.arg \in {NULL, GlobalBlock}
    BY <1>3, <2>1, HeapCellWhere DEF ReleaseInv, IInv, IsBlock
  <2>3. PICK c, m : c = NULL /\ m = mem
    OBVIOUS
  <2>4. Dropped(f, c, m) /\ Drops(t, m)
    BY <2>1, <2>2, <2>3, Apart DEF Dropped, FrameOwns, Drops
  <2> QED BY <1>1, <1>2, <2>4, DropInv
<1>5. CASE ReleaseShared(t)
  <2>1. PICK c, m : c = f.arg /\ m = [mem EXCEPT ![f.arg].count = IF @ = 0 THEN 0 ELSE @ - 1]
    BY ZenonT(30)
  <2>2. /\ f.fn = "release" /\ Drops(t, m) /\ c # NULL /\ mem[c].where = "heap"
        /\ mem[c].count # 1 \/ mem[c].dying
    BY <1>1, <1>5, <2>1 DEF ReleaseShared, In, Drops
  <2>3. c \in Heap
    BY <1>3, <2>1, <2>2, HeapCellWhere DEF ReleaseInv, IInv, IsBlock
  <2>4. Dropped(f, c, m)
    BY <2>1, <2>2, <2>3 DEF Dropped, FrameOwns
  <2> QED BY <1>1, <1>2, <2>2, <2>4, DropInv
<1>6. CASE ReleaseDone(t)
  <2>1. PICK c, m : c = f.arg /\ m = [mem EXCEPT ![f.arg] = FreeCell]
    BY Zenon
  <2>2. f.fn = "disposeHelper" /\ Drops(t, m) /\ f.i > Len(mem[c].fields)
    BY <1>1, <1>6, <2>1 DEF ReleaseDone, In, Drops
  <2>3. c \in Heap
    BY <1>3, <2>1, <2>2 DEF ReleaseInv, IsBlock
  <2>4. Dropped(f, c, m)
    BY <2>1, <2>2, <2>3 DEF Dropped, Disposes
  <2> QED BY <1>1, <1>2, <2>2, <2>4, DropInv
<1> QED BY <1>4, <1>5, <1>6

LEMMA ByrefReleaseReturns ==
  ASSUME IInv, NEW t \in Thread, ByrefReleaseShared(t) \/ ByrefReleaseDone(t)
  PROVE  IInv' /\ StepKept(t) /\ NothingMoves(t)
<1>1. PICK f : f = Head(stack[t])
  OBVIOUS
<1>2. ~Idle(t)
  BY DEF ByrefReleaseShared, ByrefReleaseDone, InAt, In, Idle
<1>3. ReleaseInv(Top(t)) /\ FrameAt(Top(t)) = f /\ CoreInv
  BY <1>1, <1>2, Running DEF IInv, FrameInv
<1>4. CASE ByrefReleaseShared(t)
  <2>1. PICK c, m : c = f.arg /\ m = [mem EXCEPT ![f.arg].count = IF @ = 0 THEN 0 ELSE @ - 1]
    BY ZenonT(30)
  <2>2. /\ f.fn = "byrefRelease" /\ f.pc = "decrement" /\ Drops(t, m)
        /\ mem[c].count # 1 \/ mem[c].dying
    BY <1>1, <1>4, <2>1 DEF ByrefReleaseShared, InAt, In, Drops
  <2>3. c \in Heap
    BY <1>3, <2>1, <2>2 DEF ReleaseInv, IsByref
  <2>4. Dropped(f, c, m)
    BY <2>1, <2>2, <2>3 DEF Dropped, FrameOwns
  <2> QED BY <1>1, <1>2, <2>2, <2>4, DropInv
<1>5. CASE ByrefReleaseDone(t)
  <2>1. PICK c, m : c = f.arg /\ m = [mem EXCEPT ![f.arg] = FreeCell]
    BY Zenon
  <2>2. f.fn = "byrefRelease" /\ f.pc = "free" /\ Drops(t, m)
    BY <1>1, <1>5, <2>1 DEF ByrefReleaseDone, InAt, In, Drops
  <2>3. c \in Heap
    BY <1>3, <2>1, <2>2 DEF ReleaseInv, IsByref
  <2>4. Dropped(f, c, m)
    BY <2>1, <2>2, <2>3 DEF Dropped, Disposes
  <2> QED BY <1>1, <1>2, <2>2, <2>4, DropInv
<1> QED BY <1>4, <1>5

\* a __block variable that never left the stack is not released.
LEMMA ByrefStays ==
  ASSUME IInv, NEW t \in Thread, ByrefReleaseLoad(t),
         NEW f, f = Head(stack[t]), mem[mem[f.arg].forwarding].where # "heap"
  PROVE  IInv' /\ StepKept(t) /\ NothingMoves(t)
<1>1. ~Idle(t) /\ f.fn = "byrefRelease" /\ f.pc = "load" /\ Drops(t, mem)
  BY DEF ByrefReleaseLoad, InAt, In, Idle, Drops
<1>2. ReleaseInv(Top(t)) /\ FrameAt(Top(t)) = f /\ CoreInv
  BY <1>1, Running DEF IInv, FrameInv
<1>3. f.arg \in Byref /\ mem[f.arg].forwarding = f.arg
  <2>1. CASE IsByref(f.arg)
    <3>1. mem[f.arg].forwarding = f.arg
      BY <1>2, <2>1 DEF CoreInv, HeapInv, IsByref
    <3> QED BY <1>2, <2>1, <3>1, HeapCellWhere
  <2>2. CASE f.arg \in Byref /\ (mem[f.arg].forwarding = f.arg \/ IsByref(mem[f.arg].forwarding))
    BY <1>2, <2>2, HeapCellWhere
  <2> QED BY <1>1, <1>2, <2>1, <2>2 DEF ReleaseInv
<1>4. PICK c, m : c = NULL /\ m = mem
  OBVIOUS
<1>5. Dropped(f, c, m)
  BY <1>1, <1>3, <1>4, Apart DEF Dropped, FrameOwns
<1>6. Drops(t, m)
  BY <1>1, <1>4 DEF Drops
<1> QED BY <1>1, <1>5, <1>6, DropInv

-----------------------------------------------------------------------------
(* A call goes on *)

\* The call P of t, which moves the __block variable b to its copy c, comes to the
\* point "to": nothing else changes than the two.
MoveGoesOn(t, P, b, c, to) ==
  /\ P = Top(t) /\ t = Main /\ ~Idle(t) /\ P \in LiveFrames /\ Changed(t) = {P} /\ LiveFrames' = LiveFrames
  /\ \A p \in LiveFrames : p # P => FrameAt(p)' = FrameAt(p)
  /\ FrameAt(P).fn = "byrefCopy" /\ FrameAt(P).arg = b
  /\ FrameAt(P)'.fn = "byrefCopy" /\ FrameAt(P)'.arg = b /\ FrameAt(P)'.pc = to /\ FrameAt(P)'.copy = c
  /\ b \in Byref /\ c \in Heap /\ scope = "open" /\ written' = written
  /\ \A a \in Heap : a # c => mem'[a] = mem[a]
  /\ \A y \in Byref : y # b => mem'[y] = mem[y]

LEMMA Still ==
  ASSUME NEW t \in Thread, NEW P, P = Top(t), NEW f, f = FrameAt(P), ~Moves(f),
         Changed(t) = {P}, NEW g, FrameAt(P)' = g, ~Moves(g), written' = written,
         \A b \in Byref \cup {GlobalBlock} : mem'[b] = mem[b],
         NEW c, \A a \in Heap : a # c => mem'[a] = mem[a],
         c \in Heap => mem'[c].kind # "byref" \/ mem'[c] = mem[c] \/ Recounted(c)
  PROVE  NothingMoves(t)
<1>1. ~Idle(t) => ~Moves(FrameAt(Top(t)))
  OBVIOUS
<1>2. \A p \in Changed(t) : ~Moves(FrameAt(p))'
  <2>1. ASSUME NEW p \in Changed(t) PROVE ~Moves(FrameAt(p))'
    BY <2>1 DEF Moves
  <2> QED BY <2>1
<1> QED BY <1>1, <1>2 DEF NothingMoves

\* The call f of t goes on as g, and changes the cell c of the heap, or none.
LEMMA GoesOn ==
  ASSUME CoreInv, NEW t \in Thread, ~Idle(t), NEW P, P = Top(t), NEW f, f = FrameAt(P),
         NEW g \in Frame, Continue(t, <<g>>), NEW c \in Heap \cup {NULL},
         mem' = [a \in Addr |-> mem'[a]], \A a \in Addr : a # c => mem'[a] = mem[a],
         UNCHANGED <<var, busy, scope, written>>, retains' = [o \in Object |-> retains'[o]],
         c \in Heap =>
           \/ mem[c].kind = "free"
           \/ Disposes(f, c)
           \/ /\ CellKept(c) /\ ~mem[c].dying
              /\ \A p \in LiveFrames : Builds(FrameAt(p), c) => p = P
  PROVE  /\ StepKept(t) /\ Changed(t) = {P} /\ P \in LiveFrames /\ P[1] = t
         /\ LiveFrames' = LiveFrames /\ FrameAt(P)' = g
         /\ \A p \in LiveFrames : p # P => FrameAt(p)' = FrameAt(p)
         /\ \A a \in Heap : a # c => mem'[a] = mem[a]
         /\ \A b \in Byref \cup {GlobalBlock} : mem'[b] = mem[b]
         /\ P = Top(t)'
         /\ StackInv' /\ ProgramInv'
<1>1. /\ stack' \in [Thread -> Seq(Frame)]
      /\ LiveFrames' = LiveFrames
      /\ \A p \in LiveFrames : p # P => FrameAt(p)' = FrameAt(p)
      /\ FrameAt(P)' = g
      /\ \A u \in Thread : Len(stack'[u]) = Len(stack[u])
  BY Replaced DEF CoreInv
<1>2. \A u \in Thread : u # t => stack'[u] = stack[u]
  BY DEF Continue, CoreInv, CallsInv
<1>3. P \in LiveFrames /\ P[1] = t
  BY TopFrame DEF CoreInv
<1>4. CallsKept(t)
  BY <1>1, <1>2 DEF CallsKept
<1>5. ProgramKept(t)
  BY DEF ProgramKept
<1>6. /\ \A a \in Addr : a # c /\ a # Inner[t] => mem'[a] = mem[a]
      /\ \A u \in Thread : Inner[u] \in Addr /\ mem'[Inner[u]] = mem[Inner[u]]
  BY Apart DEF Addr
<1>7. /\ MemKept(t)
      /\ \A b \in Byref \cup {GlobalBlock} : mem'[b] = mem[b]
      /\ \A a \in Heap : a # c => mem'[a] = mem[a]
  BY <1>6, OneCell
<1>8. StepKept(t) /\ Changed(t) = {P}
  BY <1>1, <1>3, <1>4, <1>5, <1>7 DEF StepKept, Changed
<1>9. StackInv'
  BY <1>7, <1>8, StackInvKept
<1>10. \A u \in Thread : ThreadKept(u)
  <2>1. ASSUME NEW u \in Thread PROVE ThreadKept(u)
    <3>1. stack'[u] \in Seq(Frame) /\ stack[u] \in Seq(Frame)
      BY <1>1 DEF CoreInv, CallsInv
    <3>2. Len(stack'[u]) = Len(stack[u])
      BY <1>1
    <3>3. Idle(u)' => Idle(u)
      BY <3>1, <3>2, EmptySeq DEF Idle
    <3> QED BY <1>6, <3>3 DEF ThreadKept
  <2> QED BY <2>1
<1>11. ProgramInv'
  <2>1. busy' \in [Thread -> SUBSET Var] /\ written' \in [Byref -> Value] /\ var' = var
    BY DEF CoreInv, ProgramInv
  <2> QED BY <1>8, <1>10, <2>1, ProgramInvKept
<1>12. P = Top(t)'
  BY <1>1 DEF Top
<1> QED BY <1>1, <1>3, <1>7, <1>8, <1>9, <1>11, <1>12

LEMMA GoesOnCalls ==
  ASSUME CoreInv, NEW t \in Thread, ~Idle(t), NEW P, P = Top(t), NEW f, f = FrameAt(P), NEW g,
         NEW c, StepKept(t), Changed(t) = {P}, FrameAt(P)' = g,
         \A a \in Heap : a # c => mem'[a] = mem[a],
         FrameInv(P)',
         \A a \in Heap : a # c => (Builds(f, a) => Builds(g, a)),
         c \in Heap /\ mem'[c].kind = "block" /\ mem'[c].isa = "stack" =>
           \/ Builds(g, c)
           \/ mem[c].kind = "block" /\ mem[c].isa = "stack" /\ ~Builds(f, c),
         \A a \in Heap : a # c => (Disposes(f, a) => Disposes(g, a)),
         c \in Heap /\ mem'[c].kind # "free" /\ mem'[c].dying =>
           \/ Disposes(g, c)
           \/ mem[c].kind # "free" /\ mem[c].dying /\ ~Disposes(f, c),
         \A a \in Heap : Disposes(g, a) => Disposes(f, a) \/ ~mem[a].dying
  PROVE  CallsInv'
<1>1. \A a : (Builds(FrameAt(P), a)' <=> Builds(g, a)) /\ (Disposes(FrameAt(P), a)' <=> Disposes(g, a))
  BY DEF Builds, Disposes
<1>2. ASSUME NEW a \in Heap, mem'[a].kind = "block", mem'[a].isa = "stack"
      PROVE  \/ Builds(g, a)
             \/ mem[a].kind = "block" /\ mem[a].isa = "stack" /\ ~Builds(f, a)
  BY <1>2
<1>3. ASSUME NEW a \in Heap, mem'[a].kind # "free", mem'[a].dying
      PROVE  \/ Disposes(g, a)
             \/ mem[a].kind # "free" /\ mem[a].dying /\ ~Disposes(f, a)
  BY <1>3
<1>4. \A p \in Changed(t) : FrameInv(p)'
  OBVIOUS
<1>5. \A a \in Heap : mem'[a].kind = "block" /\ mem'[a].isa = "stack" =>
           \/ \E p \in Changed(t) : Builds(FrameAt(p), a)'
           \/ /\ mem[a].kind = "block" /\ mem[a].isa = "stack"
              /\ ~Idle(t) => ~Builds(FrameAt(Top(t)), a)
  BY <1>1, <1>2
<1>6. \A a \in Heap : mem'[a].kind # "free" /\ mem'[a].dying =>
           \/ \E p \in Changed(t) : Disposes(FrameAt(p), a)'
           \/ /\ mem[a].kind # "free" /\ mem[a].dying
              /\ ~Idle(t) => ~Disposes(FrameAt(Top(t)), a)
  BY <1>1, <1>3
<1>7. \A p \in Changed(t), a \in Heap : Disposes(FrameAt(p), a)' =>
           /\ \A q \in Changed(t) : Disposes(FrameAt(q), a)' => q = p
           /\ \/ ~Idle(t) /\ Disposes(FrameAt(Top(t)), a)
              \/ ~mem[a].dying
  BY <1>1
<1> QED BY <1>4, <1>5, <1>6, <1>7, CallsInvKept

LEMMA GoesOnHelped ==
  ASSUME LiveFrames' = LiveFrames, NEW P \in LiveFrames, NEW g, FrameAt(P)' = g,
         \A p \in LiveFrames : p # P => FrameAt(p)' = FrameAt(p),
         NEW x, IsField(x)' <=> IsField(x),
         IsField(x) => (Withholds(g, x) <=> Withholds(FrameAt(P), x))
  PROVE  x \in HelpedFields' <=> x \in HelpedFields
<1>1. x \in HelpedFields' <=> IsField(x)' /\ \A p \in LiveFrames' : ~Withholds(FrameAt(p), x)'
  BY DEF HelpedFields, IsField, IsBlock
<1>2. x \in HelpedFields <=> IsField(x) /\ \A p \in LiveFrames : ~Withholds(FrameAt(p), x)
  BY HelpedShape
<1>3. \A p \in LiveFrames : p # P => (Withholds(FrameAt(p), x)' <=> Withholds(FrameAt(p), x))
  BY DEF Withholds, ToField
<1>4. Withholds(FrameAt(P), x)' <=> Withholds(g, x)
  BY DEF Withholds, ToField
<1> QED BY <1>1, <1>2, <1>3, <1>4

\* the references that the call itself stands for
LEMMA GoesOnOwners ==
  ASSUME CoreInv, NEW t \in Thread, StepKept(t), NEW P, P = Top(t), P \in LiveFrames, Changed(t) = {P},
         NEW a \in Heap, NEW before, before <=> FrameOwns(FrameAt(P), a),
         NEW after, after <=> FrameOwns(FrameAt(P), a)'
  PROVE  /\ before <=> after => Grows(FrameOwners(a), FrameOwners(a)', 0)
         /\ ~before /\ after => Grows(FrameOwners(a), FrameOwners(a)', 1)
         /\ before /\ ~after => Grows(FrameOwners(a), FrameOwners(a)', -1)
<1>1. FrameOwners(a)' = (FrameOwners(a) \ {P}) \cup {p \in Changed(t) : FrameOwns(FrameAt(p), a)'}
  BY FrameOwnersStep
<1>2. P \in FrameOwners(a) <=> before
  BY DEF FrameOwners
<1>3. FrameOwners(a)' = (FrameOwners(a) \ {P}) \cup (IF after THEN {P} ELSE {})
  BY <1>1
<1> QED BY <1>2, <1>3 DEF Grows

\* the references that the cell a counts
Held(a) == IF mem[a].kind = "free" THEN 0 ELSE mem[a].count

LEMMA OwnersSettle ==
  ASSUME CoreInv,
         \A a \in Heap : \E v, x, p, s :
           /\ Grows(VarOwners(a), VarOwners(a)', v) /\ Grows(FieldOwners(a), FieldOwners(a)', x)
           /\ Grows(FrameOwners(a), FrameOwners(a)', p) /\ Grows(StackOwners(a), StackOwners(a)', s)
           /\ Held(a)' = Held(a) + v + x + p + s
  PROVE  OwnersInv'
<1>1. ASSUME NEW a \in Heap PROVE Owners(a)' = Held(a)'
  <2>1. PICK v, x, p, s :
           /\ Grows(VarOwners(a), VarOwners(a)', v) /\ Grows(FieldOwners(a), FieldOwners(a)', x)
           /\ Grows(FrameOwners(a), FrameOwners(a)', p) /\ Grows(StackOwners(a), StackOwners(a)', s)
           /\ Held(a)' = Held(a) + v + x + p + s
    OBVIOUS
  <2>2. Owners(a) \in Nat /\ Owners(a)' = Owners(a) + v + x + p + s
    BY <2>1, OwnersGrow DEF CoreInv
  <2>3. Owners(a) = Held(a)
    BY DEF CoreInv, OwnersInv, Held
  <2> QED BY <2>1, <2>2, <2>3
<1> QED BY <1>1 DEF OwnersInv, Held

\* ... when no variable and no field is concerned
Settles(a) ==
  \E p, s :
    /\ Grows(FrameOwners(a), FrameOwners(a)', p) /\ Grows(StackOwners(a), StackOwners(a)', s)
    /\ Held(a)' = Held(a) + p + s

LEMMA CallsSettle ==
  ASSUME CoreInv,
         \A a \in Heap :
           /\ VarOwners(a)' = VarOwners(a) /\ FieldOwners(a)' = FieldOwners(a)
           /\ Settles(a)
  PROVE  OwnersInv'
<1>1. ASSUME NEW a \in Heap
      PROVE  \E v, x, p, s :
           /\ Grows(VarOwners(a), VarOwners(a)', v) /\ Grows(FieldOwners(a), FieldOwners(a)', x)
           /\ Grows(FrameOwners(a), FrameOwners(a)', p) /\ Grows(StackOwners(a), StackOwners(a)', s)
           /\ Held(a)' = Held(a) + v + x + p + s
  <2>1. PICK p, s :
           /\ Grows(FrameOwners(a), FrameOwners(a)', p) /\ Grows(StackOwners(a), StackOwners(a)', s)
           /\ Held(a)' = Held(a) + p + s
    BY DEF Settles
  <2>2. Held(a) \in Nat
    BY DEF Held, CoreInv, HeapInv, HeapBlock, HeapByref, FreeCell
  <2>3. Grows(VarOwners(a), VarOwners(a)', 0) /\ Grows(FieldOwners(a), FieldOwners(a)', 0)
    BY DEF Grows
  <2>4. p \in {-1, 0, 1} /\ s \in {-1, 0, 1}
    BY <2>1 DEF Grows
  <2>5. Held(a)' = Held(a) + 0 + 0 + p + s
    BY <2>1, <2>2, <2>4
  <2> QED BY <2>1, <2>3, <2>5
<1> QED BY <1>1, OwnersSettle

\* A call about a __block variable goes on: the fields are what they were.
LEMMA ByrefFieldsSame ==
  ASSUME CoreInv, FieldsInv, RetainsInv, NEW t \in Thread, StepKept(t), NEW P \in LiveFrames,
         NEW f, f = FrameAt(P), NEW g, FrameAt(P)' = g, LiveFrames' = LiveFrames,
         \A p \in LiveFrames : p # P => FrameAt(p)' = FrameAt(p),
         f.fn = g.fn, f.fn \in {"byrefCopy", "byrefRelease"}, f.fn = "byrefCopy" => g.dest = f.dest,
         retains' = retains, var' = var,
         \A a \in Heap : mem'[a].kind = "block" \/ mem[a].kind = "block" => mem'[a] = mem[a]
  PROVE  /\ FieldsInv' /\ RetainsInv'
         /\ \A a \in Heap : VarOwners(a)' = VarOwners(a) /\ FieldOwners(a)' = FieldOwners(a)
<1>1. \A x : IsField(x)' <=> IsField(x)
  BY DEF IsField, IsBlock
<1>2. \A x : Withholds(g, x) <=> Withholds(f, x)
  BY DEF Withholds
<1>3. ASSUME NEW x PROVE x \in HelpedFields' <=> x \in HelpedFields
  BY <1>1, <1>2, GoesOnHelped
<1>4. HelpedFields' = HelpedFields
  BY <1>3
<1>5. \A x \in HelpedFields : FieldKept(x)
  BY HelpedShape DEF IsField, IsBlock, FieldKept
<1>6. /\ FieldsInv'
      /\ \A a : FieldOwners(a)' = FieldOwners(a)
      /\ \A o : ObjectFields(o)' = ObjectFields(o)
  BY <1>4, <1>5, FieldsSame
<1>7. \A a : VarOwners(a)' = VarOwners(a)
  BY DEF VarOwners
<1>8. RetainsInv'
  BY <1>6, RetainsSame
<1> QED BY <1>6, <1>7, <1>8

\* A call of _Block_byref_copy goes on.
LEMMA ByrefCopyGoesOn ==
  ASSUME CoreInv, NEW t \in Thread, ~Idle(t), StepKept(t), NEW P, P = Top(t), P = Top(t)',
         NEW f, f = FrameAt(P), NEW g, FrameAt(P)' = g,
         \A p \in LiveFrames : p # P => FrameAt(p)' = FrameAt(p),
         f.fn = "byrefCopy", g.fn = "byrefCopy", g.arg = f.arg, g.dest = f.dest,
         var' = var, busy' = busy, scope' = scope,
         \A a \in Heap : mem[a].kind = "block" => mem'[a] = mem[a],
         g.pc \in {"publish", "payload"} =>
           /\ f.arg \in Byref
           /\ IsByref(g.copy)' /\ mem'[g.copy].of = f.arg
           /\ mem'[f.arg].forwarding = IF g.pc = "publish" THEN f.arg ELSE g.copy,
         g.pc \in {"increment", "return"} => mem'[f.arg].forwarding \in Heap
  PROVE  FrameInv(P)'
<1>1. P \in LiveFrames /\ P[1] = t
  BY Zenon, TopFrame DEF CoreInv
<1>2. ByrefCopyInv(P)
  BY <1>1 DEF CoreInv, CallsInv, FrameInv
<1>3. PICK q : q = <<P[1], P[2] - 1>>
  BY Zenon
<1>4. ~IsVar(f.dest) /\ AssignKind(Awaited(f.dest).flags) = "byref" /\ DestInv(P)
  BY <1>2 DEF ByrefCopyInv
<1>5. /\ q \in LiveFrames /\ P[2] > 1
      /\ FrameAt(q).fn = "copyHelper" /\ FrameAt(q).i > 1
      /\ f.dest = ToField(FrameAt(q).result, FrameAt(q).i - 1)
      /\ f.dest.block = FrameAt(q).result
  BY <1>1, <1>3, <1>4, DestCaller DEF CoreInv
<1>6. q # P
  BY <1>1, <1>3, LiveShape DEF CoreInv
<1>7. FrameAt(q)' = FrameAt(q)
  BY <1>5, <1>6
<1>8. DestInv(P)'
  <2>1. FrameAt(<<P[1], P[2] - 1>>)' = FrameAt(q)
    BY <1>3, <1>7
  <2> QED BY <1>4, <1>5, <2>1 DEF DestInv
<1>9. Awaited(f.dest)' = Awaited(f.dest)
  <2>1. IsBlock(f.dest.block)
    BY <1>5, Draft DEF CoreInv, Builds
  <2> QED BY <2>1 DEF Awaited, IsBlock
<1>10. ASSUME NEW a, IsByref(a), Borrowed(t, a)
       PROVE  IsByref(a)' /\ Borrowed(t, a)' /\ mem'[a].of = mem[a].of
  <2>1. CellKept(a)
    BY <1>10, BorrowedIsOwned DEF CoreInv, StepKept, MemKept, IsByref
  <2>2. Borrowed(t, a)'
    <3>1. PICK v \in busy[t] : \/ var[v] = a
                               \/ /\ IsBlock(var[v])
                                  /\ \E i \in DOMAIN mem[var[v]].fields :
                                       mem[var[v]].fields[i] = a /\ KindOf(<<var[v], i>>) \in {"block", "byref"}
      BY Zenon, <1>10 DEF Borrowed
    <3>2. CASE var[v] = a
      BY <3>1, <3>2 DEF Borrowed
    <3>3. CASE IsBlock(var[v]) /\ \E i \in DOMAIN mem[var[v]].fields :
                                       mem[var[v]].fields[i] = a /\ KindOf(<<var[v], i>>) \in {"block", "byref"}
      <4>1. mem'[var[v]] = mem[var[v]] /\ var'[v] = var[v]
        BY <3>3 DEF IsBlock
      <4>2. PICK i \in DOMAIN mem[var[v]].fields :
                 mem[var[v]].fields[i] = a /\ KindOf(<<var[v], i>>) \in {"block", "byref"}
        BY <3>3
      <4>3. IsBlock(var[v])'
        BY <3>3, <4>1 DEF IsBlock
      <4>4. KindOf(<<var[v], i>>)' \in {"block", "byref"}
        BY <4>1, <4>2 DEF KindOf, FlagsOf
      <4> QED BY Zenon, <3>1, <4>1, <4>2, <4>3, <4>4 DEF Borrowed
    <3> QED BY <3>1, <3>2, <3>3
  <2> QED BY <1>10, <2>1, <2>2 DEF CellKept, IsByref
<1>11. /\ \/ f.arg \in Byref /\ t = Main /\ scope = "open"
          \/ IsByref(f.arg)' /\ Borrowed(t, f.arg)'
       /\ mem'[f.arg].of = Awaited(f.dest).of
  <2>1. mem[f.arg].of = Awaited(f.dest).of
    BY <1>2 DEF ByrefCopyInv
  <2>2. CASE f.arg \in Byref /\ t = Main /\ scope = "open"
    BY <2>1, <2>2 DEF StepKept, MemKept
  <2>3. CASE IsByref(f.arg) /\ Borrowed(t, f.arg)
    BY <1>10, <2>1, <2>3
  <2> QED BY <1>1, <1>2, <2>2, <2>3 DEF ByrefCopyInv
<1>12. ByrefCopyInv(P)'
  BY <1>1, <1>4, <1>8, <1>9, <1>11 DEF ByrefCopyInv
<1> QED BY <1>12 DEF FrameInv, CopyInv, CopyHelperInv, ReleaseInv

LEMMA ByrefCopyAgainStep ==
  ASSUME IInv, NEW t \in Thread, ByrefCopyAgain(t)
  PROVE  IInv' /\ StepKept(t) /\ NothingMoves(t)
<1>1. PICK f, P, b : f = Head(stack[t]) /\ P = Top(t) /\ b = f.arg
  BY Zenon
<1>2. f.fn = "byrefCopy" /\ f.pc = "check" /\ ~Idle(t) /\ mem[mem[b].forwarding].count # 0
  BY <1>1 DEF ByrefCopyAgain, InAt, In, Idle
<1>3. /\ ByrefCopyInv(P) /\ FrameAt(P) = f /\ P[1] = t /\ f \in Frame /\ P \in LiveFrames
      /\ CoreInv /\ FieldsInv /\ RetainsInv
  BY <1>1, <1>2, Running DEF IInv, FrameInv
<1>4. mem[b].forwarding \in Heap /\ mem[mem[b].forwarding].where = "heap"
  <2>1. CASE b \in Byref /\ scope = "open"
    <3>1. mem[b] = ByrefCell("stack", 0, mem[b].forwarding, b, mem[b].val)
      BY <1>3, <2>1 DEF CoreInv, StackInv
    <3>2. mem[b].count = 0
      BY <3>1 DEF ByrefCell
    <3>3. mem[b].forwarding # b
      BY <1>2, <3>2
    <3>4. IsByref(mem[b].forwarding)
      BY Zenon, <1>3, <2>1, <3>3 DEF CoreInv, StackInv
    <3> QED BY <1>3, <3>4, HeapCellWhere
  <2>2. CASE IsByref(b)
    <3>1. mem[b].forwarding = b
      BY <1>3, <2>2 DEF CoreInv, HeapInv, IsByref
    <3> QED BY <1>3, <2>2, <3>1, HeapCellWhere
  <2> QED BY <1>1, <1>2, <1>3, <2>1, <2>2 DEF ByrefCopyInv
<1>5. PICK g : g = [f EXCEPT !.pc = "increment"]
  BY Zenon
<1>6. /\ g \in Frame /\ g.fn = "byrefCopy" /\ g.arg = b /\ g.dest = f.dest /\ g.pc = "increment"
      /\ g.copy = f.copy
  BY <1>1, <1>2, <1>3, <1>5 DEF Frame
<1>7. Continue(t, <<g>>) /\ UNCHANGED <<mem, var, busy, scope, retains, written>>
  BY <1>1, <1>4, <1>5 DEF ByrefCopyAgain
<1>8. PICK c : c = NULL
  OBVIOUS
<1>9. /\ StepKept(t) /\ Changed(t) = {P}
      /\ LiveFrames' = LiveFrames /\ FrameAt(P)' = g
      /\ \A p \in LiveFrames : p # P => FrameAt(p)' = FrameAt(p)
      /\ P = Top(t)'
      /\ StackInv' /\ ProgramInv'
  <2>1. mem' = [a \in Addr |-> mem'[a]] /\ retains' = [o \in Object |-> retains'[o]]
    BY <1>3, <1>7 DEF CoreInv, StackInv, ProgramInv
  <2>2. c \notin Heap
    BY <1>8, Apart
  <2> QED BY <1>1, <1>2, <1>3, <1>6, <1>7, <1>8, <2>1, <2>2, GoesOn
<1>10. HeapInv'
  BY <1>3, <1>7 DEF CoreInv, HeapInv
<1>11. CallsInv'
  <2>1. FrameInv(P)'
    BY Zenon, <1>1, <1>2, <1>3, <1>4, <1>6, <1>7, <1>9, ByrefCopyGoesOn
  <2>2. \A a \in Heap : ~Builds(f, a) /\ ~Disposes(f, a) /\ ~Disposes(g, a)
    BY <1>2, <1>6 DEF Builds, Disposes
  <2> QED BY Zenon, <1>1, <1>2, <1>3, <1>7, <1>8, <1>9, <2>1, <2>2, Apart, GoesOnCalls
<1>12. /\ FieldsInv' /\ RetainsInv'
       /\ \A a \in Heap : VarOwners(a)' = VarOwners(a) /\ FieldOwners(a)' = FieldOwners(a)
  BY <1>2, <1>3, <1>6, <1>7, <1>9, ByrefFieldsSame
<1>13. OwnersInv'
  <2>1. ASSUME NEW a \in Heap
        PROVE  /\ Grows(FrameOwners(a), FrameOwners(a)', 0) /\ Grows(StackOwners(a), StackOwners(a)', 0)
               /\ Held(a)' = Held(a) + 0 + 0
    <3>1. ~FrameOwns(FrameAt(P), a) /\ ~FrameOwns(FrameAt(P), a)'
      BY <1>2, <1>3, <1>6, <1>9 DEF FrameOwns
    <3>2. Grows(FrameOwners(a), FrameOwners(a)', 0)
      BY Zenon, <1>1, <1>3, <1>9, <3>1, GoesOnOwners
    <3>3. StackOwners(a)' = StackOwners(a)
      <4>1. ~(f.fn = "byrefCopy" /\ f.pc = "publish") /\ ~(g.fn = "byrefCopy" /\ g.pc = "publish")
        BY <1>2, <1>6
      <4>2. \A p \in LiveFrames' : p \notin LiveFrames \/ p = Top(t) => FrameAt(p)' = g
        BY <1>1, <1>9
      <4> QED BY Zenon, <1>1, <1>3, <1>7, <1>9, <4>1, <4>2, StackOwnersKept
    <3>4. Held(a)' = Held(a) /\ Held(a) \in Nat
      BY <1>3, <1>7 DEF Held, CoreInv, HeapInv, HeapBlock, HeapByref, FreeCell
    <3>5. Grows(StackOwners(a), StackOwners(a)', 0)
      BY <3>3 DEF Grows
    <3> QED BY <3>2, <3>4, <3>5
  <2> QED BY <1>3, <1>12, <2>1, CallsSettle DEF Settles
<1>14. NothingMoves(t)
  <2>1. ~Moves(f) /\ ~Moves(g)
    BY <1>2, <1>6 DEF Moves
  <2>2. c \notin Heap /\ P = Top(t) /\ f = FrameAt(P) /\ written' = written
    BY <1>1, <1>3, <1>7, <1>8, Apart
  <2>3. /\ \A x \in Byref \cup {GlobalBlock} : mem'[x] = mem[x]
        /\ \A a \in Heap : a # c => mem'[a] = mem[a]
    BY <1>7
  <2> QED BY Zenon, <1>9, <2>1, <2>2, <2>3, Still
<1> QED BY <1>9, <1>10, <1>11, <1>12, <1>13, <1>14 DEF IInv, CoreInv

LEMMA MallocFree ==
  ASSUME HeapFree # {}
  PROVE  Malloc \in HeapFree /\ Malloc \in Heap /\ mem[Malloc].kind = "free"
<1>1. HeapFree \subseteq Nat
  BY DEF HeapFree, Heap
<1>2. PICK a \in HeapFree : \A b \in HeapFree : ~(<<b, a>> \in OpToRel(<, Nat))
  BY Zenon, <1>1, NatLessThanWellFounded, WFMin
<1>3. \A b \in HeapFree : a <= b
  <2>1. \A b \in HeapFree : b \in Nat /\ a \in Nat
    BY <1>1
  <2>2. \A b \in HeapFree : ~(b < a)
    BY Zenon, <1>2, <2>1, Zenon DEF OpToRel
  <2> QED BY <2>1, <2>2
<1>4. Malloc \in HeapFree
  BY <1>3 DEF Malloc
<1> QED BY <1>4 DEF HeapFree

\* the heap copy that _Block_byref_copy finds behind "forwarding"
LEMMA ByrefTarget ==
  ASSUME CoreInv, NEW t \in Thread, ~Idle(t), NEW P, P = Top(t), NEW f, f = FrameAt(P),
         f.fn = "byrefCopy", NEW b, b = f.arg, NEW c, c = mem[b].forwarding
  PROVE  /\ b \in Byref \/ IsByref(b)
         /\ b \in Byref => scope = "open" /\ t = Main /\ mem[b].count = 0 /\ mem[b].of = b
                             /\ mem[b].val \in Value /\ c \in Heap \cup {b}
         /\ b \notin Byref => c = b
         /\ c # b \/ b \notin Byref =>
              /\ IsByref(c) /\ mem[c].of = mem[b].of /\ ~mem[c].dying /\ mem[c].count >= 1
              /\ \A p \in LiveFrames : ~Builds(FrameAt(p), c)
<1>1. ByrefCopyInv(P) /\ P[1] = t
  BY TopFrame DEF CoreInv, CallsInv, FrameInv
<1>2. CASE b \in Byref /\ scope = "open" /\ t = Main
  <2>1. PICK x : mem[b] = ByrefCell("stack", 0, c, b, x) /\ x \in Value
    BY Zenon, <1>2 DEF CoreInv, StackInv
  <2>2. mem[b].count = 0 /\ mem[b].of = b /\ mem[b].val \in Value /\ c \in Heap \cup {b}
    BY SMTT(20), <1>2, <2>1 DEF ByrefCell, CoreInv, StackInv
  <2>3. ASSUME c # b
        PROVE  /\ IsByref(c) /\ mem[c].of = mem[b].of /\ ~mem[c].dying /\ mem[c].count >= 1
               /\ \A p \in LiveFrames : ~Builds(FrameAt(p), c)
    <3>1. IsByref(c) /\ mem[c].of = mem[b].of
      BY Zenon, <1>2, <2>2, <2>3 DEF CoreInv, StackInv
    <3>2. StackOwners(c) # {}
      BY <1>2 DEF StackOwners, StackOwns
    <3>3. ~mem[c].dying /\ mem[c].count >= 1
      BY <3>1, <3>2, Owned DEF CoreInv, IsByref
    <3>4. \A p \in LiveFrames : ~Builds(FrameAt(p), c)
      BY <3>1, Draft DEF CoreInv, IsBlock, IsByref
    <3> QED BY <3>1, <3>3, <3>4
  <2> QED BY <1>2, <2>2, <2>3
<1>3. CASE IsByref(b) /\ Borrowed(t, b)
  <2>1. c = b /\ b \notin Byref
    BY <1>3, Apart DEF CoreInv, HeapInv, IsByref
  <2>2. ~mem[c].dying /\ mem[c].count >= 1
    BY <1>3, <2>1, BorrowedIsOwned DEF CoreInv, IsByref
  <2>3. \A p \in LiveFrames : ~Builds(FrameAt(p), c)
    BY <1>3, <2>1, Draft DEF CoreInv, IsBlock, IsByref
  <2> QED BY <1>3, <2>1, <2>2, <2>3
<1> QED BY <1>1, <1>2, <1>3 DEF ByrefCopyInv

\* A call about a __block variable goes on: what is left to show for a step that
\* leaves each heap cell but c alone.
LEMMA ByrefGoesOn ==
  ASSUME IInv, NEW t \in Thread, ~Idle(t), NEW P, P = Top(t), NEW f, f = FrameAt(P),
         NEW g, NEW c \in Heap \cup {NULL},
         StepKept(t), Changed(t) = {P}, P \in LiveFrames, LiveFrames' = LiveFrames, FrameAt(P)' = g,
         \A p \in LiveFrames : p # P => FrameAt(p)' = FrameAt(p),
         \A a \in Heap : a # c => mem'[a] = mem[a],
         StackInv', ProgramInv', retains' = retains, var' = var,
         f.fn = g.fn, f.fn \in {"byrefCopy", "byrefRelease"}, f.fn = "byrefCopy" => g.dest = f.dest,
         f.fn = "byrefRelease" => f.pc # "free",
         FrameInv(P)',
         c \in Heap =>
           /\ mem[c].kind # "block" /\ mem'[c] \in HeapByref /\ mem'[c].forwarding = c
           /\ mem'[c].dying <=> mem'[c].count = 0
           /\ mem'[c].dying => Disposes(g, c)
           /\ ~mem[c].dying \/ mem[c].kind = "free",
         \A a \in Heap : Disposes(g, a) => a = c /\ mem[c].kind # "free",
         \A a \in Heap : Settles(a)
  PROVE  IInv'
<1>1. CoreInv /\ FieldsInv /\ RetainsInv
  BY DEF IInv
<1>2. \A x \in HeapByref : x.kind = "byref"
  BY DEF HeapByref
<1>3. HeapInv'
  BY <1>1, <1>2, HeapStep DEF CoreInv
<1>4. CallsInv'
  <2>1. \A a \in Heap : ~Builds(f, a) /\ ~Disposes(f, a)
    BY DEF Builds, Disposes
  <2> QED BY <1>1, <1>2, <2>1, GoesOnCalls
<1>5. \A a \in Heap : mem'[a].kind = "block" \/ mem[a].kind = "block" => mem'[a] = mem[a]
  BY <1>2
<1>6. /\ FieldsInv' /\ RetainsInv'
      /\ \A a \in Heap : VarOwners(a)' = VarOwners(a) /\ FieldOwners(a)' = FieldOwners(a)
  BY <1>1, <1>5, ByrefFieldsSame
<1>7. OwnersInv'
  BY <1>1, <1>6, CallsSettle
<1> QED BY <1>3, <1>4, <1>6, <1>7 DEF IInv, CoreInv

LEMMA ByrefIncrementStep ==
  ASSUME IInv, NEW t \in Thread, ByrefIncrement(t)
  PROVE  IInv' /\ StepKept(t) /\ NothingMoves(t)
<1>1. PICK f, P, b : f = Head(stack[t]) /\ P = Top(t) /\ b = f.arg
  OBVIOUS
<1>2. f.fn = "byrefCopy" /\ f.pc = "increment" /\ ~Idle(t)
  BY Zenon, <1>1 DEF ByrefIncrement, InAt, In, Idle
<1>3. /\ FrameAt(P) = f /\ P[1] = t /\ f \in Frame /\ P \in LiveFrames /\ CoreInv /\ ByrefCopyInv(P)
  BY <1>1, <1>2, Running DEF IInv, FrameInv
<1>4. PICK c : c = mem[b].forwarding
  OBVIOUS
<1>5. c \in Heap
  BY <1>1, <1>2, <1>3, <1>4 DEF ByrefCopyInv
<1>6. /\ IsByref(c) /\ ~mem[c].dying /\ mem[c].count >= 1 /\ \A p \in LiveFrames : ~Builds(FrameAt(p), c)
      /\ b \in Byref \/ b = c
  BY <1>1, <1>2, <1>3, <1>4, <1>5, ByrefTarget, Apart
<1>7. PICK g : g = [f EXCEPT !.pc = "return"]
  BY Zenon
<1>8. /\ g \in Frame /\ g.fn = "byrefCopy" /\ g.arg = b /\ g.dest = f.dest /\ g.pc = "return"
      /\ g.copy = f.copy
  BY <1>1, <1>2, <1>3, <1>7 DEF Frame
<1>9. Continue(t, <<g>>) /\ UNCHANGED <<var, busy, scope, retains, written>>
  BY Zenon, <1>1, <1>7 DEF ByrefIncrement
<1>10. /\ mem' = [a \in Addr |-> mem'[a]]
       /\ \A a \in Addr : a # c => mem'[a] = mem[a]
       /\ mem'[c] = [mem[c] EXCEPT !.count = @ + 1]
  <2>1. mem' = [mem EXCEPT ![c].count = @ + 1]
    BY Zenon, <1>1, <1>4 DEF ByrefIncrement
  <2>2. c \in Addr /\ mem = [a \in Addr |-> mem[a]]
    BY <1>3, <1>5 DEF Addr, CoreInv, StackInv
  <2> QED BY <2>1, <2>2
<1>11. /\ mem'[c] \in HeapByref /\ mem'[c].forwarding = mem[c].forwarding /\ mem[c].forwarding = c
       /\ mem'[c].of = mem[c].of /\ mem'[c].kind = "byref" /\ mem'[c].dying = FALSE
       /\ mem'[c].count = mem[c].count + 1 /\ mem[c].count \in Nat
  BY <1>3, <1>6, <1>10 DEF CoreInv, HeapInv, HeapByref, HeapBlock, FreeCell, IsByref
<1>12. CellKept(c)
  BY <1>6, <1>11 DEF CellKept, IsByref
<1>13. /\ StepKept(t) /\ Changed(t) = {P}
       /\ LiveFrames' = LiveFrames /\ FrameAt(P)' = g
       /\ \A p \in LiveFrames : p # P => FrameAt(p)' = FrameAt(p)
       /\ \A a \in Heap : a # c => mem'[a] = mem[a]
       /\ \A x \in Byref \cup {GlobalBlock} : mem'[x] = mem[x]
       /\ P = Top(t)'
       /\ StackInv' /\ ProgramInv'
  <2>1. retains' = [o \in Object |-> retains'[o]]
    BY <1>3, <1>9 DEF CoreInv, ProgramInv
  <2> QED BY <1>1, <1>2, <1>3, <1>5, <1>6, <1>8, <1>9, <1>10, <1>12, <2>1, GoesOn
<1>14. mem'[b].forwarding = c
  BY <1>4, <1>6, <1>11, <1>13
<1>15. FrameInv(P)'
  BY ZenonT(30), <1>1, <1>2, <1>3, <1>5, <1>6, <1>8, <1>9, <1>13, <1>14, ByrefCopyGoesOn DEF IsByref
<1>16. ASSUME NEW a \in Heap PROVE Settles(a)
  <2>1. ~FrameOwns(FrameAt(P), a) /\ (FrameOwns(FrameAt(P), a)' <=> a = c)
    BY <1>2, <1>3, <1>8, <1>13, <1>14 DEF FrameOwns
  <2>2. PICK p : p = IF a = c THEN 1 ELSE 0
    OBVIOUS
  <2>3. Grows(FrameOwners(a), FrameOwners(a)', p)
    BY Zenon, <1>1, <1>3, <1>13, <2>1, <2>2, GoesOnOwners
  <2>4. StackOwners(a)' = StackOwners(a)
    <3>1. \A x \in LiveFrames' : x \notin LiveFrames \/ x = Top(t) => FrameAt(x)' = g
      BY <1>1, <1>13
    <3> QED BY Zenon, <1>1, <1>2, <1>3, <1>8, <1>13, <3>1, StackOwnersKept
  <2>5. Grows(StackOwners(a), StackOwners(a)', 0)
    BY <2>4 DEF Grows
  <2>6. Held(a)' = Held(a) + p + 0
    <3>1. Held(a) \in Nat
      BY <1>3 DEF Held, CoreInv, HeapInv, HeapBlock, HeapByref, FreeCell
    <3> QED BY <1>6, <1>11, <1>13, <2>2, <3>1 DEF Held, IsByref
  <2> QED BY <2>3, <2>5, <2>6 DEF Settles
<1>17. \A a \in Heap : ~Disposes(g, a)
  BY <1>8 DEF Disposes
<1>18. /\ mem[c].kind # "block" /\ mem'[c] \in HeapByref /\ mem'[c].forwarding = c
       /\ mem'[c].dying <=> mem'[c].count = 0
       /\ mem'[c].dying => Disposes(g, c)
       /\ ~mem[c].dying
  BY <1>6, <1>11 DEF IsByref
<1>19. f = FrameAt(P) /\ f.fn = g.fn /\ f.fn \in {"byrefCopy", "byrefRelease"} /\ (f.fn = "byrefCopy" => g.dest = f.dest)
         /\ (f.fn = "byrefRelease" => f.pc # "free") /\ c \in Heap \cup {NULL} /\ retains' = retains /\ var' = var
  BY <1>2, <1>3, <1>5, <1>8, <1>9
<1>20. P = Top(t) /\ ~Idle(t) /\ P \in LiveFrames
  BY <1>1, <1>2, <1>3
<1>21. NothingMoves(t)
  <2>1. ~Moves(f) /\ ~Moves(g) /\ written' = written
    BY <1>2, <1>8, <1>9 DEF Moves
  <2>2. mem'[c].val = mem[c].val /\ mem[c].kind = "byref"
    BY <1>3, <1>6, <1>10 DEF CoreInv, HeapInv, HeapByref, HeapBlock, FreeCell, IsByref
  <2>3. CASE b \in Byref
    <3>1. t = Main
      BY <1>1, <1>2, <1>3, <1>20, <2>3, ByrefTarget
    <3> QED BY <1>3, <1>6, <1>11, <1>13, <1>20, <2>1, <2>2, <3>1, Still DEF Recounted
  <2>4. CASE b \notin Byref
    <3>1. Borrowed(t, c)
      BY <1>1, <1>2, <1>3, <1>6, <2>4 DEF ByrefCopyInv
    <3>2. VarOwners(c) # {} \/ FieldOwners(c) # {}
      BY <1>3, <1>5, <3>1, BorrowedIsOwned DEF CoreInv
    <3> QED BY <1>3, <1>6, <1>11, <1>13, <1>20, <2>1, <2>2, <3>2, Still DEF Recounted
  <2> QED BY <2>3, <2>4
<1>22. IInv'
  BY <1>13, <1>15, <1>16, <1>17, <1>18, <1>19, <1>20, ByrefGoesOn
<1> QED BY <1>13, <1>21, <1>22

LEMMA ByrefPayloadStep ==
  ASSUME IInv, NEW t \in Thread, ByrefPayload(t)
  PROVE  /\ IInv' /\ StepKept(t)
         /\ \E P, b, c :
              /\ MoveGoesOn(t, P, b, c, "return") /\ FrameAt(P).pc = "payload" /\ FrameAt(P).copy = c
              /\ mem'[b] = mem[b]
              /\ mem'[c].kind = "byref" /\ mem'[c].of = mem[c].of /\ mem'[c].dying = mem[c].dying
              /\ mem'[c].val = mem[b].val
<1>1. PICK f, P, b : f = Head(stack[t]) /\ P = Top(t) /\ b = f.arg
  OBVIOUS
<1>2. f.fn = "byrefCopy" /\ f.pc = "payload" /\ ~Idle(t)
  BY <1>1 DEF ByrefPayload, InAt, In, Idle
<1>3. /\ FrameAt(P) = f /\ P[1] = t /\ f \in Frame /\ P \in LiveFrames /\ CoreInv /\ ByrefCopyInv(P)
  BY <1>1, <1>2, Running DEF IInv, FrameInv
<1>4. PICK c : c = f.copy
  OBVIOUS
<1>5. b \in Byref /\ IsByref(c) /\ mem[c].of = b /\ mem[b].forwarding = c /\ c \in Heap
  BY <1>1, <1>2, <1>3, <1>4 DEF ByrefCopyInv, IsByref
<1>6. ~mem[c].dying /\ \A p \in LiveFrames : ~Builds(FrameAt(p), c)
  <2>1. FrameOwners(c) # {}
    BY <1>2, <1>3, <1>4 DEF FrameOwners, FrameOwns
  <2> QED BY <1>3, <1>5, <2>1, Owned, Draft DEF CoreInv, IsBlock, IsByref
<1>7. PICK g : g = [f EXCEPT !.pc = "return"]
  BY Zenon
<1>8. /\ g \in Frame /\ g.fn = "byrefCopy" /\ g.arg = b /\ g.dest = f.dest /\ g.pc = "return"
      /\ g.copy = f.copy
  BY <1>1, <1>2, <1>3, <1>7 DEF Frame
<1>9. Continue(t, <<g>>) /\ UNCHANGED <<var, busy, scope, retains, written>>
  BY <1>1, <1>7 DEF ByrefPayload
<1>10. PICK x : x = mem[b].val
  OBVIOUS
<1>11. x \in Value
  BY <1>1, <1>2, <1>3, <1>5, <1>10, ByrefTarget
<1>12. /\ mem' = [a \in Addr |-> mem'[a]]
       /\ \A a \in Addr : a # c => mem'[a] = mem[a]
       /\ mem'[c] = [mem[c] EXCEPT !.val = x]
  <2>1. mem' = [mem EXCEPT ![c].val = x]
    BY <1>1, <1>4, <1>10 DEF ByrefPayload
  <2>2. c \in Addr /\ mem = [a \in Addr |-> mem[a]]
    BY <1>3, <1>5 DEF Addr, CoreInv, StackInv
  <2> QED BY <2>1, <2>2
<1>13. /\ mem'[c] \in HeapByref /\ mem'[c].forwarding = mem[c].forwarding /\ mem[c].forwarding = c
       /\ mem'[c].of = mem[c].of /\ mem'[c].kind = "byref" /\ mem'[c].dying = mem[c].dying
       /\ mem'[c].count = mem[c].count /\ mem[c].count \in Nat /\ mem[c].count # 0
  BY <1>3, <1>5, <1>6, <1>11, <1>12 DEF CoreInv, HeapInv, HeapByref, HeapBlock, FreeCell, IsByref
<1>14. CellKept(c)
  BY <1>5, <1>13 DEF CellKept, IsByref
<1>15. /\ StepKept(t) /\ Changed(t) = {P}
       /\ LiveFrames' = LiveFrames /\ FrameAt(P)' = g
       /\ \A p \in LiveFrames : p # P => FrameAt(p)' = FrameAt(p)
       /\ \A a \in Heap : a # c => mem'[a] = mem[a]
       /\ \A y \in Byref \cup {GlobalBlock} : mem'[y] = mem[y]
       /\ P = Top(t)'
       /\ StackInv' /\ ProgramInv'
  <2>1. retains' = [o \in Object |-> retains'[o]]
    BY <1>3, <1>9 DEF CoreInv, ProgramInv
  <2> QED BY <1>1, <1>2, <1>3, <1>5, <1>6, <1>8, <1>9, <1>12, <1>14, <2>1, GoesOn
<1>16. mem'[b].forwarding = c
  BY <1>5, <1>15
<1>17. FrameInv(P)'
  BY ZenonT(30), <1>1, <1>2, <1>3, <1>5, <1>8, <1>9, <1>15, <1>16, ByrefCopyGoesOn DEF IsByref
<1>18. ASSUME NEW a \in Heap PROVE Settles(a)
  <2>1. (FrameOwns(FrameAt(P), a) <=> a = c) /\ (FrameOwns(FrameAt(P), a)' <=> a = c)
    BY <1>2, <1>3, <1>4, <1>8, <1>15, <1>16 DEF FrameOwns
  <2>2. Grows(FrameOwners(a), FrameOwners(a)', 0)
    BY Zenon, <1>1, <1>3, <1>15, <2>1, GoesOnOwners
  <2>3. StackOwners(a)' = StackOwners(a)
    <3>1. \A y \in LiveFrames' : y \notin LiveFrames \/ y = Top(t) => FrameAt(y)' = g
      BY <1>1, <1>15
    <3> QED BY Zenon, <1>1, <1>2, <1>3, <1>8, <1>15, <3>1, StackOwnersKept
  <2>4. Grows(StackOwners(a), StackOwners(a)', 0)
    BY <2>3 DEF Grows
  <2>5. Held(a)' = Held(a) + 0 + 0
    <3>1. Held(a) \in Nat
      BY <1>3 DEF Held, CoreInv, HeapInv, HeapBlock, HeapByref, FreeCell
    <3> QED BY <1>5, <1>13, <1>15, <3>1 DEF Held, IsByref
  <2> QED BY <2>2, <2>4, <2>5 DEF Settles
<1>19. \A a \in Heap : ~Disposes(g, a)
  BY <1>8 DEF Disposes
<1>20. /\ mem[c].kind # "block" /\ mem'[c] \in HeapByref /\ mem'[c].forwarding = c
       /\ mem'[c].dying <=> mem'[c].count = 0
       /\ mem'[c].dying => Disposes(g, c)
       /\ ~mem[c].dying
  BY <1>5, <1>6, <1>13 DEF IsByref
<1>21. f = FrameAt(P) /\ f.fn = g.fn /\ f.fn \in {"byrefCopy", "byrefRelease"} /\ (f.fn = "byrefCopy" => g.dest = f.dest)
         /\ (f.fn = "byrefRelease" => f.pc # "free") /\ c \in Heap \cup {NULL} /\ retains' = retains /\ var' = var
  BY <1>2, <1>3, <1>5, <1>8, <1>9
<1>22. P = Top(t) /\ ~Idle(t) /\ P \in LiveFrames
  BY <1>1, <1>2, <1>3
<1>23. IInv'
  BY <1>15, <1>17, <1>18, <1>19, <1>20, <1>21, <1>22, ByrefGoesOn
<1>24. scope = "open" /\ t = Main
  <2>1. ~IsByref(b)
    BY <1>5, Apart DEF IsByref
  <2> QED BY <1>1, <1>2, <1>3, <2>1 DEF ByrefCopyInv
<1>25. MoveGoesOn(t, P, b, c, "return")
  BY <1>1, <1>2, <1>3, <1>4, <1>5, <1>8, <1>9, <1>15, <1>24 DEF MoveGoesOn
<1>26. mem'[b] = mem[b] /\ mem'[c].val = mem[b].val
  <2>1. mem[c] \in HeapByref
    BY <1>3, <1>5 DEF CoreInv, HeapInv, HeapBlock, FreeCell, IsByref
  <2> QED BY <1>5, <1>10, <1>12, <1>15, <2>1 DEF HeapByref
<1> QED BY <1>2, <1>3, <1>4, <1>13, <1>15, <1>23, <1>25, <1>26

LEMMA ByrefCopyFirstStep ==
  ASSUME IInv, NEW t \in Thread, ByrefCopyFirst(t)
  PROVE  /\ IInv' /\ StepKept(t)
         /\ \E P, b, c :
              /\ MoveGoesOn(t, P, b, c, "publish") /\ FrameAt(P).pc = "check"
              /\ mem[b].forwarding = b /\ mem'[b] = mem[b]
              /\ mem[c].kind = "free"
              /\ mem'[c].kind = "byref" /\ mem'[c].of = b /\ mem'[c].count = 2 /\ ~mem'[c].dying
<1>1. PICK f, P, b : f = Head(stack[t]) /\ P = Top(t) /\ b = f.arg
  OBVIOUS
<1>2. f.fn = "byrefCopy" /\ f.pc = "check" /\ ~Idle(t) /\ HeapFree # {}
  BY <1>1 DEF ByrefCopyFirst, InAt, In, Idle
<1>3. /\ FrameAt(P) = f /\ P[1] = t /\ f \in Frame /\ P \in LiveFrames /\ CoreInv /\ ByrefCopyInv(P)
  BY <1>1, <1>2, Running DEF IInv, FrameInv
<1>4. PICK c : c = Malloc
  OBVIOUS
<1>5. c \in Heap /\ mem[c].kind = "free"
  BY <1>2, <1>4, MallocFree
<1>6. b \in Byref /\ mem[b].forwarding = b /\ mem[b].of = b /\ c # b
  <2>1. PICK d : d = mem[b].forwarding
    OBVIOUS
  <2>2. mem[d].count = 0
    BY <1>1, <2>1 DEF ByrefCopyFirst
  <2>3. /\ b \in Byref => mem[b].of = b
        /\ b \notin Byref => d = b
        /\ d # b \/ b \notin Byref => mem[d].count >= 1
    BY <1>1, <1>2, <1>3, <2>1, ByrefTarget
  <2> QED BY <1>5, <2>1, <2>2, <2>3, Apart
<1>7. PICK g : g = [f EXCEPT !.pc = "publish", !.copy = c]
  OBVIOUS
<1>8. /\ g \in Frame /\ g.fn = "byrefCopy" /\ g.arg = b /\ g.dest = f.dest /\ g.pc = "publish"
      /\ g.copy = c
  BY Zenon, <1>1, <1>2, <1>3, <1>5, <1>7 DEF Frame
<1>9. Continue(t, <<g>>) /\ UNCHANGED <<var, busy, scope, retains, written>>
  BY <1>1, <1>4, <1>7 DEF ByrefCopyFirst
<1>10. /\ mem' = [a \in Addr |-> mem'[a]]
       /\ \A a \in Addr : a # c => mem'[a] = mem[a]
       /\ mem'[c] = ByrefCell("heap", 2, c, b, Garbage)
  <2>1. mem' = [mem EXCEPT ![c] = ByrefCell("heap", 2, c, b, Garbage)]
    BY <1>1, <1>4, <1>6 DEF ByrefCopyFirst
  <2>2. c \in Addr /\ mem = [a \in Addr |-> mem[a]]
    BY <1>3, <1>5 DEF Addr, CoreInv, StackInv
  <2> QED BY <2>1, <2>2
<1>11. /\ mem'[c] \in HeapByref /\ mem'[c].forwarding = c
       /\ mem'[c].of = b /\ mem'[c].kind = "byref" /\ mem'[c].dying = FALSE
       /\ mem'[c].count = 2
  BY <1>5, <1>6, <1>10 DEF HeapByref, ByrefCell
<1>12. /\ StepKept(t) /\ Changed(t) = {P}
       /\ LiveFrames' = LiveFrames /\ FrameAt(P)' = g
       /\ \A p \in LiveFrames : p # P => FrameAt(p)' = FrameAt(p)
       /\ \A a \in Heap : a # c => mem'[a] = mem[a]
       /\ \A y \in Byref \cup {GlobalBlock} : mem'[y] = mem[y]
       /\ P = Top(t)'
       /\ StackInv' /\ ProgramInv'
  <2>1. retains' = [o \in Object |-> retains'[o]]
    BY <1>3, <1>9 DEF CoreInv, ProgramInv
  <2> QED BY <1>1, <1>2, <1>3, <1>5, <1>8, <1>9, <1>10, <2>1, GoesOn
<1>13. mem'[b].forwarding = b
  BY <1>6, <1>12
<1>14. FrameInv(P)'
  <2>1. \A a \in Heap : mem[a].kind = "block" => mem'[a] = mem[a]
    BY <1>5, <1>12
  <2>2. /\ f.arg \in Byref
        /\ IsByref(g.copy)' /\ mem'[g.copy].of = f.arg
        /\ mem'[f.arg].forwarding = IF g.pc = "publish" THEN f.arg ELSE g.copy
        /\ g.pc \notin {"increment", "return"}
    BY <1>1, <1>5, <1>6, <1>8, <1>11, <1>13 DEF IsByref
  <2>3. f.fn = "byrefCopy" /\ g.fn = "byrefCopy" /\ g.arg = f.arg /\ g.dest = f.dest
    BY <1>1, <1>2, <1>8
  <2>4. f = FrameAt(P) /\ P = Top(t) /\ ~Idle(t) /\ CoreInv /\ var' = var /\ busy' = busy /\ scope' = scope
    BY <1>1, <1>2, <1>3, <1>9
  <2> QED BY Zenon, <1>12, <2>1, <2>2, <2>3, <2>4, ByrefCopyGoesOn
<1>15. ASSUME NEW a \in Heap PROVE Settles(a)
  <2>1. ~FrameOwns(FrameAt(P), a) /\ (FrameOwns(FrameAt(P), a)' <=> a = c)
    BY <1>2, <1>3, <1>8, <1>12 DEF FrameOwns
  <2>2. PICK p : p = IF a = c THEN 1 ELSE 0
    OBVIOUS
  <2>3. Grows(FrameOwners(a), FrameOwners(a)', p)
    BY Zenon, <1>1, <1>3, <1>12, <2>1, <2>2, GoesOnOwners
  <2>4. Grows(StackOwners(a), StackOwners(a)', p)
    <3>1. \A y \in Byref : StackOwns(y, a)' <=> StackOwns(y, a) \/ (y = b /\ a = c)
      <4>1. ASSUME NEW y \in Byref PROVE StackOwns(y, a)' <=> StackOwns(y, a) \/ (y = b /\ a = c)
        <5>1. scope' = scope /\ mem'[y].forwarding = mem[y].forwarding
          BY <1>9, <1>12
        <5>2. ASSUME NEW q \in LiveFrames, q # P PROVE FrameAt(q)' = FrameAt(q)
          BY <1>12, <5>2
        <5>3. FrameAt(P).pc # "publish" /\ FrameAt(P)' = g
          BY <1>2, <1>3, <1>12
        <5> QED BY <1>3, <1>8, <1>12, <5>1, <5>2, <5>3 DEF StackOwns
      <4> QED BY <4>1
    <3>2. a = c => StackOwners(a) = {}
      BY <1>3, <1>5, Unowned DEF CoreInv
    <3>3. StackOwners(a)' = StackOwners(a) \cup (IF a = c THEN {b} ELSE {})
      BY <1>6, <3>1 DEF StackOwners
    <3> QED BY <2>2, <3>2, <3>3 DEF Grows
  <2>5. Held(a)' = Held(a) + p + p
    <3>1. Held(a) \in Nat
      BY <1>3 DEF Held, CoreInv, HeapInv, HeapBlock, HeapByref, FreeCell
    <3> QED BY <1>5, <1>11, <1>12, <2>2, <3>1 DEF Held
  <2> QED BY <2>3, <2>4, <2>5 DEF Settles
<1>16. \A a \in Heap : ~Disposes(g, a)
  BY <1>8 DEF Disposes
<1>17. /\ mem[c].kind # "block" /\ mem'[c] \in HeapByref /\ mem'[c].forwarding = c
       /\ mem'[c].dying <=> mem'[c].count = 0
       /\ mem'[c].dying => Disposes(g, c)
       /\ mem[c].kind = "free"
  BY <1>5, <1>11
<1>18. f = FrameAt(P) /\ f.fn = g.fn /\ f.fn \in {"byrefCopy", "byrefRelease"} /\ (f.fn = "byrefCopy" => g.dest = f.dest)
         /\ (f.fn = "byrefRelease" => f.pc # "free") /\ c \in Heap \cup {NULL} /\ retains' = retains /\ var' = var
  BY <1>2, <1>3, <1>5, <1>8, <1>9
<1>19. P = Top(t) /\ ~Idle(t) /\ P \in LiveFrames
  BY <1>1, <1>2, <1>3
<1>20. IInv'
  BY <1>12, <1>14, <1>15, <1>16, <1>17, <1>18, <1>19, ByrefGoesOn
<1>21. scope = "open" /\ t = Main
  <2>1. ~IsByref(b)
    BY <1>6, Apart DEF IsByref
  <2> QED BY <1>1, <1>2, <1>3, <2>1 DEF ByrefCopyInv
<1>22. MoveGoesOn(t, P, b, c, "publish")
  BY <1>1, <1>2, <1>3, <1>5, <1>6, <1>8, <1>9, <1>12, <1>21 DEF MoveGoesOn
<1>23. mem'[b] = mem[b]
  BY <1>6, <1>12
<1> QED BY <1>2, <1>3, <1>5, <1>6, <1>11, <1>12, <1>20, <1>22, <1>23

LEMMA ByrefReleaseLastStep ==
  ASSUME IInv, NEW t \in Thread, ByrefReleaseLast(t)
  PROVE  IInv' /\ StepKept(t) /\ NothingMoves(t)
<1>1. PICK f, P, c : f = Head(stack[t]) /\ P = Top(t) /\ c = f.arg
  OBVIOUS
<1>2. f.fn = "byrefRelease" /\ f.pc = "decrement" /\ ~Idle(t) /\ mem[c].count = 1 /\ ~mem[c].dying
  BY <1>1 DEF ByrefReleaseLast, InAt, In, Idle
<1>3. /\ FrameAt(P) = f /\ P[1] = t /\ f \in Frame /\ P \in LiveFrames /\ CoreInv /\ ReleaseInv(P)
  BY <1>1, <1>2, Running DEF IInv, FrameInv
<1>4. IsByref(c) /\ c \in Heap
  BY <1>1, <1>2, <1>3 DEF ReleaseInv, IsByref
<1>5. PICK g : g = [f EXCEPT !.pc = "free"]
  BY Zenon
<1>6. g \in Frame /\ g.fn = "byrefRelease" /\ g.arg = c /\ g.pc = "free"
  BY <1>1, <1>2, <1>3, <1>5 DEF Frame
<1>7. Continue(t, <<g>>) /\ UNCHANGED <<var, busy, scope, retains, written>>
  BY <1>1, <1>5 DEF ByrefReleaseLast
<1>8. /\ mem' = [a \in Addr |-> mem'[a]]
      /\ \A a \in Addr : a # c => mem'[a] = mem[a]
      /\ mem'[c] = [mem[c] EXCEPT !.count = 0, !.dying = TRUE]
  <2>1. mem' = [mem EXCEPT ![c].count = 0, ![c].dying = TRUE]
    BY <1>1 DEF ByrefReleaseLast
  <2>2. c \in Addr /\ mem = [a \in Addr |-> mem[a]]
    BY <1>3, <1>4 DEF Addr, CoreInv, StackInv
  <2> QED BY <2>1, <2>2
<1>9. /\ mem'[c] \in HeapByref /\ mem'[c].forwarding = mem[c].forwarding /\ mem[c].forwarding = c
      /\ mem'[c].of = mem[c].of /\ mem'[c].kind = "byref" /\ mem'[c].dying = TRUE
      /\ mem'[c].count = 0
  <2>1. mem[c] \in HeapByref /\ mem[c].forwarding = c
    BY <1>3, <1>4 DEF CoreInv, HeapInv, HeapBlock, FreeCell, IsByref
  <2>2. PICK m : m = mem[c]
    OBVIOUS
  <2>3. /\ m = [kind |-> m.kind, where |-> m.where, count |-> m.count, dying |-> m.dying,
                forwarding |-> m.forwarding, of |-> m.of, val |-> m.val]
        /\ m.kind = "byref" /\ m.where = "heap" /\ m.forwarding \in Heap /\ m.of \in Byref
        /\ m.val \in Value \cup {Garbage}
    BY <2>1, <2>2 DEF HeapByref
  <2>4. mem'[c] = [kind |-> m.kind, where |-> m.where, count |-> 0, dying |-> TRUE,
                   forwarding |-> m.forwarding, of |-> m.of, val |-> m.val]
    BY Zenon, <1>8, <2>2, <2>3
  <2> QED BY <2>1, <2>2, <2>3, <2>4 DEF HeapByref
<1>10. CellKept(c)
  BY <1>4, <1>9 DEF CellKept, IsByref
<1>11. /\ StepKept(t) /\ Changed(t) = {P}
       /\ LiveFrames' = LiveFrames /\ FrameAt(P)' = g
       /\ \A p \in LiveFrames : p # P => FrameAt(p)' = FrameAt(p)
       /\ \A a \in Heap : a # c => mem'[a] = mem[a]
       /\ \A y \in Byref \cup {GlobalBlock} : mem'[y] = mem[y]
       /\ P = Top(t)'
       /\ StackInv' /\ ProgramInv'
  <2>1. retains' = [o \in Object |-> retains'[o]]
    BY <1>3, <1>7 DEF CoreInv, ProgramInv
  <2>2. \A p \in LiveFrames : ~Builds(FrameAt(p), c)
    BY <1>3, <1>4, Draft DEF CoreInv, IsBlock, IsByref
  <2> QED BY <1>1, <1>2, <1>3, <1>4, <1>6, <1>7, <1>8, <1>10, <2>1, <2>2, GoesOn
<1>12. FrameInv(P)'
  <2>1. ReleaseInv(P)'
    BY <1>4, <1>6, <1>9, <1>11 DEF ReleaseInv, IsByref
  <2> QED BY <1>6, <1>11, <2>1 DEF FrameInv, CopyInv, CopyHelperInv, ByrefCopyInv
<1>13. ASSUME NEW a \in Heap PROVE Settles(a)
  <2>1. (FrameOwns(FrameAt(P), a) <=> a = c) /\ ~FrameOwns(FrameAt(P), a)'
    BY <1>1, <1>2, <1>3, <1>6, <1>11 DEF FrameOwns
  <2>2. PICK p : p = IF a = c THEN -1 ELSE 0
    OBVIOUS
  <2>3. Grows(FrameOwners(a), FrameOwners(a)', p)
    BY Zenon, <1>1, <1>3, <1>11, <2>1, <2>2, GoesOnOwners
  <2>4. StackOwners(a)' = StackOwners(a)
    <3>1. \A y \in LiveFrames' : y \notin LiveFrames \/ y = Top(t) => FrameAt(y)' = g
      BY <1>1, <1>11
    <3> QED BY Zenon, <1>1, <1>2, <1>3, <1>6, <1>11, <3>1, StackOwnersKept
  <2>5. Grows(StackOwners(a), StackOwners(a)', 0)
    BY <2>4 DEF Grows
  <2>6. Held(a)' = Held(a) + p + 0
    <3>1. Held(a) \in Nat
      BY <1>3 DEF Held, CoreInv, HeapInv, HeapBlock, HeapByref, FreeCell
    <3> QED BY <1>2, <1>4, <1>9, <1>11, <2>2, <3>1 DEF Held, IsByref
  <2> QED BY <2>3, <2>5, <2>6 DEF Settles
<1>14. \A a \in Heap : Disposes(g, a) => a = c /\ mem[c].kind # "free"
  BY <1>4, <1>6 DEF Disposes, IsByref
<1>15. /\ mem[c].kind # "block" /\ mem'[c] \in HeapByref /\ mem'[c].forwarding = c
       /\ mem'[c].dying <=> mem'[c].count = 0
       /\ mem'[c].dying => Disposes(g, c)
       /\ ~mem[c].dying
  BY <1>2, <1>4, <1>6, <1>9 DEF IsByref, Disposes
<1>16. f = FrameAt(P) /\ f.fn = g.fn /\ f.fn \in {"byrefCopy", "byrefRelease"} /\ (f.fn = "byrefCopy" => g.dest = f.dest)
         /\ (f.fn = "byrefRelease" => f.pc # "free") /\ c \in Heap \cup {NULL} /\ retains' = retains /\ var' = var
  BY <1>2, <1>3, <1>4, <1>6, <1>7
<1>17. P = Top(t) /\ ~Idle(t) /\ P \in LiveFrames
  BY <1>1, <1>2, <1>3
<1>18. NothingMoves(t)
  <2>1. ~Moves(f) /\ ~Moves(g) /\ written' = written
    BY <1>2, <1>6, <1>7 DEF Moves
  <2>2. mem'[c].val = mem[c].val /\ mem[c].kind = "byref"
    BY <1>3, <1>4, <1>8 DEF CoreInv, HeapInv, HeapByref, HeapBlock, FreeCell, IsByref
  <2>3. FrameOwns(FrameAt(P), c)
    BY <1>1, <1>2, <1>3 DEF FrameOwns
  <2> QED BY <1>3, <1>9, <1>11, <1>17, <2>1, <2>2, <2>3, Still DEF Recounted
<1>19. IInv'
  BY <1>11, <1>12, <1>13, <1>14, <1>15, <1>16, <1>17, ByrefGoesOn
<1> QED BY <1>11, <1>18, <1>19

\* ... and one that did is followed to the heap.
LEMMA ByrefFollowed ==
  ASSUME IInv, NEW t \in Thread, ByrefReleaseLoad(t),
         NEW f, f = Head(stack[t]), mem[mem[f.arg].forwarding].where = "heap"
  PROVE  IInv' /\ StepKept(t) /\ NothingMoves(t)
<1>1. PICK P, d : P = Top(t) /\ d = mem[f.arg].forwarding
  OBVIOUS
<1>2. f.fn = "byrefRelease" /\ f.pc = "load" /\ ~Idle(t)
  BY <1>1 DEF ByrefReleaseLoad, InAt, In, Idle
<1>3. /\ FrameAt(P) = f /\ P[1] = t /\ f \in Frame /\ P \in LiveFrames /\ CoreInv /\ ReleaseInv(P)
  BY <1>1, <1>2, Running DEF IInv, FrameInv
<1>4. IsByref(d) /\ d \in Heap
  <2>1. CASE IsByref(f.arg)
    <3>1. mem[f.arg].forwarding = f.arg
      BY <1>3, <2>1 DEF CoreInv, HeapInv, IsByref
    <3> QED BY <1>1, <2>1, <3>1 DEF IsByref
  <2>2. CASE f.arg \in Byref /\ scope = "closing" /\ (mem[f.arg].forwarding = f.arg \/ IsByref(mem[f.arg].forwarding))
    <3>1. mem[f.arg].where # "heap"
      BY <1>3, <2>2, HeapCellWhere
    <3> QED BY <1>1, <2>2, <3>1 DEF IsByref
  <2> QED BY <1>2, <1>3, <2>1, <2>2 DEF ReleaseInv
<1>5. PICK g : g = ByrefReleaseFrame(d, "decrement")
  OBVIOUS
<1>6. g \in Frame /\ g.fn = "byrefRelease" /\ g.arg = d /\ g.pc = "decrement"
  BY <1>4, <1>5 DEF Frame, ByrefReleaseFrame, Addr
<1>7. Continue(t, <<g>>) /\ UNCHANGED <<mem, var, busy, scope, retains, written>>
  BY <1>1, <1>5 DEF ByrefReleaseLoad
<1>8. PICK c : c = NULL
  OBVIOUS
<1>9. c \notin Heap /\ c \in Heap \cup {NULL}
  BY <1>8, Apart
<1>10. /\ StepKept(t) /\ Changed(t) = {P}
       /\ LiveFrames' = LiveFrames /\ FrameAt(P)' = g
       /\ \A p \in LiveFrames : p # P => FrameAt(p)' = FrameAt(p)
       /\ \A a \in Heap : a # c => mem'[a] = mem[a]
       /\ \A y \in Byref \cup {GlobalBlock} : mem'[y] = mem[y]
       /\ P = Top(t)'
       /\ StackInv' /\ ProgramInv'
  <2>1. mem' = [a \in Addr |-> mem'[a]] /\ retains' = [o \in Object |-> retains'[o]]
    BY <1>3, <1>7 DEF CoreInv, StackInv, ProgramInv
  <2> QED BY <1>1, <1>2, <1>3, <1>6, <1>7, <1>9, <2>1, GoesOn
<1>11. FrameInv(P)'
  <2>1. ReleaseInv(P)'
    BY <1>4, <1>6, <1>7, <1>10 DEF ReleaseInv, IsByref
  <2> QED BY <1>6, <1>10, <2>1 DEF FrameInv, CopyInv, CopyHelperInv, ByrefCopyInv
<1>12. ASSUME NEW a \in Heap PROVE Settles(a)
  <2>1. (FrameOwns(FrameAt(P), a) <=> a = d) /\ (FrameOwns(FrameAt(P), a)' <=> a = d)
    BY <1>1, <1>2, <1>3, <1>6, <1>10 DEF FrameOwns
  <2>2. Grows(FrameOwners(a), FrameOwners(a)', 0)
    BY Zenon, <1>1, <1>3, <1>10, <2>1, GoesOnOwners
  <2>3. StackOwners(a)' = StackOwners(a)
    <3>1. \A y \in LiveFrames' : y \notin LiveFrames \/ y = Top(t) => FrameAt(y)' = g
      BY <1>1, <1>10
    <3> QED BY Zenon, <1>1, <1>2, <1>3, <1>6, <1>10, <3>1, StackOwnersKept
  <2>4. Grows(StackOwners(a), StackOwners(a)', 0)
    BY <2>3 DEF Grows
  <2>5. Held(a)' = Held(a) + 0 + 0
    <3>1. Held(a) \in Nat
      BY <1>3 DEF Held, CoreInv, HeapInv, HeapBlock, HeapByref, FreeCell
    <3> QED BY <1>7, <3>1 DEF Held
  <2> QED BY <2>2, <2>4, <2>5 DEF Settles
<1>13. \A a \in Heap : ~Disposes(g, a)
  BY <1>6 DEF Disposes
<1>14. f = FrameAt(P) /\ f.fn = g.fn /\ f.fn \in {"byrefCopy", "byrefRelease"} /\ (f.fn = "byrefCopy" => g.dest = f.dest)
         /\ (f.fn = "byrefRelease" => f.pc # "free") /\ retains' = retains /\ var' = var
  BY <1>2, <1>3, <1>6, <1>7
<1>15. P = Top(t) /\ ~Idle(t) /\ P \in LiveFrames
  BY <1>1, <1>2, <1>3
<1>16. NothingMoves(t)
  <2>1. ~Moves(f) /\ ~Moves(g) /\ written' = written
    BY <1>2, <1>6, <1>7 DEF Moves
  <2> QED BY <1>3, <1>9, <1>10, <1>15, <2>1, Still
<1>17. IInv'
  BY <1>9, <1>10, <1>11, <1>12, <1>13, <1>14, <1>15, ByrefGoesOn
<1> QED BY <1>10, <1>16, <1>17

LEMMA ByrefReleaseLoadStep ==
  ASSUME IInv, NEW t \in Thread, ByrefReleaseLoad(t)
  PROVE  IInv' /\ StepKept(t) /\ NothingMoves(t)
<1>1. PICK f : f = Head(stack[t])
  OBVIOUS
<1> QED BY <1>1, ByrefStays, ByrefFollowed

LEMMA ByrefPublishStep ==
  ASSUME IInv, NEW t \in Thread, ByrefPublish(t)
  PROVE  /\ IInv' /\ StepKept(t)
         /\ \E P, b, c :
              /\ MoveGoesOn(t, P, b, c, "payload") /\ FrameAt(P).pc = "publish" /\ FrameAt(P).copy = c
              /\ mem[b].forwarding = b /\ mem'[b].forwarding = c /\ mem'[b].val = mem[b].val
              /\ mem'[c] = mem[c]
<1>1. PICK f, P, b, c : f = Head(stack[t]) /\ P = Top(t) /\ b = f.arg /\ c = f.copy
  OBVIOUS
<1>2. f.fn = "byrefCopy" /\ f.pc = "publish" /\ ~Idle(t)
  BY <1>1 DEF ByrefPublish, InAt, In, Idle
<1>3. /\ FrameAt(P) = f /\ P[1] = t /\ f \in Frame /\ P \in LiveFrames /\ ByrefCopyInv(P)
      /\ CoreInv /\ FieldsInv /\ RetainsInv
  BY <1>1, <1>2, Running DEF IInv, FrameInv
<1>4. b \in Byref /\ IsByref(c) /\ mem[c].of = b /\ mem[b].forwarding = b
  BY <1>1, <1>2, <1>3 DEF ByrefCopyInv
<1>5. /\ scope = "open" /\ t = Main /\ mem[b] = ByrefCell("stack", 0, b, b, mem[b].val) /\ mem[b].val \in Value
      /\ b \notin Heap /\ b # GlobalBlock /\ c \in Heap
  <2>1. scope = "open" /\ t = Main
    BY <1>1, <1>2, <1>3, <1>4, ByrefTarget
  <2> QED BY <1>3, <1>4, <2>1, Apart DEF CoreInv, StackInv, IsByref
<1>6. PICK g : g = [f EXCEPT !.pc = "payload"]
  BY Zenon
<1>7. /\ g \in Frame /\ g.fn = "byrefCopy" /\ g.arg = b /\ g.dest = f.dest /\ g.pc = "payload"
      /\ g.copy = c
  BY <1>1, <1>2, <1>3, <1>6 DEF Frame
<1>8. Continue(t, <<g>>) /\ UNCHANGED <<var, busy, scope, retains, written>>
  BY <1>1, <1>6 DEF ByrefPublish
<1>9. /\ mem' = [a \in Addr |-> mem'[a]]
      /\ \A a \in Addr : a # b => mem'[a] = mem[a]
      /\ mem'[b] = ByrefCell("stack", 0, c, b, mem[b].val)
  <2>1. mem' = [mem EXCEPT ![b].forwarding = c]
    BY <1>1 DEF ByrefPublish
  <2>2. b \in Addr /\ mem = [a \in Addr |-> mem[a]]
    BY <1>3, <1>4 DEF Addr, Stack, CoreInv, StackInv
  <2>3. mem'[b] = [mem[b] EXCEPT !.forwarding = c]
    BY <2>1, <2>2
  <2>4. PICK x, m : x = mem[b].val /\ m = mem[b]
    OBVIOUS
  <2>5. m = ByrefCell("stack", 0, b, b, x) /\ mem'[b] = [m EXCEPT !.forwarding = c]
    BY <1>5, <2>3, <2>4
  <2>6. mem'[b] = ByrefCell("stack", 0, c, b, x)
    BY Zenon, <2>5 DEF ByrefCell
  <2> QED BY <2>1, <2>2, <2>4, <2>6
<1>10. /\ \A a \in Heap : mem'[a] = mem[a]
       /\ \A l \in Literal : mem'[l] = mem[l]
       /\ \A u \in Thread : mem'[Inner[u]] = mem[Inner[u]]
       /\ \A y \in Byref : y # b => mem'[y] = mem[y]
       /\ mem'[GlobalBlock] = mem[GlobalBlock]
  BY <1>4, <1>5, <1>9, Apart DEF Addr, Stack
<1>11. /\ stack' \in [Thread -> Seq(Frame)]
       /\ LiveFrames' = LiveFrames
       /\ \A p \in LiveFrames : p # P => FrameAt(p)' = FrameAt(p)
       /\ FrameAt(P)' = g
       /\ \A u \in Thread : Len(stack'[u]) = Len(stack[u])
  BY <1>1, <1>2, <1>3, <1>7, <1>8, Replaced DEF CoreInv
<1>12. P = Top(t)'
  BY <1>1, <1>11 DEF Top
<1>13. StepKept(t) /\ Changed(t) = {P}
  <2>1. \A u \in Thread : u # t => stack'[u] = stack[u]
    BY <1>3, <1>8 DEF Continue, CoreInv, CallsInv
  <2>2. CallsKept(t)
    BY <1>1, <1>11, <2>1 DEF CallsKept
  <2>3. ProgramKept(t)
    BY <1>8 DEF ProgramKept
  <2>4. MemKept(t)
    <3>1. \A a \in Heap : CellKept(a)
      BY <1>10 DEF CellKept
    <3>2. \A y \in Byref :
        /\ mem'[y].of = mem[y].of
        /\ \/ mem'[y].forwarding = mem[y].forwarding
           \/ ~Idle(t) /\ FrameAt(Top(t)).fn = "byrefCopy" /\ FrameAt(Top(t)).arg = y
      <4>1. mem'[b].of = b /\ mem[b].of = b
        BY <1>5, <1>9 DEF ByrefCell
      <4> QED BY <1>1, <1>2, <1>3, <1>10, <4>1
    <3>3. ASSUME NEW p \in LiveFrames
          PROVE  /\ FrameAt(p).fn = "copyHelper" => DraftKept(FrameAt(p).result, FrameAt(p).i)
                 /\ Disposes(FrameAt(p), FrameAt(p).arg) => mem'[FrameAt(p).arg] = mem[FrameAt(p).arg]
      <4>1. FrameInv(p)
        BY <1>3 DEF CoreInv, CallsInv
      <4>2. FrameAt(p).fn = "copyHelper" => FrameAt(p).result \in Heap
        BY <4>1 DEF FrameInv, CopyHelperInv, IsBlock
      <4>3. Disposes(FrameAt(p), FrameAt(p).arg) => FrameAt(p).arg # b
        <5>1. CASE FrameAt(p).fn = "disposeHelper"
          BY <1>5, <4>1, <5>1 DEF FrameInv, ReleaseInv, IsBlock
        <5>2. CASE FrameAt(p).fn = "byrefRelease" /\ FrameAt(p).pc = "free"
          BY <1>5, <4>1, <5>2 DEF FrameInv, ReleaseInv, IsByref
        <5> QED BY <5>1, <5>2 DEF Disposes
      <4>4. Disposes(FrameAt(p), FrameAt(p).arg) => FrameAt(p).arg \in Addr
        <5>1. FrameAt(p) \in Frame
          BY <1>3, LiveShape DEF CoreInv
        <5> QED BY <5>1, FrameShape DEF Disposes, Addr
      <4> QED BY <1>9, <1>10, <4>2, <4>3, <4>4 DEF DraftKept
    <3> QED BY <1>10, <3>1, <3>2, <3>3 DEF MemKept
  <2> QED BY <1>1, <1>3, <1>11, <2>2, <2>3, <2>4 DEF StepKept, Changed
<1>14. HeapInv'
  BY <1>3, <1>10 DEF CoreInv, HeapInv
<1>15. StackInv'
  <2>1. mem'[GlobalBlock] = Block("global", "global", 0, GlobalBlock, <<>>) /\ scope' = "open"
    BY <1>3, <1>5, <1>8, <1>10 DEF CoreInv, StackInv
  <2>2. \A l \in Literal : mem'[l] = LiteralCell(l)
    BY Zenon, <1>3, <1>5, <1>10 DEF CoreInv, StackInv
  <2>3. ASSUME NEW y \in Byref
        PROVE  /\ mem'[y] = ByrefCell("stack", 0, mem'[y].forwarding, y, mem'[y].val)
               /\ mem'[y].val \in Value
               /\ mem'[y].forwarding \in Heap \cup {y}
               /\ mem'[y].forwarding # y =>
                    (IsByref(mem[y].forwarding) /\ mem[mem[y].forwarding].of = y)'
    <3>1. CASE y # b
      <4>1. mem'[y] = mem[y]
        BY <1>10, <3>1
      <4>2. /\ mem[y] = ByrefCell("stack", 0, mem[y].forwarding, y, mem[y].val)
            /\ mem[y].val \in Value
            /\ mem[y].forwarding \in Heap \cup {y}
            /\ mem[y].forwarding # y => IsByref(mem[y].forwarding) /\ mem[mem[y].forwarding].of = y
        BY Zenon, <1>3, <1>5 DEF CoreInv, StackInv
      <4>3. PICK d : d = mem[y].forwarding
        OBVIOUS
      <4>4. d # y => IsByref(d)' /\ mem'[d].of = y
        BY <1>10, <4>2, <4>3 DEF IsByref
      <4>5. d = mem'[y].forwarding
        BY <4>1, <4>3
      <4> QED BY <4>1, <4>2, <4>4, <4>5 DEF IsByref
    <3>2. CASE y = b
      <4>1. mem'[b].forwarding = c /\ mem'[b].val = mem[b].val
        BY <1>9 DEF ByrefCell
      <4>2. IsByref(c)' /\ mem'[c].of = b
        BY <1>4, <1>10 DEF IsByref
      <4> QED BY <1>5, <1>9, <3>2, <4>1, <4>2 DEF IsByref
    <3> QED BY <3>1, <3>2
  <2>4. scope' = "open"
    BY <2>1
  <2>5. \A y \in Byref :
           /\ mem'[y] = ByrefCell("stack", 0, mem'[y].forwarding, y, mem'[y].val)
           /\ mem'[y].val \in Value
           /\ mem'[y].forwarding \in Heap \cup {y}
           /\ scope' = "open" /\ mem'[y].forwarding # y =>
                (IsByref(mem[y].forwarding) /\ mem[mem[y].forwarding].of = y)'
    BY <2>3
  <2> QED BY <1>9, <2>1, <2>2, <2>4, <2>5 DEF StackInv
<1>16. ProgramInv'
  <2>1. ASSUME NEW u \in Thread PROVE ThreadKept(u)
    <3>1. stack'[u] \in Seq(Frame) /\ stack[u] \in Seq(Frame)
      BY <1>3, <1>11 DEF CoreInv, CallsInv
    <3>2. Idle(u)' => Idle(u)
      BY <1>11, <3>1, EmptySeq DEF Idle
    <3> QED BY <1>8, <1>10, <3>2 DEF ThreadKept
  <2>2. /\ busy' \in [Thread -> SUBSET Var] /\ written' \in [Byref -> Value] /\ var' = var
        /\ retains' = [o \in Object |-> retains'[o]]
    BY <1>3, <1>8 DEF CoreInv, ProgramInv
  <2> QED BY <1>3, <1>13, <2>1, <2>2, ProgramInvKept
<1>17. CallsInv'
  <2>1. FrameInv(P)'
    <3>1. /\ f.arg \in Byref
          /\ IsByref(g.copy)' /\ mem'[g.copy].of = f.arg
          /\ mem'[f.arg].forwarding = IF g.pc = "publish" THEN f.arg ELSE g.copy
          /\ g.pc \notin {"increment", "return"}
      BY <1>1, <1>4, <1>5, <1>7, <1>9, <1>10 DEF IsByref, ByrefCell
    <3>2. f.fn = "byrefCopy" /\ g.fn = "byrefCopy" /\ g.arg = f.arg /\ g.dest = f.dest
      BY <1>1, <1>2, <1>7
    <3>3. f = FrameAt(P) /\ P = Top(t) /\ ~Idle(t) /\ CoreInv /\ var' = var /\ busy' = busy /\ scope' = scope
      BY <1>1, <1>2, <1>3, <1>8
    <3> QED BY ZenonT(30), <1>10, <1>11, <1>12, <1>13, <3>1, <3>2, <3>3, ByrefCopyGoesOn
  <2>2. \A a \in Heap : ~Builds(f, a) /\ ~Disposes(f, a) /\ ~Disposes(g, a)
    BY <1>2, <1>7 DEF Builds, Disposes
  <2>3. f = FrameAt(P) /\ P = Top(t) /\ ~Idle(t) /\ CoreInv /\ NULL \notin Heap
    BY <1>1, <1>2, <1>3, Apart
  <2> QED BY <1>10, <1>11, <1>13, <2>1, <2>2, <2>3, GoesOnCalls
<1>18. /\ FieldsInv' /\ RetainsInv'
       /\ \A a \in Heap : VarOwners(a)' = VarOwners(a) /\ FieldOwners(a)' = FieldOwners(a)
  <2>1. /\ f = FrameAt(P) /\ f.fn = g.fn /\ f.fn \in {"byrefCopy", "byrefRelease"} /\ g.dest = f.dest
        /\ retains' = retains /\ var' = var
    BY <1>2, <1>3, <1>7, <1>8
  <2> QED BY <1>3, <1>10, <1>11, <1>13, <2>1, ByrefFieldsSame
<1>19. ASSUME NEW a \in Heap PROVE Settles(a)
  <2>1. (FrameOwns(FrameAt(P), a) <=> a = c) /\ (FrameOwns(FrameAt(P), a)' <=> a = c)
    BY <1>1, <1>2, <1>3, <1>7, <1>11 DEF FrameOwns
  <2>2. Grows(FrameOwners(a), FrameOwners(a)', 0)
    BY <1>1, <1>3, <1>13, <2>1, GoesOnOwners
  <2>3. ASSUME NEW y \in Byref PROVE StackOwns(y, a)' <=> StackOwns(y, a)
    <3>1. scope' = scope /\ (y # b => mem'[y].forwarding = mem[y].forwarding)
      BY <1>8, <1>10
    <3>2. \A q \in LiveFrames : q # P => FrameAt(q)' = FrameAt(q)
      BY <1>11
    <3>3. ASSUME NEW q \in LiveFrames, q # P, FrameAt(q).fn = "byrefCopy", FrameAt(q).arg = b
          PROVE  FALSE
      <4>1. ByrefCopyInv(q)
        BY <1>3 DEF CoreInv, CallsInv, FrameInv
      <4>2. q = Top(q[1])
        BY <3>3, <4>1 DEF ByrefCopyInv
      <4>3. q[1] = Main
        BY <1>4, <1>5, <3>3, <4>1 DEF ByrefCopyInv, IsByref
      <4> QED BY <1>1, <1>5, <3>3, <4>2, <4>3
    <3>4. CASE y # b
      BY Zenon, <1>2, <1>3, <1>7, <1>11, <3>1, <3>2, <3>4, <1>1 DEF StackOwns
    <3>5. CASE y = b
      <4>1. StackOwns(y, a) <=> a = c
        <5>1. a = c => StackOwns(y, a)
          BY <1>1, <1>2, <1>3, <3>5 DEF StackOwns
        <5>2. StackOwns(y, a) => a = c
          BY <1>1, <1>3, <1>4, <1>5, <3>3, <3>5 DEF StackOwns
        <5> QED BY <5>1, <5>2
      <4>2. StackOwns(y, a)' <=> a = c
        <5>1. mem'[y].forwarding = c /\ scope' = "open"
          BY <1>5, <1>8, <1>9, <3>5 DEF ByrefCell
        <5>2. a = c => StackOwns(y, a)'
          BY <5>1 DEF StackOwns
        <5>3. \A q \in LiveFrames : ~(FrameAt(q)'.fn = "byrefCopy" /\ FrameAt(q)'.pc = "publish" /\ FrameAt(q)'.arg = b)
          BY <1>7, <1>11, <3>2, <3>3
        <5>4. StackOwns(y, a)' => a = c
          BY <1>11, <3>5, <5>1, <5>3 DEF StackOwns
        <5> QED BY <5>2, <5>4
      <4> QED BY <4>1, <4>2
    <3> QED BY <3>4, <3>5
  <2>4. StackOwners(a)' = StackOwners(a)
    BY <2>3 DEF StackOwners
  <2>5. Grows(StackOwners(a), StackOwners(a)', 0)
    BY <2>4 DEF Grows
  <2>6. Held(a)' = Held(a) + 0 + 0
    <3>1. Held(a) \in Nat
      BY <1>3 DEF Held, CoreInv, HeapInv, HeapBlock, HeapByref, FreeCell
    <3> QED BY <1>10, <3>1 DEF Held
  <2> QED BY <2>2, <2>5, <2>6 DEF Settles
<1>20. OwnersInv'
  BY <1>3, <1>18, <1>19, CallsSettle
<1>21. IInv'
  BY <1>13, <1>14, <1>15, <1>16, <1>17, <1>18, <1>20 DEF IInv, CoreInv
<1>22. MoveGoesOn(t, P, b, c, "payload")
  BY <1>1, <1>2, <1>3, <1>4, <1>5, <1>7, <1>8, <1>10, <1>11, <1>13 DEF MoveGoesOn
<1>23. mem'[b].forwarding = c /\ mem'[b].val = mem[b].val /\ mem'[c] = mem[c]
  BY <1>5, <1>9, <1>10 DEF ByrefCell
<1> QED BY <1>1, <1>2, <1>3, <1>4, <1>13, <1>21, <1>22, <1>23

-----------------------------------------------------------------------------
(* The helpers *)

\* The switch of _Block_object_dispose takes a field for what that of
\* _Block_object_assign takes it for.
LEMMA KindsAgree ==
  ASSUME NEW flags
  PROVE  DisposeKind(flags) =
           IF AssignKind(flags) \in {"object", "block", "byref"} THEN AssignKind(flags) ELSE "nothing"
<1>1. PICK f : f = flags \cap BLOCK_ALL_COPY_DISPOSE_FLAGS
  BY Zenon
<1>2. \A l \in ByrefLabels : 8 \in l
  BY DEF ByrefLabels, BLOCK_FIELD_IS_BYREF
<1>3. \A l \in CallerLabels : 128 \in l
  BY DEF CallerLabels, BLOCK_BYREF_CALLER
<1>4. /\ 8 \notin BLOCK_FIELD_IS_OBJECT /\ 8 \notin BLOCK_FIELD_IS_BLOCK
      /\ 4 \in BLOCK_FIELD_IS_BLOCK /\ 4 \notin BLOCK_FIELD_IS_OBJECT
      /\ 128 \notin BLOCK_FIELD_IS_OBJECT /\ 128 \notin BLOCK_FIELD_IS_BLOCK
  BY DEF BLOCK_FIELD_IS_OBJECT, BLOCK_FIELD_IS_BLOCK
<1>5. AssignKind(flags) =
        IF f = BLOCK_FIELD_IS_OBJECT THEN "object"
        ELSE IF f = BLOCK_FIELD_IS_BLOCK THEN "block"
        ELSE IF f \in ByrefLabels THEN "byref"
        ELSE IF f \in CallerLabels THEN "pointer" ELSE "nothing"
  BY Zenon, <1>1, Zenon DEF AssignKind
<1>6. DisposeKind(flags) =
        IF f \in ByrefLabels THEN "byref"
        ELSE IF f = BLOCK_FIELD_IS_BLOCK THEN "block"
        ELSE IF f = BLOCK_FIELD_IS_OBJECT THEN "object" ELSE "nothing"
  BY Zenon, <1>1, Zenon DEF DisposeKind
<1> QED BY <1>2, <1>3, <1>4, <1>5, <1>6

\* What a Block on a stack captured is what its flags say, and is kept for the
\* time of the call.
LEMMA StackField ==
  ASSUME IInv, WellCaptured, NEW t \in Thread, NEW a, StackBlock(t, a),
         NEW i \in DOMAIN mem[a].fields, NEW v, v = mem[a].fields[i],
         NEW c, c = Captures[mem[a].lit][i], NEW kind, kind = AssignKind(FlagsOf(mem[a], i))
  PROVE  /\ c.flags = FlagsOf(mem[a], i)
         /\ kind = "block" => CopyArg(t, v) /\ (v \notin {NULL, GlobalBlock} => mem[v].lit = c.of)
         /\ kind = "byref" =>
              /\ (v \in Byref /\ t = Main /\ scope = "open") \/ (IsByref(v) /\ Borrowed(t, v))
              /\ mem[v].of = c.of
         /\ kind = "object" => v \in Object \cup {NULL}
         /\ kind \notin {"block", "byref"} => v \notin Stack
<1>1. c.flags = FlagsOf(mem[a], i)
  BY DEF FlagsOf
<1>2. CoreInv /\ FieldsInv
  BY DEF IInv
<1>3. ASSUME NEW l \in Literal, mem[a].lit = l, v = c.of, i \in DOMAIN Captures[l],
             t = Main, scope = "open"
      PROVE  /\ kind = "block" => CopyArg(t, v) /\ (v \notin {NULL, GlobalBlock} => mem[v].lit = c.of)
             /\ kind = "byref" => v \in Byref /\ mem[v].of = c.of
             /\ kind = "object" => v \in Object \cup {NULL}
             /\ kind \notin {"block", "byref"} => v \notin Stack
  <2>1. /\ kind = "block" => v \in Literal \cup {GlobalBlock, NULL}
        /\ kind = "byref" => v \in Byref
        /\ kind = "object" => v \in Object \cup {NULL}
        /\ kind \notin {"block", "byref", "object"} => v \notin Stack
    BY <1>1, <1>3 DEF WellCaptured
  <2>2. ASSUME v \in Literal PROVE CopyArg(t, v) /\ mem[v].lit = v
    <3>1. PICK u : u = v
      OBVIOUS
    <3>2. StackBlock(t, u)
      BY <1>3, <2>2, <3>1 DEF StackBlock
    <3>3. u \in Literal
      BY <2>2, <3>1
    <3>4. mem[u] = LiteralCell(u)
      BY <1>2, <1>3, <3>3 DEF CoreInv, StackInv
    <3>5. mem[u].lit = u
      BY <3>4 DEF LiteralCell, Block
    <3> QED BY <3>1, <3>2, <3>5 DEF CopyArg
  <2>3. ASSUME v \in Byref PROVE mem[v].of = v
    <3>1. PICK u : u = v
      OBVIOUS
    <3>2. u \in Byref
      BY <2>3, <3>1
    <3>3. mem[u] = ByrefCell("stack", 0, mem[u].forwarding, u, mem[u].val)
      BY Zenon, <1>2, <1>3, <3>2 DEF CoreInv, StackInv
    <3>4. mem[u].of = u
      BY <3>3 DEF ByrefCell
    <3> QED BY <3>1, <3>4
  <2>4. v \in {NULL, GlobalBlock} => CopyArg(t, v)
    BY DEF CopyArg
  <2>5. kind = "object" => v \notin Stack
    BY <2>1, Apart
  <2> QED BY <1>3, <2>1, <2>2, <2>3, <2>4, <2>5
<1>4. ASSUME NEW l \in Literal, mem[a] = LiteralCell(l)
      PROVE  mem[a].lit = l /\ v = c.of /\ i \in DOMAIN Captures[l]
  BY <1>4 DEF LiteralCell, Block
<1>5. CASE a \in Literal /\ t = Main /\ scope = "open"
  <2>1. mem[a] = LiteralCell(a)
    BY Zenon, <1>2, <1>5 DEF CoreInv, StackInv
  <2> QED BY <1>1, <1>3, <1>4, <1>5, <2>1
<1>6. CASE a = Inner[t] /\ mem[a].kind = "block"
  <2>1. Mirrors(t)
    BY <1>2, <1>6 DEF CoreInv, ProgramInv, FreeCell
  <2>2. CASE t = Main /\ scope = "open" /\ \E l \in Literal : mem[Inner[t]] = LiteralCell(l)
    BY <1>1, <1>3, <1>4, <1>6, <2>2
  <2>3. CASE \E w \in busy[t] :
               /\ IsBlock(var[w])
               /\ mem[Inner[t]] = Block("stack", "stack", 0, mem[var[w]].lit, mem[var[w]].fields)
    <3>1. PICK w \in busy[t] :
               /\ IsBlock(var[w])
               /\ mem[Inner[t]] = Block("stack", "stack", 0, mem[var[w]].lit, mem[var[w]].fields)
      BY <2>3
    <3>2. PICK B, x : B = var[w] /\ x = <<B, i>>
      BY Zenon
    <3>3. mem[a].lit = mem[B].lit /\ mem[a].fields = mem[B].fields
      BY <1>6, <3>1, <3>2 DEF Block
    <3>4. w \in Var
      BY <1>2 DEF CoreInv, ProgramInv
    <3>5. Whole(B)
      BY <1>2, <3>1, <3>2, <3>4, HeldIsWhole DEF CoreInv, IsBlock
    <3>6. FieldOk(x)
      BY <1>2, <3>2, <3>3, <3>5 DEF Whole, FieldsInv
    <3>7. Field(x) = v /\ KindOf(x) = kind /\ c = Captures[mem[x[1]].lit][x[2]]
      BY <3>2, <3>3 DEF Field, KindOf, FlagsOf
    <3>8. kind \in {"block", "byref"} => Borrowed(t, v)
      BY <3>1, <3>2, <3>3, <3>7 DEF Borrowed
    <3>9. /\ v \notin Stack
          /\ kind = "block" => v \in {GlobalBlock, NULL} \/ (IsBlock(v) /\ mem[v].lit = c.of)
          /\ kind = "byref" => IsByref(v) /\ mem[v].of = c.of
          /\ kind = "object" => v \in Object \cup {NULL}
      BY <3>6, <3>7 DEF FieldOk
    <3> QED BY <1>1, <3>8, <3>9 DEF CopyArg
  <2> QED BY <2>1, <2>2, <2>3 DEF Mirrors
<1> QED BY <1>5, <1>6 DEF StackBlock

\* the calls that withhold a field of the Block that the top call of t makes,
LEMMA TopDraft ==
  ASSUME CoreInv, NEW t \in Thread, ~Idle(t), NEW P, P = Top(t), NEW f, f = FrameAt(P),
         f.fn = "copyHelper", NEW x, IsField(x), x[1] = f.result, NEW p \in LiveFrames
  PROVE  Withholds(FrameAt(p), x) <=> p = P /\ f.i <= x[2]
<1>1. P \in LiveFrames /\ P[1] = t /\ P[2] = Len(stack[t]) /\ Len(stack[t]) \in Nat \ {0}
  BY TopFrame DEF CoreInv
<1>2. Builds(f, x[1]) /\ ~mem[x[1]].dying /\ \A q \in LiveFrames : Builds(FrameAt(q), x[1]) => q = P
  BY <1>1, Draft DEF CoreInv, Builds
<1>3. ASSUME FrameAt(p).fn = "disposeHelper", FrameAt(p).arg = x[1] PROVE FALSE
  BY <1>2, <1>3 DEF CoreInv, CallsInv, FrameInv, ReleaseInv
<1>4. ASSUME FrameAt(p).fn \in {"copy", "copyHelper", "byrefCopy"}, FrameAt(p).dest = ToField(x[1], x[2])
      PROVE  FALSE
  <2>1. ~IsVar(FrameAt(p).dest) /\ FrameAt(p).dest.block = x[1]
    BY <1>4 DEF IsVar, ToField
  <2>2. PICK q : q = <<p[1], p[2] - 1>>
    BY Zenon
  <2>3. q \in LiveFrames /\ Builds(FrameAt(q), x[1])
    BY <1>4, <2>1, <2>2, DestCaller DEF CoreInv, Builds
  <2>4. q = P
    BY <1>2, <2>3
  <2>5. p[1] = t /\ p[2] - 1 = Len(stack[t])
    BY <1>1, <2>2, <2>4
  <2>6. p[2] \in 1 .. Len(stack[t])
    BY <2>5, TopFrame DEF CoreInv
  <2> QED BY <1>1, <2>5, <2>6
<1> QED BY <1>1, <1>2, <1>3, <1>4 DEF Withholds, Builds

\* ... or disposes of.
LEMMA TopDisposal ==
  ASSUME CoreInv, NEW t \in Thread, ~Idle(t), NEW P, P = Top(t), NEW f, f = FrameAt(P),
         f.fn = "disposeHelper", NEW x, IsField(x), x[1] = f.arg, NEW p \in LiveFrames
  PROVE  Withholds(FrameAt(p), x) <=> p = P /\ x[2] < f.i
<1>1. P \in LiveFrames
  BY TopFrame DEF CoreInv
<1>2. IsBlock(x[1]) /\ mem[x[1]].dying /\ Disposes(f, x[1])
  BY <1>1 DEF CoreInv, CallsInv, FrameInv, ReleaseInv, Disposes
<1>3. \A q \in LiveFrames : ~Builds(FrameAt(q), x[1])
  BY <1>2, Draft DEF CoreInv
<1>4. ASSUME FrameAt(p).fn \in {"copy", "copyHelper", "byrefCopy"}, FrameAt(p).dest = ToField(x[1], x[2])
      PROVE  FALSE
  <2>1. ~IsVar(FrameAt(p).dest) /\ FrameAt(p).dest.block = x[1]
    BY <1>4 DEF IsVar, ToField
  <2>2. PICK q : q = <<p[1], p[2] - 1>>
    BY Zenon
  <2>3. q \in LiveFrames /\ Builds(FrameAt(q), x[1])
    BY <1>4, <2>1, <2>2, DestCaller DEF CoreInv, Builds
  <2> QED BY <1>3, <2>3
<1>5. ASSUME FrameAt(p).fn = "disposeHelper", FrameAt(p).arg = x[1] PROVE p = P
  BY <1>1, <1>2, <1>5 DEF CoreInv, CallsInv, Disposes, IsBlock
<1> QED BY <1>1, <1>3, <1>4, <1>5 DEF Withholds, Builds

\* The destination of a call that goes on as g stays what it was.
LEMMA DestGoesOn ==
  ASSUME CoreInv, NEW t \in Thread, ~Idle(t), NEW P, P = Top(t), NEW f, f = FrameAt(P),
         f.fn \in {"copy", "copyHelper", "byrefCopy"}, DestInv(P),
         NEW g, FrameAt(P)' = g, g.dest = f.dest,
         \A p \in LiveFrames : p # P => FrameAt(p)' = FrameAt(p), var' = var, busy' = busy
  PROVE  DestInv(P)'
<1>1. P \in LiveFrames /\ P[1] = t
  BY TopFrame DEF CoreInv
<1>2. CASE IsVar(f.dest)
  BY <1>2 DEF DestInv
<1>3. CASE ~IsVar(f.dest)
  <2>1. PICK q : q = <<P[1], P[2] - 1>>
    BY Zenon
  <2>2. /\ q \in LiveFrames /\ P[2] > 1
        /\ FrameAt(q).fn = "copyHelper" /\ FrameAt(q).i > 1
        /\ f.dest = ToField(FrameAt(q).result, FrameAt(q).i - 1)
    BY <1>1, <1>3, <2>1, DestCaller DEF CoreInv
  <2>3. q # P
    BY <1>1, <2>1, LiveShape DEF CoreInv
  <2>4. FrameAt(<<P[1], P[2] - 1>>)' = FrameAt(q)
    BY <2>1, <2>2, <2>3
  <2> QED BY <1>3, <2>2, <2>4 DEF DestInv
<1> QED BY <1>2, <1>3

LEMMA RetainsStep ==
  ASSUME HeapInv, RetainsInv,
         \A o \in Object : \E n : Grows(ObjectFields(o), ObjectFields(o)', n) /\ retains'[o] = retains[o] + n
  PROVE  RetainsInv'
<1>1. IsFiniteSet(HelpedFields)
  BY FieldsFinite
<1>2. ASSUME NEW o \in Object PROVE retains'[o] = Cardinality(ObjectFields(o)')
  <2>1. PICK n : Grows(ObjectFields(o), ObjectFields(o)', n) /\ retains'[o] = retains[o] + n
    OBVIOUS
  <2>2. IsFiniteSet(ObjectFields(o))
    BY <1>1, FS_Subset DEF ObjectFields
  <2>3. PICK S, T : S = ObjectFields(o) /\ T = ObjectFields(o)'
    OBVIOUS
  <2>4. Cardinality(T) = Cardinality(S) + n
    BY <2>1, <2>2, <2>3, GrownCardinality
  <2> QED BY <2>1, <2>3, <2>4 DEF RetainsInv
<1> QED BY <1>2 DEF RetainsInv

=============================================================================
