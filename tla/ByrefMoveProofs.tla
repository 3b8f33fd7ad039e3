---------------------------- MODULE ByrefMoveProofs ----------------------------
(***************************************************************************)
(* A __block variable is safe, and acts as if it were in allocated         *)
(* storage, for any number of threads and Blocks.                          *)
(***************************************************************************)
EXTENDS ByrefMove, FiniteSetTheorems, TLAPS

At == {"idle", "check", "publish", "payload", "increment", "return", "load", "decrement", "free"}
Copying == {"check", "publish", "payload", "increment", "return"}
Releasing == {"load", "decrement"}

MoveTypeOK ==
  /\ scope \in {"open", "closing", "closed"} /\ forwarding \in Where
  /\ heap \in {"none", "live", "dying", "freed"} /\ copies \in Nat /\ refcount \in Nat
  /\ val \in [Where -> {0, 1, Garbage}] /\ written \in {0, 1}
  /\ field \in [Holder -> {"none", "heap"}]
  /\ pc \in [Thread -> At] /\ arg \in [Thread -> Where]
  /\ for \in [Thread -> Owner \cup {None}] /\ using \in [Thread -> Holder \cup {None}]

\* each owner is in one call at most, and has no field meanwhile
CallsApart ==
  /\ \A t \in Thread : for[t] \in Holder => field[for[t]] = "none"
  /\ \A t, u \in Thread : t # u /\ for[t] = for[u] => for[t] = None

\* what a call is for, and on what
CallWellFormed(t) ==
  /\ pc[t] \in {"idle", "free"} => for[t] = None
  /\ pc[t] \in Copying => for[t] \in Holder
  /\ pc[t] \in Releasing => for[t] \in Owner
  /\ for[t] = Scope => t = Main /\ scope = "closing" /\ pc[t] \in Releasing
  /\ pc[t] \in Copying /\ arg[t] = "stack" => t = Main /\ scope = "open"
  /\ pc[t] \in Copying /\ arg[t] = "heap" => using[t] \in Holder /\ field[using[t]] = "heap"
  /\ pc[t] = "load" => (arg[t] = "stack" <=> for[t] = Scope)
  /\ pc[t] \in {"publish", "payload"} => t = Main /\ arg[t] = "stack"

\* before the copy is complete nobody but the declaring function is there
Alone ==
  Unmoved =>
    /\ \A h \in Holder : field[h] = "none"
    /\ \A t \in Thread \ {Main} : pc[t] = "idle"
    /\ val["stack"] = written

WhereItIs ==
  /\ heap = "none" =>
       forwarding = "stack" /\ copies = 0 /\ pc[Main] \in {"idle", "check", "load"}
  /\ heap # "none" =>
       copies = 1 /\ (forwarding = IF pc[Main] = "publish" THEN "stack" ELSE "heap")
  /\ pc[Main] \in {"publish", "payload"} => heap = "live"
  /\ heap = "live" /\ ~Unmoved => val["heap"] = written
  /\ \A t \in Thread : pc[t] = "free" => heap \in {"dying", "freed"}
  /\ \A t \in Thread : pc[t] \in {"increment", "return", "decrement"} => forwarding = "heap"

\* only a live copy has owners
OwnersLive == \A o \in Owner : Counted(o) => heap = "live"

IInv ==
  /\ MoveTypeOK /\ CallsApart /\ \A t \in Thread : CallWellFormed(t)
  /\ Alone /\ WhereItIs /\ OwnersLive /\ CountIsOwners

-----------------------------------------------------------------------------

LEMMA OwnersFinite ==
  /\ IsFiniteSet(Owner) /\ IsFiniteSet(Owners) /\ Cardinality(Owners) \in Nat
<1>1. IsFiniteSet(Owner)
  BY OwnersAssumption, FS_AddElement DEF Owner
<1>2. Owners \subseteq Owner
  BY DEF Owners
<1> QED
  BY <1>1, <1>2, FS_Subset, FS_CardinalityType

LEMMA InitInv == MoveInit => IInv
<1> SUFFICES ASSUME MoveInit PROVE IInv
  OBVIOUS
<1>1. \A o \in Owner : ~Counted(o)
  BY OwnersAssumption DEF MoveInit, Counted, InCall, Owner
<1>2. Owners = {}
  BY <1>1 DEF Owners
<1>3. CountIsOwners
  BY <1>2, FS_EmptySet DEF MoveInit, CountIsOwners
<1>4. MoveTypeOK
  BY DEF MoveInit, MoveTypeOK, Where, At, Owner
<1>5. CallsApart
  BY OwnersAssumption DEF MoveInit, CallsApart
<1>6. ASSUME NEW t \in Thread PROVE CallWellFormed(t)
  BY OwnersAssumption DEF MoveInit, CallWellFormed, Copying, Releasing
<1>7. Alone /\ WhereItIs
  BY ThreadsAssumption DEF MoveInit, Alone, WhereItIs, Unmoved, Where
<1> QED
  BY <1>1, <1>3, <1>4, <1>5, <1>6, <1>7 DEF IInv, OwnersLive

\* What is true of a variable that is used.
LEMMA ForwardsToLive ==
  ASSUME IInv, NEW t \in Thread,
         pc[t] \in {"check", "increment", "return"}, Forward(arg[t]) = "heap"
  PROVE  heap = "live" /\ refcount > 0 /\ forwarding = "heap" /\ ~Unmoved
<1>1. \E o \in Owner : Counted(o)
  <2>1. CASE arg[t] = "heap"
    BY <2>1 DEF IInv, CallWellFormed, Copying, Counted, Owner
  <2>2. CASE arg[t] = "stack"
    <3>1. scope = "open" /\ heap # "none"
      BY <2>2 DEF IInv, MoveTypeOK, CallWellFormed, Copying, WhereItIs, Forward
    <3> QED
      BY <3>1 DEF Counted, Owner
  <2> QED
    BY <2>1, <2>2 DEF IInv, MoveTypeOK, Where
<1>2. heap = "live"
  BY <1>1 DEF IInv, OwnersLive
<1>3. Owners # {}
  BY <1>1 DEF Owners
<1>4. refcount > 0
  BY <1>3, OwnersFinite, FS_EmptySet DEF IInv, MoveTypeOK, CountIsOwners
<1>5. ~Unmoved
  <2>1. CASE t = Main
    BY <2>1, <1>2 DEF Unmoved
  <2>2. CASE t # Main
    BY <2>2, <1>2 DEF IInv, Alone, Unmoved
  <2> QED
    BY <2>1, <2>2
<1>6. forwarding = "heap"
  BY <1>2, <1>5 DEF IInv, WhereItIs, Unmoved
<1> QED
  BY <1>2, <1>4, <1>5, <1>6

LEMMA EnterInv ==
  ASSUME IInv, NEW t \in Thread, NEW h \in Holder, NEW g,
         (t = Main /\ CopyInScope(h)) \/ (g \in Holder /\ CopyInBlock(t, g, h))
  PROVE  IInv'
<1>1. MoveTypeOK'
  BY DEF IInv, MoveTypeOK, CopyInScope, CopyInBlock, Enter, At, Where, Owner
<1>2. CallsApart'
  BY OwnersAssumption DEF IInv, MoveTypeOK, CallsApart, CopyInScope, CopyInBlock, Enter, Unused
<1>3. ASSUME NEW u \in Thread PROVE CallWellFormed(u)'
  BY OwnersAssumption, ThreadsAssumption DEF IInv, MoveTypeOK, CallWellFormed, CopyInScope, CopyInBlock, Enter,
      Unused, Copying, Releasing
<1>4. Alone'
  BY ThreadsAssumption DEF IInv, MoveTypeOK, Alone, Unmoved, CopyInScope, CopyInBlock, Enter
<1>5. WhereItIs'
  BY ThreadsAssumption DEF IInv, MoveTypeOK, Alone, WhereItIs, Unmoved, CopyInScope, CopyInBlock, Enter
<1>6. ASSUME NEW o \in Owner PROVE Counted(o)' <=> Counted(o)
  BY OwnersAssumption DEF IInv, MoveTypeOK, CallWellFormed, Counted, InCall, Forward, CopyInScope, CopyInBlock, Enter
<1>7. Owners' = Owners
  BY <1>6 DEF Owners, Owner
<1> QED
  BY <1>1, <1>2, <1>3, <1>4, <1>5, <1>6, <1>7
     DEF IInv, OwnersLive, CountIsOwners, CopyInScope, CopyInBlock


LEMMA DisposeInv ==
  ASSUME IInv, NEW t \in Thread, NEW h \in Holder, DisposeBlock(t, h)
  PROVE  IInv'
<1>0. field[h] = "heap" /\ heap = "live" /\ ~Unmoved
  <2>1. field[h] = "heap"
    BY DEF IInv, MoveTypeOK, DisposeBlock
  <2>2. heap = "live"
    BY <2>1 DEF IInv, OwnersLive, Counted, Owner
  <2> QED
    BY <2>1, <2>2 DEF IInv, Alone
<1>1. MoveTypeOK'
  BY <1>0 DEF IInv, MoveTypeOK, DisposeBlock, Enter, At, Where, Owner
<1>2. CallsApart'
  BY <1>0, OwnersAssumption DEF IInv, MoveTypeOK, CallsApart, DisposeBlock, Enter
<1>3. ASSUME NEW u \in Thread PROVE CallWellFormed(u)'
  BY <1>0, OwnersAssumption
     DEF IInv, MoveTypeOK, CallWellFormed, DisposeBlock, Enter, Copying, Releasing, Owner
<1>4. Alone'
  BY <1>0, ThreadsAssumption DEF IInv, MoveTypeOK, Alone, Unmoved, DisposeBlock, Enter
<1>5. WhereItIs'
  BY <1>0, ThreadsAssumption DEF IInv, MoveTypeOK, WhereItIs, Unmoved, DisposeBlock, Enter
<1>6. ASSUME NEW o \in Owner PROVE Counted(o)' <=> Counted(o)
  <2>1. CASE o = h
    BY <2>1, <1>0 DEF IInv, MoveTypeOK, Counted, InCall, Forward, DisposeBlock, Enter
  <2>2. CASE o # h
    BY <2>2, <1>0, OwnersAssumption
       DEF IInv, MoveTypeOK, CallWellFormed, Counted, InCall, Forward, DisposeBlock, Enter, Owner
  <2> QED
    BY <2>1, <2>2
<1>7. Owners' = Owners
  BY <1>6 DEF Owners, Owner
<1> QED
  BY <1>0, <1>1, <1>2, <1>3, <1>4, <1>5, <1>6, <1>7
     DEF IInv, OwnersLive, CountIsOwners, DisposeBlock

LEMMA CloseScopeInv ==
  ASSUME IInv, CloseScope
  PROVE  IInv'
<1>1. MoveTypeOK'
  BY ThreadsAssumption DEF IInv, MoveTypeOK, CloseScope, Enter, At, Where, Owner
<1>2. CallsApart'
  BY OwnersAssumption, ThreadsAssumption
     DEF IInv, MoveTypeOK, CallsApart, CallWellFormed, CloseScope, Enter
<1>3. ASSUME NEW u \in Thread PROVE CallWellFormed(u)'
  BY OwnersAssumption, ThreadsAssumption
     DEF IInv, MoveTypeOK, CallWellFormed, CloseScope, Enter, Copying, Releasing, Owner
<1>4. Alone'
  BY ThreadsAssumption DEF IInv, MoveTypeOK, Alone, Unmoved, CloseScope, Enter
<1>5. WhereItIs'
  BY ThreadsAssumption DEF IInv, MoveTypeOK, WhereItIs, Unmoved, CloseScope, Enter
<1>6. ASSUME NEW o \in Owner PROVE Counted(o)' <=> Counted(o)
  <2>1. CASE o = Scope
    BY <2>1, OwnersAssumption, ThreadsAssumption
       DEF IInv, MoveTypeOK, WhereItIs, CallWellFormed, Counted, InCall, Forward, CloseScope, Enter
  <2>2. CASE o # Scope
    BY <2>2, OwnersAssumption, ThreadsAssumption
       DEF IInv, MoveTypeOK, CallWellFormed, Counted, InCall, Forward, CloseScope, Enter, Owner
  <2> QED
    BY <2>1, <2>2
<1>7. Owners' = Owners
  BY <1>6 DEF Owners, Owner
<1> QED
  BY <1>1, <1>2, <1>3, <1>4, <1>5, <1>6, <1>7 DEF IInv, OwnersLive, CountIsOwners, CloseScope

LEMMA LeaveFrameInv ==
  ASSUME IInv, LeaveFrame
  PROVE  IInv'
<1>1. ASSUME NEW o \in Owner PROVE Counted(o)' <=> Counted(o)
  BY DEF Counted, InCall, Forward, LeaveFrame, callVars
<1>2. Owners' = Owners
  BY <1>1 DEF Owners, Owner
<1>3. MoveTypeOK' /\ CallsApart' /\ Alone' /\ WhereItIs'
  BY DEF IInv, MoveTypeOK, CallsApart, Alone, WhereItIs, Unmoved, LeaveFrame, callVars
<1>4. ASSUME NEW u \in Thread PROVE CallWellFormed(u)'
  BY DEF IInv, CallWellFormed, LeaveFrame, callVars, Releasing, Copying
<1> QED
  BY <1>1, <1>2, <1>3, <1>4 DEF IInv, OwnersLive, CountIsOwners, LeaveFrame

\* Writing is for whoever can reach the variable, and reaches its value.
LEMMA WriteReaches ==
  ASSUME IInv, NEW w \in Where,
         \/ w = "stack" /\ scope = "open" /\ pc[Main] = "idle"
         \/ \E h \in Holder : field[h] # "none" /\ w = field[h]
  PROVE  /\ Forward(w) = "stack" => heap = "none"
         /\ Forward(w) = "heap" => heap = "live" /\ ~Unmoved
<1>1. CASE w = "stack"
  <2>1. scope = "open" /\ pc[Main] = "idle"
    BY <1>1 DEF IInv, MoveTypeOK
  <2>2. heap # "none" => Counted(Scope)
    BY <2>1 DEF Counted
  <2> QED
    BY <1>1, <2>1, <2>2 DEF IInv, OwnersLive, Owner, WhereItIs, Unmoved, Forward
<1>2. CASE w = "heap"
  <2>1. PICK h \in Holder : field[h] = "heap"
    BY <1>2
  <2>2. heap = "live"
    BY <2>1 DEF IInv, OwnersLive, Counted, Owner
  <2> QED
    BY <1>2, <2>1, <2>2 DEF IInv, Alone, Forward
<1> QED
  BY <1>1, <1>2 DEF Where

LEMMA WriteInv ==
  ASSUME IInv, WriteInScope \/ \E h \in Holder : WriteInBlock(h)
  PROVE  IInv'
<1>1. PICK w \in Where :
        /\ WriteAt(w)
        /\ Forward(w) = "stack" => heap = "none"
        /\ Forward(w) = "heap" => heap = "live" /\ ~Unmoved
  BY WriteReaches DEF WriteInScope, WriteInBlock, Where, IInv, MoveTypeOK
<1>2. Forward(w) \in Where
  BY DEF IInv, MoveTypeOK, Forward, Where
<1>3. ASSUME NEW o \in Owner PROVE Counted(o)' <=> Counted(o)
  BY <1>1 DEF WriteAt, Counted, InCall, Forward, callVars
<1>4. Owners' = Owners
  BY <1>3 DEF Owners, Owner
<1>5. MoveTypeOK' /\ CallsApart'
  BY <1>1, <1>2 DEF IInv, MoveTypeOK, CallsApart, WriteAt, callVars
<1>6. Alone' /\ WhereItIs'
  BY <1>1, <1>2 DEF IInv, MoveTypeOK, Alone, WhereItIs, Unmoved, WriteAt, callVars, Where
<1>7. ASSUME NEW u \in Thread PROVE CallWellFormed(u)'
  BY <1>1 DEF IInv, CallWellFormed, WriteAt, callVars, Releasing, Copying
<1> QED
  BY <1>1, <1>3, <1>4, <1>5, <1>6, <1>7 DEF IInv, OwnersLive, CountIsOwners, WriteAt


-----------------------------------------------------------------------------
(* _Block_byref_copy *)

LEMMA FirstIsFirst ==
  ASSUME IInv, NEW t \in Thread, First(t)
  PROVE  t = Main /\ arg[t] = "stack" /\ scope = "open" /\ heap = "none"
<1>1. Forward(arg[t]) = "stack"
  BY ForwardsToLive DEF IInv, MoveTypeOK, First, CountAt, Forward, Where
<1>2. arg[t] = "stack" /\ forwarding = "stack"
  BY <1>1 DEF IInv, MoveTypeOK, Forward, Where
<1>3. t = Main /\ scope = "open"
  BY <1>2 DEF IInv, CallWellFormed, Copying, First
<1>4. heap = "none"
  BY <1>2, <1>3 DEF IInv, WhereItIs, First
<1> QED
  BY <1>2, <1>3, <1>4

LEMMA FirstInv ==
  ASSUME IInv, NEW t \in Thread, First(t)
  PROVE  IInv'
<1>0. t = Main /\ arg[t] = "stack" /\ scope = "open" /\ heap = "none" /\ forwarding = "stack"
  BY FirstIsFirst DEF IInv, WhereItIs
<1>1. MoveTypeOK'
  BY DEF IInv, MoveTypeOK, First, Goto, At, Where
<1>2. CallsApart'
  BY DEF IInv, CallsApart, First, Goto
<1>3. ASSUME NEW u \in Thread PROVE CallWellFormed(u)'
  BY <1>0, OwnersAssumption
     DEF IInv, MoveTypeOK, CallWellFormed, First, Goto, Copying, Releasing
<1>4. Alone'
  BY <1>0, ThreadsAssumption DEF IInv, MoveTypeOK, Alone, Unmoved, First, Goto, Where
<1>5. WhereItIs'
  BY <1>0, ThreadsAssumption DEF IInv, MoveTypeOK, Alone, WhereItIs, Unmoved, First, Goto
<1>6. for[t] \in Holder
  BY DEF IInv, CallWellFormed, Copying, First
<1>7. ASSUME NEW o \in Owner PROVE Counted(o)' <=> o \in {for[t], Scope}
  BY <1>0, <1>6, ThreadsAssumption, OwnersAssumption
     DEF IInv, MoveTypeOK, Alone, Unmoved, CallWellFormed, Counted, InCall, Forward, First, Goto
<1>8. Owners' = {for[t], Scope}
  BY <1>6, <1>7 DEF Owners, Owner
<1>9. Cardinality({for[t], Scope}) = 2
  <2>1. Cardinality({Scope}) = 1 /\ IsFiniteSet({Scope})
    BY FS_Singleton
  <2>2. for[t] \notin {Scope} /\ {for[t], Scope} = {Scope} \cup {for[t]}
    BY <1>6, OwnersAssumption
  <2> QED
    BY <2>1, <2>2, FS_AddElement
<1>10. CountIsOwners'
  BY <1>8, <1>9 DEF CountIsOwners, First
<1> QED
  BY <1>1, <1>2, <1>3, <1>4, <1>5, <1>10 DEF IInv, OwnersLive, First

LEMMA PublishInv ==
  ASSUME IInv, NEW t \in Thread, Publish(t)
  PROVE  IInv'
<1>0. t = Main /\ arg[t] = "stack" /\ heap = "live"
  BY DEF IInv, CallWellFormed, WhereItIs, Publish
<1>1. MoveTypeOK'
  BY DEF IInv, MoveTypeOK, Publish, Goto, At, Where
<1>2. CallsApart'
  BY DEF IInv, CallsApart, Publish, Goto
<1>3. ASSUME NEW u \in Thread PROVE CallWellFormed(u)'
  BY <1>0 DEF IInv, MoveTypeOK, CallWellFormed, Publish, Goto, Copying, Releasing
<1>4. Alone'
  BY <1>0 DEF IInv, MoveTypeOK, Alone, Unmoved, Publish, Goto
<1>5. WhereItIs'
  BY <1>0 DEF IInv, MoveTypeOK, WhereItIs, Unmoved, Publish, Goto
<1>6. ASSUME NEW o \in Owner PROVE Counted(o)' <=> Counted(o)
  BY <1>0 DEF IInv, MoveTypeOK, Alone, Unmoved, Counted, InCall, Forward, Publish, Goto
<1>7. Owners' = Owners
  BY <1>6 DEF Owners, Owner
<1> QED
  BY <1>1, <1>2, <1>3, <1>4, <1>5, <1>6, <1>7 DEF IInv, OwnersLive, CountIsOwners, Publish

LEMMA PayloadInv ==
  ASSUME IInv, NEW t \in Thread, Payload(t)
  PROVE  IInv'
<1>0. t = Main /\ arg[t] = "stack" /\ heap = "live"
  BY DEF IInv, CallWellFormed, WhereItIs, Payload
<1>1. MoveTypeOK'
  BY DEF IInv, MoveTypeOK, Payload, Goto, At, Where
<1>2. CallsApart'
  BY DEF IInv, CallsApart, Payload, Goto
<1>3. ASSUME NEW u \in Thread PROVE CallWellFormed(u)'
  BY <1>0 DEF IInv, MoveTypeOK, CallWellFormed, Payload, Goto, Copying, Releasing
<1>4. Alone'
  BY <1>0 DEF IInv, MoveTypeOK, Alone, Unmoved, Payload, Goto
<1>5. WhereItIs'
  BY <1>0 DEF IInv, MoveTypeOK, Alone, WhereItIs, Unmoved, Payload, Goto, Where
<1>6. ASSUME NEW o \in Owner PROVE Counted(o)' <=> Counted(o)
  BY <1>0 DEF IInv, MoveTypeOK, Counted, InCall, Forward, Payload, Goto
<1>7. Owners' = Owners
  BY <1>6 DEF Owners, Owner
<1> QED
  BY <1>1, <1>2, <1>3, <1>4, <1>5, <1>6, <1>7 DEF IInv, OwnersLive, CountIsOwners, Payload

LEMMA AgainInv ==
  ASSUME IInv, NEW t \in Thread, Again(t)
  PROVE  IInv'
<1>0. Forward(arg[t]) = "heap" /\ heap = "live" /\ forwarding = "heap" /\ ~Unmoved
  <2>1. Forward(arg[t]) = "heap"
    BY DEF IInv, MoveTypeOK, Again, CountAt, Forward, Where
  <2> QED
    BY <2>1, ForwardsToLive DEF Again
<1>1. MoveTypeOK'
  BY DEF IInv, MoveTypeOK, Again, Goto, At, Where
<1>2. CallsApart'
  BY DEF IInv, CallsApart, Again, Goto
<1>3. ASSUME NEW u \in Thread PROVE CallWellFormed(u)'
  BY <1>0, OwnersAssumption DEF IInv, MoveTypeOK, CallWellFormed, Again, Goto, Copying, Releasing
<1>4. Alone'
  BY <1>0 DEF IInv, MoveTypeOK, Alone, Unmoved, Again, Goto
<1>5. WhereItIs'
  BY <1>0 DEF IInv, MoveTypeOK, WhereItIs, Unmoved, Again, Goto
<1>6. ASSUME NEW o \in Owner PROVE Counted(o)' <=> Counted(o)
  BY <1>0 DEF IInv, MoveTypeOK, Counted, InCall, Forward, Again, Goto
<1>7. Owners' = Owners
  BY <1>6 DEF Owners, Owner
<1> QED
  BY <1>1, <1>2, <1>3, <1>4, <1>5, <1>6, <1>7 DEF IInv, OwnersLive, CountIsOwners, Again

LEMMA IncrementInv ==
  ASSUME IInv, NEW t \in Thread, Increment(t)
  PROVE  IInv'
<1>0. forwarding = "heap" /\ Forward(arg[t]) = "heap" /\ heap = "live" /\ ~Unmoved
  <2>1. Forward(arg[t]) = "heap"
    BY DEF IInv, MoveTypeOK, WhereItIs, Increment, Forward, Where
  <2> QED
    BY <2>1, ForwardsToLive DEF Increment
<1>1. MoveTypeOK'
  BY DEF IInv, MoveTypeOK, Increment, Goto, At, Where
<1>2. CallsApart'
  BY DEF IInv, CallsApart, Increment, Goto
<1>3. ASSUME NEW u \in Thread PROVE CallWellFormed(u)'
  BY <1>0, OwnersAssumption
     DEF IInv, MoveTypeOK, CallWellFormed, Increment, Goto, Copying, Releasing
<1>4. Alone'
  BY <1>0 DEF IInv, MoveTypeOK, Alone, Unmoved, Increment, Goto
<1>5. WhereItIs'
  BY <1>0 DEF IInv, MoveTypeOK, WhereItIs, Unmoved, Increment, Goto
<1>6. for[t] \in Holder /\ field[for[t]] = "none"
  BY DEF IInv, CallWellFormed, CallsApart, Copying, Increment
<1>7. ~Counted(for[t])
  BY <1>6, OwnersAssumption DEF IInv, CallsApart, Counted, InCall, Increment
<1>8. ASSUME NEW o \in Owner PROVE Counted(o)' <=> Counted(o) \/ o = for[t]
  BY <1>0, <1>6 DEF IInv, MoveTypeOK, Counted, InCall, Forward, Increment, Goto
<1>9. Owners' = Owners \cup {for[t]} /\ for[t] \notin Owners
  BY <1>6, <1>7, <1>8 DEF Owners, Owner
<1>10. CountIsOwners'
  BY <1>9, OwnersFinite, FS_AddElement DEF IInv, CountIsOwners, Increment
<1> QED
  BY <1>0, <1>1, <1>2, <1>3, <1>4, <1>5, <1>10 DEF IInv, OwnersLive, Increment

LEMMA ReturnInv ==
  ASSUME IInv, NEW t \in Thread, Return(t)
  PROVE  IInv'
<1>0. forwarding = "heap" /\ Forward(arg[t]) = "heap" /\ heap = "live" /\ ~Unmoved
  <2>1. Forward(arg[t]) = "heap"
    BY DEF IInv, MoveTypeOK, WhereItIs, Return, Forward, Where
  <2> QED
    BY <2>1, ForwardsToLive DEF Return
<1>1. for[t] \in Holder
  BY DEF IInv, CallWellFormed, Copying, Return
<1>2. MoveTypeOK'
  BY <1>0, <1>1 DEF IInv, MoveTypeOK, Return, Leave, At, Where
<1>3. CallsApart'
  BY <1>0, <1>1, OwnersAssumption DEF IInv, MoveTypeOK, CallsApart, Return, Leave
<1>4. ASSUME NEW u \in Thread PROVE CallWellFormed(u)'
  BY <1>0, <1>1, OwnersAssumption
     DEF IInv, MoveTypeOK, CallWellFormed, CallsApart, Return, Leave, Copying, Releasing
<1>5. Alone'
  BY <1>0 DEF IInv, MoveTypeOK, Alone, Unmoved, Return, Leave
<1>6. WhereItIs'
  BY <1>0 DEF IInv, MoveTypeOK, WhereItIs, Unmoved, Return, Leave
<1>7. ASSUME NEW o \in Owner PROVE Counted(o)' <=> Counted(o)
  <2>1. CASE o = for[t]
    BY <2>1, <1>0, <1>1 DEF IInv, MoveTypeOK, Counted, InCall, Forward, Return, Leave
  <2>2. CASE o # for[t]
    BY <2>2, <1>0, <1>1, OwnersAssumption
       DEF IInv, MoveTypeOK, Counted, InCall, Forward, Return, Leave, Owner
  <2> QED
    BY <2>1, <2>2
<1>8. Owners' = Owners
  BY <1>7 DEF Owners, Owner
<1> QED
  BY <1>2, <1>3, <1>4, <1>5, <1>6, <1>7, <1>8 DEF IInv, OwnersLive, CountIsOwners, Return


-----------------------------------------------------------------------------
(* _Block_byref_release *)

LEMMA LoadInv ==
  ASSUME IInv, NEW t \in Thread, Load(t)
  PROVE  IInv'
<1>1. CASE Forward(arg[t]) = "heap"
  <2>0. forwarding = "heap" /\ heap = "live" /\ ~Unmoved
    <3>1. Counted(for[t]) /\ for[t] \in Owner
      BY <1>1 DEF IInv, CallWellFormed, Releasing, Counted, InCall, Load
    <3>2. heap = "live"
      BY <3>1 DEF IInv, OwnersLive
    <3>3. t # Main => ~Unmoved
      BY <3>2 DEF IInv, Alone, Load
    <3>4. t = Main => ~Unmoved
      BY <3>2 DEF Unmoved, Load
    <3> QED
      BY <3>2, <3>3, <3>4 DEF IInv, WhereItIs, Unmoved
  <2>1. MoveTypeOK'
    BY <1>1 DEF IInv, MoveTypeOK, Load, Goto, At, Where
  <2>2. CallsApart'
    BY <1>1 DEF IInv, CallsApart, Load, Goto
  <2>3. ASSUME NEW u \in Thread PROVE CallWellFormed(u)'
    BY <1>1 DEF IInv, MoveTypeOK, CallWellFormed, Load, Goto, Copying, Releasing
  <2>4. Alone'
    BY <1>1, <2>0, ThreadsAssumption DEF IInv, MoveTypeOK, Alone, Unmoved, Load, Goto
  <2>5. WhereItIs'
    BY <1>1, <2>0, ThreadsAssumption DEF IInv, MoveTypeOK, WhereItIs, Unmoved, Load, Goto
  <2>6. ASSUME NEW o \in Owner PROVE Counted(o)' <=> Counted(o)
    BY <1>1, <2>0, ThreadsAssumption DEF IInv, MoveTypeOK, Counted, InCall, Forward, Load, Goto
  <2>7. Owners' = Owners
    BY <2>6 DEF Owners, Owner
  <2> QED
    BY <2>1, <2>2, <2>3, <2>4, <2>5, <2>6, <2>7 DEF IInv, OwnersLive, CountIsOwners, Load
<1>2. CASE Forward(arg[t]) = "stack"
  <2>1. MoveTypeOK'
    BY <1>2 DEF IInv, MoveTypeOK, Load, Leave, At, Where
  <2>2. CallsApart'
    BY <1>2, OwnersAssumption DEF IInv, MoveTypeOK, CallsApart, Load, Leave
  <2>3. ASSUME NEW u \in Thread PROVE CallWellFormed(u)'
    BY <1>2, OwnersAssumption
       DEF IInv, MoveTypeOK, CallWellFormed, Load, Leave, Copying, Releasing
  <2>4. Alone'
    BY <1>2, ThreadsAssumption DEF IInv, MoveTypeOK, Alone, Unmoved, Load, Leave
  <2>5. WhereItIs'
    BY <1>2, ThreadsAssumption DEF IInv, MoveTypeOK, WhereItIs, Unmoved, Load, Leave
  <2>6. ASSUME NEW o \in Owner PROVE Counted(o)' <=> Counted(o)
    BY <1>2, OwnersAssumption
       DEF IInv, MoveTypeOK, Counted, InCall, Forward, Load, Leave, Owner
  <2>7. Owners' = Owners
    BY <2>6 DEF Owners, Owner
  <2> QED
    BY <2>1, <2>2, <2>3, <2>4, <2>5, <2>6, <2>7 DEF IInv, OwnersLive, CountIsOwners, Load
<1> QED
  BY <1>1, <1>2 DEF IInv, MoveTypeOK, Forward, Where

\* A call that is about to decrement has a reference of its own to give back.
LEMMA DecrementsOwn ==
  ASSUME IInv, NEW t \in Thread, pc[t] = "decrement"
  PROVE  /\ for[t] \in Owners /\ for[t] \in Owner
         /\ heap = "live" /\ forwarding = "heap" /\ ~Unmoved
         /\ refcount > 0
         /\ Cardinality(Owners \ {for[t]}) = refcount - 1
<1>1. for[t] \in Owner /\ Counted(for[t])
  BY DEF IInv, CallWellFormed, Releasing, Counted, InCall
<1>2. heap = "live"
  BY <1>1 DEF IInv, OwnersLive
<1>3. t # Main => ~Unmoved
  BY <1>2 DEF IInv, Alone
<1>4. ~Unmoved
  BY <1>2, <1>3 DEF Unmoved
<1>5. for[t] \in Owners
  BY <1>1 DEF Owners
<1>6. Owners # {}
  BY <1>5
<1>7. refcount > 0
  BY <1>6, OwnersFinite, FS_EmptySet DEF IInv, MoveTypeOK, CountIsOwners
<1> QED
  BY <1>1, <1>2, <1>4, <1>5, <1>7, OwnersFinite, FS_RemoveElement
     DEF IInv, WhereItIs, CountIsOwners

\* The owner that was given back is an owner no more.
LEMMA GivenBack ==
  ASSUME IInv, NEW t \in Thread, pc[t] = "decrement",
         for' = [for EXCEPT ![t] = None], pc'[t] \in {"idle", "free"},
         \A u \in Thread \ {t} : pc'[u] = pc[u], heap' # "none",
         UNCHANGED <<scope, forwarding, field, arg>>
  PROVE  Owners' = Owners \ {for[t]}
<1>1. for[t] \in Owner /\ heap = "live"
  BY DecrementsOwn
<1>2. for[t] \in Holder => field[for[t]] = "none"
  BY DEF IInv, CallsApart
<1>3. for[t] = Scope => scope # "open"
  BY DEF IInv, CallWellFormed
<1>4. ASSUME NEW o \in Owner, o = for[t] PROVE ~Counted(o)'
  BY <1>4, <1>1, <1>2, <1>3, OwnersAssumption
     DEF IInv, MoveTypeOK, CallsApart, Counted, InCall, Owner
<1>5. ASSUME NEW o \in Owner, o # for[t] PROVE Counted(o)' <=> Counted(o)
  BY <1>1, <1>5, OwnersAssumption
     DEF IInv, MoveTypeOK, Counted, InCall, Forward, Owner
<1> QED
  BY <1>4, <1>5 DEF Owners, Owner

LEMMA SharedInv ==
  ASSUME IInv, NEW t \in Thread, Shared(t)
  PROVE  IInv'
<1>0. pc[t] = "decrement" /\ heap = "live" /\ ~Unmoved
  BY DecrementsOwn DEF Shared
<1>1. refcount' = refcount - 1
  <2>1. refcount > 0
    BY <1>0, DecrementsOwn
  <2> QED
    BY <2>1 DEF IInv, MoveTypeOK, Shared
<1>2. MoveTypeOK'
  BY <1>1, DecrementsOwn DEF IInv, MoveTypeOK, Shared, Leave, At
<1>3. CallsApart'
  BY OwnersAssumption DEF IInv, MoveTypeOK, CallsApart, Shared, Leave
<1>4. ASSUME NEW u \in Thread PROVE CallWellFormed(u)'
  BY OwnersAssumption DEF IInv, MoveTypeOK, CallWellFormed, Shared, Leave, Copying, Releasing
<1>5. Alone' /\ WhereItIs'
  BY <1>0 DEF IInv, MoveTypeOK, Alone, WhereItIs, Unmoved, Shared, Leave
<1>6. Owners' = Owners \ {for[t]}
  <2>1. /\ for' = [for EXCEPT ![t] = None] /\ pc'[t] = "idle"
        /\ \A u \in Thread \ {t} : pc'[u] = pc[u]
    BY DEF IInv, MoveTypeOK, Shared, Leave
  <2> QED
    BY <1>0, <2>1, GivenBack DEF Shared, Leave
<1>7. OwnersLive'
  BY <1>0 DEF OwnersLive, Shared
<1>8. CountIsOwners'
  BY <1>0, <1>1, <1>6, DecrementsOwn DEF CountIsOwners
<1> QED
  BY <1>2, <1>3, <1>4, <1>5, <1>7, <1>8 DEF IInv

LEMMA LastIsLast ==
  ASSUME IInv, NEW t \in Thread, Last(t)
  PROVE  Owners = {for[t]} /\ Owners' = {}
<1>1. pc[t] = "decrement" /\ refcount = 1
  BY DEF Last
<1>2. Cardinality(Owners \ {for[t]}) = 0
  BY <1>1, DecrementsOwn
<1>3. Owners \ {for[t]} = {}
  BY <1>2, OwnersFinite, FS_EmptySet, FS_RemoveElement
<1>4. Owners' = Owners \ {for[t]}
  <2>1. /\ for' = [for EXCEPT ![t] = None] /\ pc'[t] = "free" /\ heap' # "none"
        /\ \A u \in Thread \ {t} : pc'[u] = pc[u]
    BY DEF IInv, MoveTypeOK, Last
  <2> QED
    BY <1>1, <2>1, GivenBack DEF Last
<1> QED
  BY <1>1, <1>3, <1>4, DecrementsOwn

LEMMA LastInv ==
  ASSUME IInv, NEW t \in Thread, Last(t)
  PROVE  IInv'
<1>0. heap = "live" /\ ~Unmoved /\ forwarding = "heap"
  BY DecrementsOwn DEF Last
<1>1. MoveTypeOK'
  BY DEF IInv, MoveTypeOK, Last, At
<1>2. CallsApart'
  BY OwnersAssumption DEF IInv, MoveTypeOK, CallsApart, Last
<1>3. ASSUME NEW u \in Thread PROVE CallWellFormed(u)'
  BY OwnersAssumption DEF IInv, MoveTypeOK, CallWellFormed, Last, Copying, Releasing
<1>4. Alone' /\ WhereItIs'
  BY <1>0 DEF IInv, MoveTypeOK, Alone, WhereItIs, Unmoved, Last
<1>5. OwnersLive'
  BY LastIsLast DEF OwnersLive, Owners, Owner
<1>6. CountIsOwners'
  BY LastIsLast, FS_EmptySet DEF CountIsOwners, Last
<1> QED
  BY <1>1, <1>2, <1>3, <1>4, <1>5, <1>6 DEF IInv

LEMMA FreeCopyInv ==
  ASSUME IInv, NEW t \in Thread, FreeCopy(t)
  PROVE  IInv'
<1>0. heap \in {"dying", "freed"} /\ Owners = {}
  BY DEF IInv, WhereItIs, OwnersLive, Owners, FreeCopy
<1>1. MoveTypeOK'
  BY DEF IInv, MoveTypeOK, FreeCopy, Leave, At, Where
<1>2. CallsApart'
  BY OwnersAssumption DEF IInv, MoveTypeOK, CallsApart, FreeCopy, Leave
<1>3. ASSUME NEW u \in Thread PROVE CallWellFormed(u)'
  BY OwnersAssumption
     DEF IInv, MoveTypeOK, CallWellFormed, FreeCopy, Leave, Copying, Releasing
<1>4. Alone' /\ WhereItIs'
  BY <1>0 DEF IInv, MoveTypeOK, Alone, WhereItIs, Unmoved, FreeCopy, Leave, Where
<1>5. ASSUME NEW o \in Owner PROVE Counted(o)' <=> Counted(o)
  BY <1>0, OwnersAssumption DEF IInv, MoveTypeOK, Counted, InCall, Forward, FreeCopy, Leave, Owner
<1>6. Owners' = Owners
  BY <1>5 DEF Owners, Owner
<1>7. OwnersLive'
  BY <1>0, <1>6 DEF OwnersLive, Owners, Owner
<1> QED
  BY <1>1, <1>2, <1>3, <1>4, <1>6, <1>7 DEF IInv, CountIsOwners, FreeCopy

-----------------------------------------------------------------------------

LEMMA StepInv == IInv /\ [MoveNext]_moveVars => IInv'
<1> SUFFICES ASSUME IInv, [MoveNext]_moveVars PROVE IInv'
  OBVIOUS
<1>1. CASE ProgramStep
  BY <1>1, EnterInv, DisposeInv, CloseScopeInv, LeaveFrameInv, WriteInv, ThreadsAssumption
     DEF ProgramStep
<1>2. ASSUME NEW t \in Thread, RuntimeStep(t) PROVE IInv'
  BY <1>2, FirstInv, PublishInv, PayloadInv, AgainInv, IncrementInv, ReturnInv,
     LoadInv, SharedInv, LastInv, FreeCopyInv DEF RuntimeStep
<1>3. CASE UNCHANGED moveVars
  <2>1. \A o \in Owner : Counted(o)' <=> Counted(o)
    BY <1>3 DEF Counted, InCall, Forward, moveVars, callVars
  <2>2. Owners' = Owners
    BY <2>1 DEF Owners, Owner
  <2>3. MoveTypeOK' /\ CallsApart' /\ Alone' /\ WhereItIs'
    BY <1>3 DEF IInv, MoveTypeOK, CallsApart, Alone, WhereItIs, Unmoved, moveVars, callVars
  <2>4. \A t \in Thread : CallWellFormed(t)'
    BY <1>3 DEF IInv, CallWellFormed, Copying, Releasing, moveVars, callVars
  <2> QED
    BY <1>3, <2>1, <2>2, <2>3, <2>4 DEF IInv, OwnersLive, CountIsOwners, moveVars
<1> QED
  BY <1>1, <1>2, <1>3 DEF MoveNext

THEOREM VariableInvariance == MoveSpec => []IInv
<1> QED
  BY InitInv, StepInv, PTL DEF MoveSpec

LEMMA IInvSafe == IInv => VariableSafe
<1> SUFFICES ASSUME IInv PROVE VariableSafe
  OBVIOUS
<1>1. \A h \in Holder : field[h] = "heap" => heap = "live" /\ ~Unmoved
  BY DEF IInv, Alone, OwnersLive, Counted, Owner
<1>2. scope = "open" /\ heap # "none" => heap = "live"
  BY DEF IInv, OwnersLive, Counted, Owner
<1>3. scope = "open" => (forwarding = "heap" => heap = "live")
  BY <1>2 DEF IInv, WhereItIs
<1>4. ASSUME NEW t \in Thread,
             pc[t] \in {"check", "publish", "payload", "increment", "return", "load"}
      PROVE  /\ arg[t] = "stack" => scope # "closed"
             /\ Forward(arg[t]) = "heap" => heap = "live"
  <2>1. CASE pc[t] = "load"
    <3>1. arg[t] = "stack" => scope = "closing"
      BY <2>1 DEF IInv, CallWellFormed
    <3>2. Forward(arg[t]) = "heap" => heap = "live"
      BY <2>1 DEF IInv, CallWellFormed, Releasing, OwnersLive, Counted, InCall
    <3> QED
      BY <3>1, <3>2
  <2>2. CASE pc[t] # "load"
    BY <1>4, <2>2, <1>2, <1>3, ForwardsToLive
       DEF IInv, CallWellFormed, Copying, WhereItIs
  <2> QED
    BY <2>1, <2>2
<1>5. \A t \in Thread : pc[t] = "decrement" => heap = "live"
  BY DecrementsOwn
<1>6. NothingDangles
  BY <1>1, <1>3, <1>4, <1>5 DEF NothingDangles, IInv, MoveTypeOK
<1>7. scope = "open" /\ pc[Main] = "idle" => val[forwarding] = written
  BY <1>2 DEF IInv, Alone, WhereItIs, Unmoved
<1>8. \A h \in Holder : field[h] # "none" => val[Forward(field[h])] = written
  BY <1>1 DEF IInv, MoveTypeOK, WhereItIs, Forward
<1> QED
  BY <1>6, <1>7, <1>8 DEF IInv, WhereItIs, VariableSafe, OneValue

\* Whatever the number of threads and Blocks, the count of a __block variable
\* is the number of its owners, nobody reaches it once it is freed, and all
\* who refer to it find the value written last.
THEOREM VariableIsSafe == MoveSpec => []VariableSafe
<1> QED
  BY VariableInvariance, IInvSafe, PTL


-----------------------------------------------------------------------------
(* Refinement of AllocatedVariables *)

LEMMA UsedIsHere ==
  ASSUME IInv
  PROVE  Allocated!Used(Scope) <=> scope = "open" \/ \E h \in Holder : field[h] # "none"
<1> QED
  BY OwnersAssumption DEF Allocated!Used

LEMMA MapsInit == MoveInit => Allocated!Init
<1> QED
  BY OwnersAssumption, ThreadsAssumption
     DEF MoveInit, Allocated!Init, CurrentValue, Unmoved, Where

LEMMA SeenUnchanged ==
  ASSUME CurrentValue' = CurrentValue, field' = field, (scope' = "open") = (scope = "open")
  PROVE  UNCHANGED Allocated!vars
<1> QED
  BY DEF Allocated!vars

LEMMA Stutters ==
  ASSUME IInv, IInv', NEW t \in Thread,
         \/ \E h \in Holder : CopyInScope(h) \/ \E g \in Holder : CopyInBlock(t, g, h)
         \/ First(t) \/ Publish(t) \/ Payload(t) \/ Again(t) \/ Increment(t) \/ Load(t)
         \/ Shared(t) \/ FreeCopy(t)
  PROVE  UNCHANGED Allocated!vars
<1>1. field' = field /\ scope' = scope
  BY DEF CopyInScope, CopyInBlock, First, Publish, Payload, Again, Increment, Load, Shared, FreeCopy
<1>2. CurrentValue' = CurrentValue
  <2>1. CASE \E h \in Holder : CopyInScope(h) \/ \E g \in Holder : CopyInBlock(t, g, h)
    <3>1. UNCHANGED <<heap, scope, val>>
      BY <2>1 DEF CopyInScope, CopyInBlock
    <3>2. PICK u \in Thread : pc[u] = "idle" /\ pc' = [pc EXCEPT ![u] = "check"]
      BY <2>1, ThreadsAssumption DEF CopyInScope, CopyInBlock, Enter
    <3> QED
      BY <3>1, <3>2, ThreadsAssumption DEF IInv, MoveTypeOK, CurrentValue, Unmoved
  <2>2. CASE First(t)
    <3>1. t = Main /\ heap = "none" /\ scope = "open"
      BY <2>2, FirstIsFirst
    <3> QED
      BY <2>2, <3>1 DEF IInv, MoveTypeOK, CurrentValue, Unmoved, First, Goto, Where
  <2>3. CASE Publish(t)
    BY <2>3, ThreadsAssumption DEF IInv, MoveTypeOK, CallWellFormed, CurrentValue, Unmoved, Publish, Goto
  <2>4. CASE Payload(t)
    BY <2>4, ThreadsAssumption
       DEF IInv, MoveTypeOK, CallWellFormed, WhereItIs, CurrentValue, Unmoved, Payload, Goto, Where
  <2>5. CASE Again(t) \/ Increment(t)
    BY <2>5, ThreadsAssumption
       DEF IInv, MoveTypeOK, CurrentValue, Unmoved, Again, Increment, Goto
  <2>6. CASE Load(t)
    BY <2>6, ThreadsAssumption DEF IInv, MoveTypeOK, CurrentValue, Unmoved, Load, Goto, Leave
  <2>7. CASE Shared(t)
    BY <2>7, ThreadsAssumption DEF IInv, MoveTypeOK, CurrentValue, Unmoved, Shared, Leave
  <2>8. CASE FreeCopy(t)
    BY <2>8 DEF IInv, WhereItIs, CurrentValue, FreeCopy
  <2> QED
    BY <2>1, <2>2, <2>3, <2>4, <2>5, <2>6, <2>7, <2>8
<1> QED
  BY <1>1, <1>2, SeenUnchanged

LEMMA MapsReturn ==
  ASSUME IInv, NEW t \in Thread, Return(t)
  PROVE  Allocated!Copy(for[t], Scope) /\ for[t] \in Holder
<1>1. for[t] \in Holder /\ field[for[t]] = "none"
  BY DEF IInv, CallWellFormed, CallsApart, Copying, Return
<1>2. Forward(arg[t]) = "heap"
  BY DEF IInv, MoveTypeOK, WhereItIs, Return, Forward, Where
<1>3. scope = "open" \/ \E u \in Holder : field[u] # "none"
  BY DEF IInv, MoveTypeOK, CallWellFormed, Copying, Return, Where
<1>4. CurrentValue' = CurrentValue
  BY <1>2, ThreadsAssumption DEF IInv, MoveTypeOK, CurrentValue, Unmoved, Return, Leave
<1>5. [h \in Holder |-> IF field'[h] = "none" THEN None ELSE Scope]
        = [[h \in Holder |-> IF field[h] = "none" THEN None ELSE Scope] EXCEPT ![for[t]] = Scope]
  BY <1>1, <1>2 DEF IInv, MoveTypeOK, Return
<1> QED
  BY <1>1, <1>3, <1>4, <1>5, OwnersAssumption DEF Allocated!Copy, Return

LEMMA MapsDispose ==
  ASSUME IInv, NEW t \in Thread, NEW h \in Holder, DisposeBlock(t, h)
  PROVE  Allocated!Release(h)
<1>1. CurrentValue' = CurrentValue
  BY ThreadsAssumption DEF IInv, MoveTypeOK, CurrentValue, Unmoved, DisposeBlock, Enter
<1>2. [k \in Holder |-> IF field'[k] = "none" THEN None ELSE Scope]
        = [[k \in Holder |-> IF field[k] = "none" THEN None ELSE Scope] EXCEPT ![h] = None]
  BY DEF IInv, MoveTypeOK, DisposeBlock
<1> QED
  BY <1>1, <1>2, OwnersAssumption DEF Allocated!Release, DisposeBlock

LEMMA MapsCloseScope ==
  ASSUME IInv, CloseScope
  PROVE  Allocated!CloseScope
<1>1. CurrentValue' = CurrentValue
  BY ThreadsAssumption DEF IInv, MoveTypeOK, CurrentValue, Unmoved, CloseScope, Enter
<1> QED
  BY <1>1 DEF Allocated!CloseScope, CloseScope

LEMMA MapsLeaveFrame ==
  ASSUME IInv, LeaveFrame
  PROVE  Allocated!Recover({Scope}) \/ UNCHANGED Allocated!vars
<1>1. CASE heap = "none"
  <2>1. ~Allocated!Used(Scope)
    BY <1>1, UsedIsHere DEF IInv, Alone, Unmoved, LeaveFrame
  <2>2. CurrentValue' = Garbage
    BY <1>1 DEF CurrentValue, LeaveFrame
  <2> QED
    BY <1>1, <2>1, <2>2 DEF Allocated!Recover, LeaveFrame
<1>2. CASE heap # "none"
  BY <1>2, SeenUnchanged DEF CurrentValue, Unmoved, LeaveFrame, callVars
<1> QED
  BY <1>1, <1>2

LEMMA MapsWrite ==
  ASSUME IInv, IInv', WriteInScope \/ \E h \in Holder : WriteInBlock(h)
  PROVE  Allocated!Write(Scope)
<1>1. PICK w \in Where :
        /\ WriteAt(w)
        /\ Forward(w) = "stack" => heap = "none"
        /\ Forward(w) = "heap" => heap = "live" /\ ~Unmoved
        /\ scope = "open" \/ \E h \in Holder : field[h] # "none"
  BY WriteReaches DEF WriteInScope, WriteInBlock, Where, IInv, MoveTypeOK
<1>2. Allocated!Used(Scope)
  BY <1>1, UsedIsHere
<1>3. heap \in {"none", "live"} /\ (heap = "none" => scope = "open")
  BY <1>1 DEF IInv, Alone, Unmoved, Forward, Where, MoveTypeOK
<1>4. CurrentValue = written
  BY <1>3 DEF IInv, Alone, WhereItIs, Unmoved, CurrentValue
<1>5. CurrentValue' = written'
  BY <1>1, <1>3 DEF IInv, Alone, WhereItIs, Unmoved, CurrentValue, WriteAt, callVars
<1>6. written' = 1 - written /\ UNCHANGED <<field, scope>>
  BY <1>1 DEF WriteAt
<1> QED
  BY <1>2, <1>4, <1>5, <1>6 DEF Allocated!Write

LEMMA MapsLast ==
  ASSUME IInv, NEW t \in Thread, Last(t)
  PROVE  Allocated!Recover({Scope})
<1>1. Owners = {for[t]} /\ pc[t] = "decrement" /\ heap = "live"
  BY LastIsLast, DecrementsOwn DEF Last
<1>2. \A h \in Holder : field[h] = "none"
  BY <1>1 DEF IInv, MoveTypeOK, CallsApart, Owners, Owner, Counted
<1>3. scope # "open"
  BY <1>1 DEF IInv, CallWellFormed, Owners, Owner, Counted
<1>4. ~Allocated!Used(Scope)
  BY <1>2, <1>3, UsedIsHere
<1>5. CurrentValue' = Garbage
  BY DEF CurrentValue, Last
<1> QED
  BY <1>4, <1>5 DEF Allocated!Recover, Last

\* The steps of _Block_byref_copy and _Block_byref_release implement a variable
\* in allocated storage that is recovered after its last use.
THEOREM VariableRefinement == MoveSpec => VariableAllocated
<1>1. IInv /\ IInv' /\ [MoveNext]_moveVars => [Allocated!Next]_Allocated!vars
  <2> SUFFICES ASSUME IInv, IInv', [MoveNext]_moveVars
               PROVE  Allocated!Next \/ UNCHANGED Allocated!vars
    OBVIOUS
  <2>1. ASSUME NEW t \in Thread, Return(t) PROVE Allocated!Next
    BY <2>1, MapsReturn DEF Allocated!Next
  <2>2. ASSUME NEW t \in Thread, NEW h \in Holder, DisposeBlock(t, h) PROVE Allocated!Next
    BY <2>2, MapsDispose DEF Allocated!Next
  <2>3. CASE CloseScope
    BY <2>3, MapsCloseScope DEF Allocated!Next
  <2>4. CASE LeaveFrame
    BY <2>4, MapsLeaveFrame DEF Allocated!Next
  <2>5. CASE WriteInScope \/ \E h \in Holder : WriteInBlock(h)
    BY <2>5, MapsWrite DEF Allocated!Next
  <2>6. ASSUME NEW t \in Thread, Last(t) PROVE Allocated!Next
    BY <2>6, MapsLast DEF Allocated!Next
  <2>7. CASE UNCHANGED moveVars
    BY <2>7, SeenUnchanged DEF moveVars, callVars, CurrentValue, Unmoved
  <2> QED
    BY <2>1, <2>2, <2>3, <2>4, <2>5, <2>6, <2>7, Stutters, ThreadsAssumption
       DEF MoveNext, ProgramStep, RuntimeStep
<1> QED
  BY <1>1, MapsInit, VariableInvariance, PTL DEF MoveSpec, VariableAllocated, Allocated!Spec

================================================================================
