---------------------------- MODULE MCBlockRuntime ----------------------------
(* Small instances of BlockRuntime. *)
EXTENDS BlockRuntime, TLC

CONSTANTS t1, t2, bx, by, inner, outer, plain, i1, i2, global, obj, v1, v2, v3

OneThread == {t1}
TwoThreads == {t1, t2}
InnerLiterals == (t1 :> i1) @@ (t2 :> i2)

Field1(flags, of) == [flags |-> flags, of |-> of]

\* inner captures the __block variable bx and an object; outer captures inner
\* and bx, so copying outer reaches bx along two paths.
NestedLiterals == {inner, outer}
NestedCaptures ==
  (inner :> << Field1(BLOCK_FIELD_IS_BYREF, bx), Field1(BLOCK_FIELD_IS_OBJECT, obj) >>) @@
  (outer :> << Field1(BLOCK_FIELD_IS_BLOCK, inner), Field1(BLOCK_FIELD_IS_BYREF, bx) >>)

\* one Block with one __block variable
PlainLiterals == {plain}
PlainCaptures == (plain :> << Field1(BLOCK_FIELD_IS_BYREF, bx) >>)

\* the same, with the flags of BlockImplementation.txt 2.3.3
DocumentedCaptures ==
  (plain :> << Field1(BLOCK_FIELD_IS_BYREF \cup BLOCK_BYREF_CALLER, bx) >>)

\* two __block variables, one declared __weak; a global Block, which has no
\* copy; a captured Block whose copy can fail
TwoByrefs == {bx, by}
MixedLiterals == {plain, outer}
MixedCaptures ==
  (plain :> << Field1(BLOCK_FIELD_IS_BYREF \cup BLOCK_FIELD_IS_WEAK, by),
               Field1(BLOCK_FIELD_IS_BYREF, bx) >>) @@
  (outer :> << Field1(BLOCK_FIELD_IS_BLOCK, plain),
               Field1(BLOCK_FIELD_IS_BLOCK, global),
               Field1(BLOCK_FIELD_IS_OBJECT, obj) >>)

TwoVars == {v1, v2}
ThreeVars == {v1, v2, v3}

\* Sound for safety: no definition tells two variables apart.
VarSymmetry == Permutations(ThreeVars)
=============================================================================
