-------------------------- MODULE SharedCacheProofs --------------------------
(***************************************************************************)
(* A table of the shared cache from the first salt to the last lookup: the *)
(* hash that make_perfect finds separates the strings, so write() gives    *)
(* each a slot of its own, and every class lookup finds the classes of the *)
(* name it asks for.  For every set of strings but those of a single one,  *)
(* whose hash is undefined, every set of classes and every section.  Last, *)
(* two pure functions behind the hash: lookup8 and mix64.                  *)
(***************************************************************************)
EXTENDS SharedCache, HashFunctions, FiniteSetTheorems, SequenceTheorems, TLAPS

-----------------------------------------------------------------------------
(* The builder: what make_perfect returns is a perfect hash, whatever      *)
(* lookup8 computes.  A salt that gives every key its own (a, b) and the   *)
(* exclusive or, which is injective, keep the keys of one b apart; a value *)
(* is applied only where tabh is free, which keeps the keys of different b *)
(* apart.                                                                  *)

\* What each kind of thing is, and the lengths of the tables.
BuilderTypeInv ==
  /\ keys \in (SUBSET Key) \ {{}}
  /\ smax \in {FirstSmax, 2 * FirstSmax}
  /\ alen \in Size /\ blen \in Size
  /\ val \in [keys -> HashValue]
  /\ again \in BOOLEAN
  /\ stage \in {"hash", "map", "found", "failed", "none"}
  /\ stage \in {"map", "found"} => DOMAIN keyAt = 0 .. smax - 1 /\ DOMAIN tab = Bs

\* The salt in use separates, from the moment perfect is called.
SaltInv ==
  /\ stage \in {"map", "found"} => Separates(val, blen)
  /\ stage = "hash" /\ again => Separates(val, blen)

\* The keys of every mapped b are in tabh, each at its final hash.
MappedInv ==
  stage \in {"map", "found"} => \A k \in keys : b(k) \in mapped =>
    /\ tab[b(k)] \in 0 .. SCRAMBLE_LEN - 1
    /\ HashOf(k) \in 0 .. smax - 1
    /\ keyAt[HashOf(k)] = k

\* ... and nothing else is.
TabhInv ==
  stage \in {"map", "found"} =>
    \A h \in 0 .. smax - 1 :
      \/ keyAt[h] = None
      \/ keyAt[h] \in keys /\ b(keyAt[h]) \in mapped /\ HashOf(keyAt[h]) = h

DoneInv == stage = "found" => Todo = {}

BuilderInv == BuilderTypeInv /\ SaltInv /\ MappedInv /\ TabhInv /\ DoneInv

\* Both values of smax are lengths of tables, and so are the first lengths of tab.
LEMMA TableSizes ==
  ASSUME keys \in (SUBSET Key) \ {{}}, NEW s \in {FirstSmax, 2 * FirstSmax}
  PROVE  s \in Size /\ InitialBlen(s, nkeys) \in Size
BY SizeAssumption DEF FirstSmax, nkeys

\* The list of a key is one of the lists of the table.
LEMMA BInRange ==
  ASSUME BuilderTypeInv, NEW k \in keys
  PROVE  b(k) \in Bs /\ a(k) \in Word /\ k \in List(b(k))
BY BitsAssumption DEF BuilderTypeInv, b, a, Bs, List

\* Distinct keys of one list have distinct final hashes, whatever the list's value.
LEMMA ListInjective ==
  ASSUME BuilderTypeInv, Separates(val, blen), NEW i \in 0 .. SCRAMBLE_LEN - 1,
         NEW j \in keys, NEW k \in keys, b(j) = b(k), HashWith(j, i) = HashWith(k, i)
  PROVE  j = k
<1>1. smax \in Size
  BY TableSizes DEF BuilderTypeInv
<1>2. a(j) \in Word /\ a(k) \in Word /\ Permute(i, smax) \in Word
  BY <1>1, BInRange, XorAssumption
<1>3. a(j) = a(k)
  BY <1>2, XorAssumption DEF HashWith
<1> QED
  BY <1>3 DEF Separates, a, b

\* A salt that separates under b bits still does under one bit more.
LEMMA StillSeparates ==
  ASSUME BuilderTypeInv, Separates(val, blen)
  PROVE  Separates(val, 2 * blen)
<1> SUFFICES ASSUME NEW j \in keys, NEW k \in keys,
                    TopBits(val[j], alen) = TopBits(val[k], alen),
                    LowBits(val[j], 2 * blen) = LowBits(val[k], 2 * blen)
             PROVE  j = k
  BY DEF Separates
<1>1. LowBits(val[j], blen) = LowBits(val[k], blen)
  BY BitsAssumption DEF BuilderTypeInv
<1> QED
  BY <1>1 DEF Separates

\* The first state.
LEMMA BuilderInvInit == BuilderInit => BuilderInv
<1> SUFFICES ASSUME BuilderInit PROVE BuilderInv
  OBVIOUS
<1>1. HashValue # {}
  BY ConstantsAssumption
<1>2. BuilderTypeInv
  BY <1>1, TableSizes DEF BuilderInit, BuilderTypeInv
<1> QED
  BY <1>2 DEF BuilderInit, BuilderInv, SaltInv, MappedInv, TabhInv, DoneInv

\* Entering a list at free slots keeps the keys apart.
LEMMA ApplyKeepsBuilderInv ==
  ASSUME BuilderInv, NEW item \in Todo, NEW i \in 0 .. SCRAMBLE_LEN - 1,
         Apply(item, i, List(item))
  PROVE  BuilderInv'
<1> DEFINE new(h) == \E k \in List(item) : HashWith(k, i) = h
<1>0. stage = "map" /\ stage' = "map" /\ Fits(item, i) /\ item \in Bs /\ item \notin mapped
  BY DEF Apply, Todo
<1>1. UNCHANGED <<keys, smax, alen, blen, val, again>> /\ Bs' = Bs
  BY DEF Apply, attempt, Bs
<1>2. /\ \A k : a(k)' = a(k) /\ b(k)' = b(k)
      /\ \A k, j : HashWith(k, j)' = HashWith(k, j)
  BY <1>1 DEF a, b, HashWith
<1>3. BuilderTypeInv'
  BY <1>0, <1>1 DEF Apply, BuilderInv, BuilderTypeInv, FirstSmax, Bs
<1>4. SaltInv'
  BY <1>0, <1>1 DEF BuilderInv, SaltInv, Separates
<1>5. /\ tab'[item] = i
      /\ \A c \in Bs : c # item => tab'[c] = tab[c]
      /\ mapped' = mapped \cup {item}
  BY <1>0 DEF Apply, BuilderInv, BuilderTypeInv
<1>6. /\ \A h \in 0 .. smax - 1 : ~new(h) => keyAt'[h] = keyAt[h]
      /\ \A h \in 0 .. smax - 1 : new(h) =>
           keyAt'[h] \in List(item) /\ HashWith(keyAt'[h], i) = h
  BY DEF Apply
<1>7. \A h \in 0 .. smax - 1 : new(h) => keyAt[h] = None
  BY <1>0 DEF Fits, Hits
<1>8. ASSUME NEW k \in keys, b(k) = item
      PROVE  /\ HashWith(k, i) \in 0 .. smax - 1
             /\ keyAt'[HashWith(k, i)] = k
  <2>1. k \in List(item) /\ new(HashWith(k, i))
    BY <1>8 DEF List
  <2>2. HashWith(k, i) \in 0 .. smax - 1
    BY <1>0, <2>1 DEF Fits, InBounds
  <2>3. /\ keyAt'[HashWith(k, i)] \in keys
        /\ b(keyAt'[HashWith(k, i)]) = b(k)
        /\ HashWith(keyAt'[HashWith(k, i)], i) = HashWith(k, i)
    BY <1>6, <1>8, <2>1, <2>2 DEF List
  <2>4. Separates(val, blen)
    BY <1>0 DEF BuilderInv, SaltInv
  <2> QED
    BY <2>2, <2>3, <2>4, ListInjective DEF BuilderInv
<1>9. MappedInv'
  <2> SUFFICES ASSUME NEW k \in keys, b(k) \in mapped'
               PROVE  /\ tab'[b(k)] \in 0 .. SCRAMBLE_LEN - 1
                      /\ HashWith(k, tab'[b(k)]) \in 0 .. smax - 1
                      /\ keyAt'[HashWith(k, tab'[b(k)])] = k
    BY <1>0, <1>1, <1>2 DEF MappedInv, HashOf
  <2>1. CASE b(k) = item
    BY <1>5, <1>8, <2>1
  <2>2. CASE b(k) # item
    <3>1. b(k) \in mapped /\ b(k) \in Bs
      BY <1>5, <2>2, BInRange DEF BuilderInv
    <3>2. /\ tab[b(k)] \in 0 .. SCRAMBLE_LEN - 1
          /\ HashWith(k, tab[b(k)]) \in 0 .. smax - 1
          /\ keyAt[HashWith(k, tab[b(k)])] = k
      BY <1>0, <3>1 DEF BuilderInv, MappedInv, HashOf
    <3>3. k # None
      BY ConstantsAssumption DEF BuilderInv, BuilderTypeInv
    <3>4. tab'[b(k)] = tab[b(k)]
      BY <1>5, <2>2, <3>1
    <3> QED
      BY <1>6, <1>7, <3>2, <3>3, <3>4
  <2> QED
    BY <2>1, <2>2
<1>10. TabhInv'
  <2> SUFFICES ASSUME NEW h \in 0 .. smax - 1, keyAt'[h] # None
               PROVE  /\ keyAt'[h] \in keys
                      /\ b(keyAt'[h]) \in mapped'
                      /\ HashWith(keyAt'[h], tab'[b(keyAt'[h])]) = h
    BY <1>0, <1>1, <1>2 DEF TabhInv, HashOf
  <2>1. CASE new(h)
    BY <1>5, <1>6, <2>1 DEF List
  <2>2. CASE ~new(h)
    <3>1. keyAt'[h] = keyAt[h]
      BY <1>6, <2>2
    <3>2. /\ keyAt[h] \in keys /\ b(keyAt[h]) \in mapped
          /\ HashWith(keyAt[h], tab[b(keyAt[h])]) = h
      BY <1>0, <3>1 DEF BuilderInv, TabhInv, HashOf
    <3>3. b(keyAt[h]) \in Bs /\ b(keyAt[h]) # item
      BY <1>0, <3>2, BInRange DEF BuilderInv
    <3> QED
      BY <1>5, <3>1, <3>2, <3>3
  <2> QED
    BY <2>1, <2>2
<1> QED
  BY <1>0, <1>3, <1>4, <1>9, <1>10 DEF BuilderInv, DoneInv

\* Every step keeps the invariant.
LEMMA BuilderStep == BuilderInv /\ [BuilderNext]_builderVars => BuilderInv'
<1> SUFFICES ASSUME BuilderInv, [BuilderNext]_builderVars PROVE BuilderInv'
  OBVIOUS
<1> USE DEF BuilderInv
<1>1. CASE SaltCollides
  <2>1. stage = "hash" /\ stage' = "hash" /\ again' = FALSE
    BY <1>1 DEF SaltCollides
  <2>2. alen' \in Size /\ blen' \in Size
    BY <1>1, TableSizes, SizeAssumption DEF SaltCollides, BuilderTypeInv
  <2>3. BuilderTypeInv'
    BY <1>1, <2>1, <2>2 DEF SaltCollides, BuilderTypeInv, FirstSmax
  <2> QED
    BY <2>1, <2>3 DEF SaltInv, MappedInv, TabhInv, DoneInv
<1>2. CASE SaltSeparates
  <2>1. /\ stage' = "map" /\ again' = FALSE /\ mapped' = {}
        /\ val' \in [keys -> HashValue] /\ Separates(val', blen)
        /\ UNCHANGED <<keys, smax, alen, blen>>
        /\ \A h \in 0 .. smax - 1 : keyAt'[h] = None
        /\ DOMAIN keyAt' = 0 .. smax - 1 /\ DOMAIN tab' = Bs
    BY <1>2 DEF SaltSeparates, StartMapping, Salted
  <2>2. BuilderTypeInv'
    BY <2>1 DEF BuilderTypeInv, FirstSmax, Bs
  <2>3. SaltInv'
    BY <2>1 DEF SaltInv, Separates
  <2> QED
    BY <2>1, <2>2, <2>3 DEF MappedInv, TabhInv, DoneInv
<1>3. CASE AugmentFinds
  BY <1>3, ApplyKeepsBuilderInv DEF AugmentFinds
<1>4. CASE AugmentFails
  <2>1. /\ stage = "map" /\ stage' \in {"hash", "failed"} /\ again' \in BOOLEAN
        /\ blen' \in {blen, 2 * blen}
        /\ UNCHANGED <<keys, smax, alen, val>>
    BY <1>4 DEF AugmentFails
  <2>2. blen' \in Size
    BY <1>4, TableSizes, SizeAssumption DEF AugmentFails, BuilderTypeInv
  <2>3. BuilderTypeInv'
    BY <2>1, <2>2 DEF BuilderTypeInv, FirstSmax
  <2>4. SaltInv'
    BY <2>1, StillSeparates DEF SaltInv, Separates
  <2> QED
    BY <2>1, <2>3, <2>4 DEF MappedInv, TabhInv, DoneInv
<1>5. CASE PerfectFound
  <2>1. stage = "map" /\ stage' = "found" /\ Todo = {}
    BY <1>5 DEF PerfectFound
  <2>2. UNCHANGED <<keys, smax, alen, blen, val, again, tab, keyAt, mapped>>
    BY <1>5 DEF PerfectFound, attempt, tables
  <2> QED
    BY <2>1, <2>2 DEF BuilderTypeInv, SaltInv, MappedInv, TabhInv, DoneInv, FirstSmax, Bs,
                      Separates, HashOf, HashWith, a, b, Todo, List
<1>6. CASE FindWider
  <2>1. stage' = "hash" /\ again' = FALSE /\ UNCHANGED <<keys, val>>
    BY <1>6 DEF FindWider
  <2>2. BuilderTypeInv'
    BY <1>6, <2>1, TableSizes DEF FindWider, BuilderTypeInv, FirstSmax
  <2> QED
    BY <2>1, <2>2 DEF SaltInv, MappedInv, TabhInv, DoneInv
<1>7. CASE GiveUp
  <2>1. stage' = "none" /\ UNCHANGED <<keys, smax, alen, blen, val, again>>
    BY <1>7 DEF GiveUp, attempt
  <2> QED
    BY <2>1 DEF BuilderTypeInv, SaltInv, MappedInv, TabhInv, DoneInv, FirstSmax
<1>8. CASE UNCHANGED builderVars
  BY <1>8 DEF builderVars, attempt, tables, BuilderTypeInv, SaltInv, MappedInv, TabhInv, DoneInv,
              FirstSmax, Bs, Separates, HashOf, HashWith, a, b, Todo, List
<1> QED
  BY <1>1, <1>2, <1>3, <1>4, <1>5, <1>6, <1>7, <1>8 DEF BuilderNext

\* The builder's invariant.
LEMMA BuilderInvariance == BuilderSpec => []BuilderInv
BY BuilderInvInit, BuilderStep, PTL DEF BuilderSpec

\* What the invariant says of the hash, of tabh and of the salt.
LEMMA BuilderInvEnough == BuilderInv => IsPerfect /\ TabhExact /\ SameSaltSeparates
<1> SUFFICES ASSUME BuilderInv PROVE IsPerfect /\ TabhExact /\ SameSaltSeparates
  OBVIOUS
<1>1. IsPerfect
  <2> SUFFICES ASSUME stage = "found"
               PROVE  /\ \A k \in keys : HashOf(k) \in 0 .. smax - 1
                      /\ \A j, k \in keys : HashOf(j) = HashOf(k) => j = k
    BY DEF IsPerfect
  <2>1. \A k \in keys : b(k) \in mapped
    BY BInRange DEF BuilderInv, DoneInv, Todo
  <2> QED
    BY <2>1 DEF BuilderInv, MappedInv
<1>2. TabhExact
  BY ConstantsAssumption DEF BuilderInv, BuilderTypeInv, MappedInv, TabhInv, TabhExact
<1>3. SameSaltSeparates
  BY DEF BuilderInv, SaltInv, SameSaltSeparates
<1> QED
  BY <1>1, <1>2, <1>3

\* make_perfect never returns a table with a collision: what perfect has built
\* when it reports success maps distinct keys to distinct slots of the table.
THEOREM FoundIsPerfect == BuilderSpec => []IsPerfect
BY BuilderInvariance, BuilderInvEnough, PTL

\* tabh mirrors tab at every step of the mapping.
THEOREM TabhMirrorsTab == BuilderSpec => []TabhExact
BY BuilderInvariance, BuilderInvEnough, PTL

\* "--si" is right: growing tab does not undo what the salt had achieved.
THEOREM SaltStaysGood == BuilderSpec => []SameSaltSeparates
BY BuilderInvariance, BuilderInvEnough, PTL

-----------------------------------------------------------------------------
(* tabq, the queue of augment *)

\* A value puts a b in tabq only when it collides with no other and is the first
\* to, so every b is there once at most.
LEMMA ExploredOnce ==
  ASSUME NEW item, NEW last \in Nat, NEW B \in SUBSET Bs, blen \in Nat,
         \A i \in 0 .. last, c \in Bs : HitsOnly(item, i, c) => c \in B
  PROVE  Cardinality(Explored(item, last)) \in Nat /\ Cardinality(Explored(item, last)) <= Cardinality(B)
<1> DEFINE E == Explored(item, last)
           first(i, c) == HitsOnly(item, i, c) /\ \A j \in 0 .. i - 1 : ~HitsOnly(item, j, c)
           f == [i \in E |-> CHOOSE c \in Bs : first(i, c)]
<1>1. IsFiniteSet(B)
  <2>1. IsFiniteSet(Bs)
    BY FS_Interval DEF Bs
  <2> QED
    BY <2>1, FS_Subset
<1>2. ASSUME NEW i \in E PROVE i \in 0 .. last /\ f[i] \in B /\ first(i, f[i])
  <2>1. i \in 0 .. last /\ \E c \in Bs : first(i, c)
    BY DEF Explored
  <2>2. f[i] \in Bs /\ first(i, f[i])
    BY <2>1
  <2> QED
    BY <2>1, <2>2
<1>3. ASSUME NEW i \in E, NEW j \in E, f[i] = f[j] PROVE i = j
  <2>1. i \in Nat /\ j \in Nat
    BY <1>2
  <2>2. ~(i < j)
    BY <1>2, <1>3, <2>1
  <2>3. ~(j < i)
    BY <1>2, <1>3, <2>1
  <2> QED
    BY <2>1, <2>2, <2>3
<1>4. f \in Injection(E, B)
  BY <1>2, <1>3 DEF Injection, IsInjective
<1> HIDE DEF f
<1>5. IsFiniteSet(E) /\ Cardinality(E) <= Cardinality(B)
  BY <1>1, <1>4, FS_Injection
<1> QED
  BY <1>5, FS_CardinalityType

\* What a value collides with was mapped before: it is not the b being mapped.
LEMMA HitsMapped ==
  ASSUME BuilderInv, stage = "map", NEW item \in Todo, NEW i, NEW c, HitsOnly(item, i, c)
  PROVE  c \in Bs \ {item}
<1>1. PICK k \in List(item) : keyAt[HashWith(k, i)] # None /\ c = b(keyAt[HashWith(k, i)])
  BY DEF HitsOnly, Hits
<1>2. HashWith(k, i) \in 0 .. smax - 1
  BY DEF HitsOnly, InBounds
<1>3. keyAt[HashWith(k, i)] \in keys /\ c \in mapped
  BY <1>1, <1>2 DEF BuilderInv, TabhInv
<1> QED
  BY <1>1, <1>3, BInRange DEF BuilderInv, Todo

TailInv == tail \in Nat /\ TabqFits

LEMMA StillAtMost ==
  ASSUME NEW x \in Nat, NEW y \in Nat, NEW z \in Nat, x <= y + 1, y <= z
  PROVE  x <= z + 1
OBVIOUS

\* tabq is never longer than tabb and one more.
LEMMA TailAtMost == ASSUME blen \in Nat, TailInv PROVE tail \in Nat /\ tail <= blen + 1
<1>1. blen \div 2 \in Nat /\ blen \div 2 <= blen
  OBVIOUS
<1>2. tail \in Nat /\ tail <= tabqLength
  BY DEF TailInv, TabqFits
<1> QED
  BY <1>1, <1>2, StillAtMost DEF tabqLength

\* tabb may grow while tabq rests.
LEMMA TailUnchanged ==
  ASSUME blen \in Nat, TailInv, blen' \in {blen, 2 * blen}, tail' = tail,
         ~(stage' = "hash" /\ again')
  PROVE  TailInv'
<1>1. tail \in Nat /\ tail <= blen + 1
  BY TailAtMost
<1>2. blen' \in Nat /\ blen <= blen'
  OBVIOUS
<1>3. tail <= blen' + 1
  BY <1>1, <1>2, StillAtMost
<1>4. tail' \in Nat /\ tail' <= blen' + 1
  BY <1>1, <1>3
<1> QED
  BY <1>4 DEF TailInv, TabqFits, tabqLength

\* tabq has blen + 1 entries: the root, every other b, and the value applied.
LEMMA TailStep == BuilderInv /\ TailInv /\ [BuilderNext]_builderVars => TailInv'
<1> SUFFICES ASSUME BuilderInv, TailInv, [BuilderNext]_builderVars PROVE TailInv'
  OBVIOUS
<1>1. blen \in Nat \ {0}
  BY SizeAssumption DEF BuilderInv, BuilderTypeInv
<1>2. IsFiniteSet(Bs) /\ Cardinality(Bs) = blen
  BY <1>1, FS_Interval DEF Bs
<1>4. ASSUME NEW item \in Todo, NEW i \in 0 .. SCRAMBLE_LEN - 1, Apply(item, i, List(item))
      PROVE  TailInv'
  <2>1. stage = "map" /\ blen' = blen /\ tail' = 1 + Cardinality(Explored(item, i)) + 1
    BY <1>4 DEF Apply
  <2>2. \A j \in 0 .. i, c \in Bs : HitsOnly(item, j, c) => c \in Bs \ {item}
    BY <2>1, HitsMapped
  <2>3. /\ Cardinality(Explored(item, i)) \in Nat
        /\ Cardinality(Explored(item, i)) <= Cardinality(Bs \ {item})
    BY <1>1, <2>2, ExploredOnce
  <2>4. item \in Bs /\ Cardinality(Bs \ {item}) = blen - 1
    BY <1>1, <1>2, FS_RemoveElement DEF Todo
  <2>5. stage' # "hash"
    BY <1>4, <2>1 DEF Apply
  <2>6. tail' \in Nat /\ tail' <= blen' + 1
    BY <1>1, <2>1, <2>3, <2>4
  <2> QED
    BY <2>5, <2>6 DEF TailInv, TabqFits, tabqLength
<1>5. CASE AugmentFinds
  BY <1>4, <1>5 DEF AugmentFinds
<1>6. CASE AugmentFails
  <2>1. PICK item : tail' = 1 + Cardinality(Explored(item, SCRAMBLE_LEN - 1))
    BY <1>6 DEF AugmentFails
  <2>2. \/ again' /\ blen' = 2 * blen
        \/ ~again' /\ blen' = blen
    BY <1>6 DEF AugmentFails
  <2>3. tail' \in Nat /\ tail' <= blen + 1
    <3>1. CASE SCRAMBLE_LEN = 0
      <4>1. Explored(item, SCRAMBLE_LEN - 1) = {}
        BY <3>1 DEF Explored
      <4> QED
        BY <1>1, <2>1, <4>1, FS_EmptySet
    <3>2. CASE SCRAMBLE_LEN # 0
      <4>1. /\ Cardinality(Explored(item, SCRAMBLE_LEN - 1)) \in Nat
            /\ Cardinality(Explored(item, SCRAMBLE_LEN - 1)) <= Cardinality(Bs)
        BY <1>1, <3>2, ConstantsAssumption, ExploredOnce
      <4> QED
        BY <1>1, <1>2, <2>1, <4>1
    <3> QED
      BY <3>1, <3>2
  <2>4. blen' \in Nat /\ blen <= blen' /\ (again' => blen' \div 2 = blen)
    BY <1>1, <2>2
  <2>5. tail' <= blen' + 1
    BY <1>1, <2>3, <2>4, StillAtMost
  <2> QED
    BY <2>3, <2>4, <2>5 DEF TailInv, TabqFits, tabqLength
<1>7. CASE SaltCollides
  <2>1. blen' \in {blen, 2 * blen} /\ tail' = tail /\ ~again'
    BY <1>7 DEF SaltCollides, tables
  <2> QED
    BY <1>1, <2>1, TailUnchanged
<1>8. CASE SaltSeparates
  <2>1. blen' = blen /\ tail' = tail /\ ~again'
    BY <1>8 DEF SaltSeparates, StartMapping
  <2> QED
    BY <1>1, <2>1, TailUnchanged
<1>9. CASE PerfectFound \/ GiveUp
  <2>1. blen' = blen /\ tail' = tail /\ stage' # "hash"
    BY <1>9 DEF PerfectFound, GiveUp, tables
  <2> QED
    BY <1>1, <2>1, TailUnchanged
<1>11. CASE UNCHANGED builderVars
  BY <1>11 DEF builderVars, tables, attempt, TailInv, TabqFits, tabqLength
<1>10. CASE FindWider
  <2>1. tail' \in Nat /\ tail' <= blen' + 1
    <3>1. smax' \in Size /\ blen' \in Size
      BY <1>10, TableSizes DEF FindWider, BuilderInv, BuilderTypeInv
    <3> QED
      BY <1>10, <3>1, SizeAssumption DEF FindWider
  <2>2. ~again'
    BY <1>10 DEF FindWider
  <2> QED
    BY <2>1, <2>2 DEF TailInv, TabqFits, tabqLength
<1> QED
  BY <1>5, <1>6, <1>7, <1>8, <1>9, <1>10, <1>11 DEF BuilderNext

\* Nothing is in tabq before perfect is called.
LEMMA TailInit == BuilderInit => TailInv
<1> SUFFICES ASSUME BuilderInit PROVE TailInv
  OBVIOUS
<1>1. blen \in Size
  BY TableSizes DEF BuilderInit
<1> QED
  BY <1>1, SizeAssumption DEF BuilderInit, TailInv, TabqFits, tabqLength

\* On the way to a perfect hash tabh mirrors tab, augment never runs past the
\* blen + 1 entries that findhash allocates for tabq, and a salt that is used
\* again still separates: for every set of keys, every lookup8 and tables of
\* every size.
THEOREM MappingIsExact == BuilderSpec => []MappingExact
<1>1. BuilderSpec => []TailInv
  BY TailInit, BuilderInvariance, TailStep, PTL DEF BuilderSpec
<1> QED
  BY <1>1, TabhMirrorsTab, SaltStaysGood, PTL DEF MappingExact, TailInv

-----------------------------------------------------------------------------
(* The string table: it agrees with the strings written to it and stays   *)
(* inside its section.                                                     *)

NoSingleString == \A ss \in StringSets : Cardinality(ss) # 1

Filling ==
  \/ strings # {} /\ phase \in {"filling", "written", "classes", "complete"}
  \/ phase = "initializer"

\* What the inputs are: a hash that separates the strings, of slots of the table.
InputInv ==
  /\ strings \in SUBSET String
  /\ capacity \in Nat /\ mask \in Nat /\ remaining \in Nat
  /\ capacity # 0 =>
       index \in [String -> Slots] /\ \A s, t \in strings : index[s] = index[t] => s = t

\* Every slot is that of a string written so far, or as an empty slot should be.
SlotInv ==
  /\ phase = "filling" => strings # {}
  /\ Filling =>
       /\ capacity # 0 /\ left \subseteq strings
       /\ \A s \in strings \ left :
            offsets[index[s]] = Offset(s) /\ checkbytes[index[s]] = CheckByte(s)
       /\ \A h \in Slots : (\A s \in strings \ left : index[s] # h) =>
            offsets[h] = ZeroOffset /\ checkbytes[h] = 0
       /\ phase # "filling" => left = {}

ExtentInv ==
  /\ extent \in Int /\ extent <= remaining
  /\ phase # "initializer" /\ Filling => StringSize <= remaining

StringInv == InputInv /\ SlotInv /\ ExtentInv

\* The text at an offset that was written is the string it was written for.
LEMMA TextAtOffset ==
  /\ StringAt(ZeroOffset) = Empty
  /\ \A s \in String : StringAt(Offset(s)) = s
BY StringAssumption DEF StringAt

\* The first state.
LEMMA StringInvInit == ASSUME NoSingleString, Init PROVE StringInv
<1>1. CASE InitSection
  <2>1. /\ strings \in SUBSET String /\ Cardinality(strings) # 1
        /\ Cardinality(strings) \in Nat
        /\ capacity = 0 \/ capacity \in Capacities(Cardinality(strings))
        /\ mask \in Nat /\ index \in [String -> Nat]
        /\ \A s \in String : index[s] \in HashRange(Cardinality(strings), capacity)
        /\ \A s, t \in strings : index[s] = index[t] => s = t
        /\ remaining \in Nat /\ extent = 0 /\ phase = "start"
    BY <1>1, StringAssumption DEF Init, InitSection, NoSingleString
  <2>2. ASSUME capacity # 0 PROVE Cardinality(strings) > 1 /\ capacity \in Nat
    BY <2>1, <2>2 DEF Capacities
  <2>3. capacity # 0 => index \in [String -> Slots]
    BY <2>1, <2>2 DEF HashRange, Slots
  <2>4. capacity \in Nat
    BY <2>2
  <2> QED
    BY <2>1, <2>3, <2>4 DEF StringInv, InputInv, SlotInv, ExtentInv, Filling
<1>2. CASE OptInitializer
  <2>1. /\ strings = {} /\ capacity = 4 /\ mask = 3 /\ left = {} /\ extent = 0
        /\ phase = "initializer" /\ remaining \in Nat
        /\ \A h \in Slots : offsets[h] = ZeroOffset /\ checkbytes[h] = 0
    BY <1>2, StringAssumption DEF OptInitializer, Init
  <2>2. index \in [String -> Slots]
    <3>1. index \in [String -> Nat] /\ \A s \in String : index[s] \in {0, 1}
      BY <1>2, StringAssumption DEF OptInitializer
    <3>2. 0 \in Slots /\ 1 \in Slots
      BY <2>1 DEF Slots
    <3> QED
      BY <3>1, <3>2
  <2>3. InputInv
    BY <2>1, <2>2, StringAssumption DEF InputInv
  <2>4. ExtentInv
    BY <2>1 DEF ExtentInv
  <2>5. SlotInv
    BY <2>1 DEF SlotInv
  <2> QED
    BY <2>3, <2>4, <2>5 DEF StringInv
<1> QED
  BY <1>1, <1>2 DEF Init

\* Writing a string fills its slot and disturbs no other string's.
LEMMA WriteKeepsSlots ==
  ASSUME StringInv, NEW s \in left, phase = "filling", strings # {},
         offsets' = [h \in Slots |-> IF h = index[s] THEN Offset(s) ELSE offsets[h]],
         checkbytes' = [h \in Slots |-> IF h = index[s] THEN CheckByte(s) ELSE checkbytes[h]],
         left' = left \ {s}, UNCHANGED <<hash_vars, phase>>
  PROVE  SlotInv'
<1>1. UNCHANGED <<strings, capacity, index, phase>> /\ Slots' = Slots
  BY DEF hash_vars, Slots
<1>2. /\ capacity # 0 /\ left \subseteq strings
      /\ \A t \in strings \ left :
           offsets[index[t]] = Offset(t) /\ checkbytes[index[t]] = CheckByte(t)
      /\ \A h \in Slots : (\A t \in strings \ left : index[t] # h) =>
           offsets[h] = ZeroOffset /\ checkbytes[h] = 0
  BY DEF StringInv, SlotInv, Filling
<1>3. \A t \in strings : index[t] \in Slots
  BY <1>2 DEF StringInv, InputInv
<1>4. \A t \in strings : index[t] = index[s] => t = s
  BY <1>2 DEF StringInv, InputInv
<1>5. strings \ left' = (strings \ left) \cup {s}
  BY <1>2
<1>6. \A t \in strings \ left' :
        offsets'[index[t]] = Offset(t) /\ checkbytes'[index[t]] = CheckByte(t)
  BY <1>2, <1>3, <1>4, <1>5
<1>7. \A h \in Slots : (\A t \in strings \ left' : index[t] # h) =>
        offsets'[h] = ZeroOffset /\ checkbytes'[h] = 0
  BY <1>2, <1>5
<1> QED
  BY <1>1, <1>2, <1>6, <1>7 DEF SlotInv, Filling

\* Every step of write() keeps the invariant.
LEMMA StringStep == StringInv /\ [Next]_string_vars => StringInv'
<1> SUFFICES ASSUME StringInv, [Next]_string_vars PROVE StringInv'
  OBVIOUS
<1>0. HeaderSize = 1056
  BY DEF HeaderSize
<1>1. ASSUME UNCHANGED hash_vars PROVE InputInv' /\ StringSize' = StringSize
  BY <1>1 DEF hash_vars, StringInv, InputInv, Slots, StringSize
<1>2. CASE TooSmallForHeader \/ NoPerfectHash \/ TooSmallForData \/ WriteNothing
  <2>1. phase = "start" /\ UNCHANGED hash_vars /\ (phase' = "error" \/ strings' = {})
    BY <1>2 DEF TooSmallForHeader, NoPerfectHash, TooSmallForData, WriteNothing, Fail, hash_vars
  <2>2. remaining' = remaining /\ remaining \in Nat /\ phase' \in {"error", "written"}
    BY <1>2, <2>1 DEF TooSmallForHeader, NoPerfectHash, TooSmallForData, WriteNothing, Fail,
                      hash_vars, StringInv, InputInv
  <2>3. extent' = extent \/ (extent' = HeaderSize /\ HeaderSize <= remaining)
    BY <1>2 DEF TooSmallForHeader, NoPerfectHash, TooSmallForData, WriteNothing
  <2> QED
    BY <1>0, <1>1, <2>1, <2>2, <2>3 DEF StringInv, SlotInv, ExtentInv, Filling
<1>3. CASE FillData
  <2>1. /\ UNCHANGED hash_vars /\ phase' = "filling" /\ left' = strings /\ extent' = StringSize
        /\ strings # {} /\ capacity # 0 /\ StringSize <= remaining
        /\ \A h \in Slots : offsets'[h] = ZeroOffset /\ checkbytes'[h] = 0
    BY <1>3 DEF FillData, StringInv, InputInv, StringSize, HeaderSize
  <2>2. UNCHANGED <<strings, remaining, capacity, index>> /\ Slots' = Slots
    BY <2>1 DEF hash_vars, Slots
  <2>3. StringSize \in Int
    BY <1>0 DEF StringSize, StringInv, InputInv
  <2> QED
    BY <1>1, <2>1, <2>2, <2>3 DEF StringInv, SlotInv, ExtentInv, Filling
<1>4. CASE OffsetTooBig
  BY <1>1, <1>4 DEF OffsetTooBig, Fail, StringInv, SlotInv, ExtentInv, Filling, hash_vars
<1>5. CASE WriteString
  <2>1. PICK s \in left :
          /\ phase = "filling" /\ UNCHANGED <<hash_vars, phase>>
          /\ offsets' = [h \in Slots |-> IF h = index[s] THEN Offset(s) ELSE offsets[h]]
          /\ checkbytes' = [h \in Slots |-> IF h = index[s] THEN CheckByte(s) ELSE checkbytes[h]]
          /\ left' = left \ {s}
          /\ extent' = IF Written(s) > extent THEN Written(s) ELSE extent
    BY <1>5 DEF WriteString
  <2>2. strings # {}
    BY <2>1 DEF StringInv, SlotInv
  <2>3. CASE strings # {}
    <3>1. s \in strings /\ capacity # 0
      BY <2>1, <2>3 DEF StringInv, SlotInv, Filling
    <3>2. index[s] \in Slots
      BY <3>1 DEF StringInv, InputInv
    <3>3. Written(s) \in Int /\ Written(s) <= StringSize
      BY <1>0, <3>2 DEF Written, StringSize, Slots, StringInv, InputInv
    <3>4. SlotInv'
      BY <2>1, <2>3, WriteKeepsSlots
    <3>5. ExtentInv'
      <4>1. StringSize' = StringSize /\ remaining' = remaining /\ remaining \in Nat
        BY <1>1, <2>1 DEF hash_vars, StringInv, InputInv
      <4>2. StringSize <= remaining /\ extent \in Int /\ extent <= remaining
        BY <2>1, <2>3 DEF StringInv, ExtentInv, Filling
      <4>3. StringSize \in Int
        BY <1>0 DEF StringSize, StringInv, InputInv
      <4>4. extent' \in Int /\ extent' <= remaining
        BY <2>1, <3>3, <4>1, <4>2, <4>3
      <4> QED
        BY <4>1, <4>2, <4>4 DEF ExtentInv
    <3> QED
      BY <1>1, <2>1, <3>4, <3>5 DEF StringInv
  <2> QED
    BY <2>2, <2>3
<1>6. CASE WriteDone
  BY <1>1, <1>6 DEF WriteDone, StringInv, SlotInv, ExtentInv, Filling, hash_vars, Slots
<1>7. CASE UNCHANGED string_vars
  BY <1>7 DEF string_vars, hash_vars, StringInv, InputInv, SlotInv, ExtentInv, Filling, Slots, StringSize
<1> QED
  BY <1>2, <1>3, <1>4, <1>5, <1>6, <1>7 DEF Next, WriteStrings

\* In a finished table a key is found where it was written, and "" also in a
\* slot where nothing was.
LEMMA MatchesWritten ==
  ASSUME StringInv, Filling, phase # "filling", NEW s \in String
  PROVE  /\ s \in strings => Matches(s) /\ offsets[index[s]] = Offset(s)
         /\ s \notin strings =>
              (Matches(s) <=> s = Empty /\ \A t \in strings : index[t] # index[s])
         /\ (\A t \in strings : index[t] # index[s]) => offsets[index[s]] = ZeroOffset
<1>1. /\ capacity # 0 /\ left = {}
      /\ \A t \in strings : offsets[index[t]] = Offset(t) /\ checkbytes[index[t]] = CheckByte(t)
      /\ \A h \in Slots : (\A t \in strings : index[t] # h) =>
           offsets[h] = ZeroOffset /\ checkbytes[h] = 0
  BY DEF StringInv, SlotInv
<1>2. index[s] \in Slots /\ strings \subseteq String
  BY <1>1 DEF StringInv, InputInv
<1>3. CASE s \in strings
  BY <1>1, <1>3, TextAtOffset DEF Matches
<1>4. CASE s \notin strings /\ \A t \in strings : index[t] # index[s]
  <2>1. offsets[index[s]] = ZeroOffset /\ checkbytes[index[s]] = 0
    BY <1>1, <1>2, <1>4
  <2> QED
    BY <1>4, <2>1, StringAssumption, TextAtOffset DEF Matches
<1>5. CASE s \notin strings /\ \E t \in strings : index[t] = index[s]
  <2>1. PICK t \in strings : index[t] = index[s]
    BY <1>5
  <2>2. StringAt(offsets[index[s]]) = t /\ t # s
    BY <1>1, <1>2, <1>5, <2>1, TextAtOffset
  <2> QED
    BY <1>5, <2>2 DEF Matches
<1> QED
  BY <1>3, <1>4, <1>5

LEMMA StringInvEnough == StringInv => WithinSection /\ LookupExact
<1> SUFFICES ASSUME StringInv PROVE WithinSection /\ LookupExact
  OBVIOUS
<1>1. WithinSection
  BY DEF StringInv, InputInv, ExtentInv, WithinSection
<1>2. LookupExact
  <2> SUFFICES ASSUME (phase = "written" /\ strings # {}) \/ phase = "initializer",
                      NEW s \in String
               PROVE  get(s) = IF s \in strings THEN Offset(s)
                               ELSE IF s = Empty /\ \A t \in strings : index[t] # index[s]
                                 THEN ZeroOffset ELSE NULL
    BY DEF LookupExact
  <2>1. Filling /\ phase # "filling"
    BY DEF Filling
  <2> QED
    BY <2>1, MatchesWritten DEF get
<1> QED
  BY <1>1, <1>2

\* write() stays within the section it was given, whatever it returns.
THEOREM StaysWithinSection == NoSingleString => (Spec => []WithinSection)
<1> SUFFICES ASSUME NoSingleString PROVE Spec => []WithinSection
  OBVIOUS
<1>1. Init => StringInv
  BY StringInvInit
<1> QED
  BY <1>1, StringInvEnough, StringStep, PTL DEF Spec

\* Lookups in a finished table find what was written, where it is, and no more.
THEOREM LookupsAreExact == NoSingleString => (Spec => []LookupExact)
<1> SUFFICES ASSUME NoSingleString PROVE Spec => []LookupExact
  OBVIOUS
<1>1. Init => StringInv
  BY StringInvInit
<1> QED
  BY <1>1, StringInvEnough, StringStep, PTL DEF Spec

-----------------------------------------------------------------------------
(* The class table *)

Offsets == [clsOffset : Int, hiOffset : Int]   \* objc_classheader_t

Called(s) == {c \in classes : c.name = s}

ClassTypeInv ==
  /\ classes \in ClassSets \cup {{}}
  /\ todo \subseteq classes
  /\ phase # "error" => duplicateOffsets \in Seq(Offsets)
  /\ phase \in {"classes", "complete"} => classOffsets \in [Slots -> Offsets]
  /\ phase = "complete" => todo = {}

\* The entry of a class name says that none of its classes was written yet, or
\* is that of its only class, or leads to all of them in duplicateOffsets.
EntryNone(s) == classOffsets[index[s]] = Entry(ZeroOffset, ZeroOffset) /\ Called(s) \subseteq todo
EntryOne(s) == \E c \in classes : Called(s) = {c} /\ classOffsets[index[s]] = Entry(c.cls, c.hi)
EntryMany(s) ==
  LET e == classOffsets[index[s]]   n == Cardinality(Called(s)) IN
  /\ n > 1 /\ e.clsOffset = n * 2 + 1
  /\ e.hiOffset \in 0 .. duplicateCount - n
  /\ {duplicateOffsets[e.hiOffset + i] : i \in 1 .. n} = Named(s)

\* So it is for every name that the table finds, and each class that was come to
\* has one.
EntriesInv ==
  phase \in {"classes", "complete"} /\ strings # {} =>
    /\ \A s \in String : Matches(s) => EntryNone(s) \/ EntryOne(s) \/ EntryMany(s)
    /\ \A c \in classes \ todo : Matches(c.name)

\* The words that the first n loops of byteswap go through.
SwappedBy(n) ==
  (IF n >= 1 THEN WordsOf("classes", capacity) ELSE {})
    \cup (IF n >= 2 THEN WordsOf("duplicates", duplicateCount) ELSE {})
    \cup (IF n >= 3 THEN {Count} ELSE {})
    \cup (IF n >= 4 THEN WordsOf("scramble", 256) ELSE {})
    \cup (IF n >= 5 THEN WordsOf("offsets", capacity) ELSE {})
    \cup (IF n >= 6 THEN Header ELSE {})

SwapInv ==
  /\ swaps \in 0 .. 6 /\ (swaps > 0 => phase = "complete")
  /\ swapped = SwappedBy(swaps)

ClassInv == ClassTypeInv /\ EntriesInv /\ SwapInv

-----------------------------------------------------------------------------
(* The classes of one name *)

\* A name has as many entries as classes, and finitely many.
LEMMA NamedClasses ==
  ASSUME ClassTypeInv, NEW s
  PROVE  /\ IsFiniteSet(Called(s)) /\ Cardinality(Called(s)) \in Nat
         /\ Cardinality(Called(s)) = 0 <=> Called(s) = {}
         /\ IsFiniteSet(Named(s)) /\ Named(s) \subseteq Offsets
         /\ Cardinality(Named(s)) = Cardinality(Called(s))
<1> DEFINE f == [c \in Called(s) |-> Entry(c.cls, c.hi)]
<1>1. IsFiniteSet(classes) /\ \A c \in classes : c \in [name : String, cls : Int, hi : Int]
  BY ClassAssumption, FS_EmptySet DEF ClassTypeInv
<1>2. IsFiniteSet(Called(s))
  <2>1. Called(s) \in SUBSET classes
    BY DEF Called
  <2> QED
    BY <1>1, <2>1, FS_Subset
<1>3. Cardinality(Called(s)) \in Nat /\ (Cardinality(Called(s)) = 0 <=> Called(s) = {})
  BY <1>2, FS_CardinalityType, FS_EmptySet
<1>4. Named(s) \subseteq Offsets
  BY <1>1 DEF Named, Entry, Offsets
<1>5. f \in Bijection(Called(s), Named(s))
  <2>1. f \in [Called(s) -> Named(s)]
    BY DEF Called, Named
  <2>2. \A c, d \in Called(s) : f[c] = f[d] => c = d
    <3> SUFFICES ASSUME NEW c \in Called(s), NEW d \in Called(s), f[c] = f[d] PROVE c = d
      OBVIOUS
    <3>1. Entry(c.cls, c.hi) = Entry(d.cls, d.hi)
      OBVIOUS
    <3>2. c.cls = d.cls /\ c.hi = d.hi /\ c.name = d.name
      BY <3>1 DEF Entry, Called
    <3> QED
      BY <1>1, <3>2 DEF Called
  <2>3. \A e \in Named(s) : \E c \in Called(s) : f[c] = e
    BY DEF Called, Named
  <2> QED
    BY <2>1, <2>2, <2>3 DEF Bijection, Injection, Surjection, IsInjective
<1>6. IsFiniteSet(Named(s)) /\ Cardinality(Named(s)) = Cardinality(Called(s))
  BY <1>2, <1>5, FS_Bijection DEF ExistsBijection
<1> QED
  BY <1>2, <1>3, <1>4, <1>6

\* SetToSeq lists every element of a finite set.
LEMMA ListsAll ==
  ASSUME NEW S, IsFiniteSet(S)
  PROVE  /\ SetToSeq(S) \in Seq(S) /\ Len(SetToSeq(S)) = Cardinality(S)
         /\ {SetToSeq(S)[i] : i \in 1 .. Cardinality(S)} = S
<1> DEFINE n == Cardinality(S)
<1>1. n \in Nat /\ ExistsBijection(1 .. n, S)
  BY FS_CardinalityType
<1>2. \E f \in [1 .. n -> S] : IsInjective(f)
  BY <1>1 DEF ExistsBijection, Bijection, Injection
<1>3. SetToSeq(S) \in [1 .. n -> S] /\ IsInjective(SetToSeq(S))
  BY <1>2 DEF SetToSeq
<1>4. SetToSeq(S) \in Injection(1 .. n, S)
  BY <1>3 DEF Injection
<1>5. Cardinality(1 .. n) = n
  BY <1>1, FS_Interval
<1>6. SetToSeq(S) \in Surjection(1 .. n, S)
  BY <1>4, <1>5, FS_Injection
<1>7. SetToSeq(S) \in Seq(S) /\ Len(SetToSeq(S)) = n
  BY <1>1, <1>3
<1> QED
  BY <1>3, <1>6, <1>7 DEF Surjection

-----------------------------------------------------------------------------
(* write *)

\* Before classes are written there is nothing to say of them.
LEMMA NoClassesYet ==
  ASSUME ClassInv, phase \in {"start", "filling", "written", "initializer"},
         UNCHANGED <<classes, todo, duplicateOffsets, swapped, swaps>>,
         capacity' = capacity, phase' \notin {"classes", "complete"}
  PROVE  ClassInv'
<1>1. swaps = 0 /\ swapped = {}
  BY DEF ClassInv, SwapInv, SwappedBy
<1>2. ClassTypeInv'
  BY DEF ClassInv, ClassTypeInv
<1>3. EntriesInv'
  BY DEF EntriesInv
<1>4. SwapInv'
  BY <1>1 DEF SwapInv, SwappedBy
<1> QED
  BY <1>2, <1>3, <1>4 DEF ClassInv

\* Writing classes leaves the names as they are.
LEMMA NamesStay ==
  ASSUME StringInv, phase \in {"written", "classes", "complete"},
         phase' \in {"classes", "complete", "error"},
         UNCHANGED <<hash_vars, offsets, checkbytes, left>>,
         extent' \in Int, extent' <= remaining
  PROVE  StringInv'
<1>1. InputInv' /\ Slots' = Slots /\ StringSize' = StringSize /\ UNCHANGED <<strings, index, capacity, remaining>>
  BY DEF StringInv, InputInv, hash_vars, Slots, StringSize
<1>2. SlotInv'
  BY <1>1 DEF StringInv, SlotInv, Filling
<1>3. ExtentInv'
  BY <1>1 DEF StringInv, ExtentInv, Filling
<1> QED
  BY <1>1, <1>2, <1>3 DEF StringInv

\* The sizes write() compares with "remaining" are numbers, and grow.
LEMMA ClassSizes ==
  ASSUME StringInv, NEW n \in Nat
  PROVE  /\ ClassSize(n) \in Int /\ remaining \in Nat
         /\ ClassSize(0) <= ClassSize(n)
BY DEF StringInv, InputInv, ClassSize, StringSize, HeaderSize

\* Every string has a slot while there is a table of strings.
LEMMA SlotOf == ASSUME StringInv, Filling, NEW s \in String PROVE index[s] \in Slots
BY DEF StringInv, InputInv, SlotInv

LEMMA FillClassesStep ==
  ASSUME StringInv, ClassInv, FillClasses
  PROVE  StringInv' /\ ClassInv'
<1>1. duplicateCount \in Nat
  BY DEF ClassInv, ClassTypeInv, duplicateCount
<1>2. StringInv'
  <2>1. extent' \in Int /\ extent' <= remaining
    BY <1>1, ClassSizes DEF FillClasses
  <2> QED
    BY <2>1, NamesStay DEF FillClasses
<1>3. /\ Slots' = Slots /\ UNCHANGED <<strings, capacity, index, classes, duplicateOffsets, swaps, swapped>>
      /\ phase = "written" /\ phase' = "classes" /\ todo' = classes
      /\ classOffsets' = [h \in Slots |-> Entry(ZeroOffset, ZeroOffset)]
  BY DEF FillClasses, hash_vars, Slots
<1>4. ClassTypeInv'
  BY <1>3 DEF ClassInv, ClassTypeInv, Entry, Offsets, ZeroOffset
<1>5. EntriesInv'
  <2> SUFFICES ASSUME strings # {}, NEW s \in String PROVE EntryNone(s)'
    BY <1>3 DEF EntriesInv
  <2>1. index[s] \in Slots
    BY <1>3, SlotOf DEF Filling
  <2> QED
    BY <1>3, <2>1 DEF EntryNone, Called, Entry
<1>6. SwapInv'
  BY <1>3 DEF ClassInv, SwapInv, SwappedBy, duplicateCount
<1> QED
  BY <1>2, <1>4, <1>5, <1>6 DEF ClassInv

\* Entries stand as long as no class of their name is written.
LEMMA OtherEntriesStay ==
  ASSUME ClassTypeInv, phase = "classes", NEW s, EntryNone(s) \/ EntryOne(s) \/ EntryMany(s),
         UNCHANGED <<index, classes>>, classOffsets'[index[s]] = classOffsets[index[s]],
         NEW c, todo' = todo \ {c}, EntryNone(s) => c \notin Called(s),
         NEW more \in Seq(Offsets), duplicateOffsets' = duplicateOffsets \o more
  PROVE  (EntryNone(s) \/ EntryOne(s) \/ EntryMany(s))'
<1>1. CASE EntryNone(s)
  BY <1>1 DEF EntryNone, Called
<1>2. CASE EntryOne(s)
  BY <1>2 DEF EntryOne, Called
<1>3. CASE EntryMany(s)
  <2> DEFINE e == classOffsets[index[s]]
             n == Cardinality(Called(s))
  <2>1. n \in Nat
    BY NamedClasses
  <2>2. /\ duplicateOffsets \in Seq(Offsets) /\ Len(duplicateOffsets) \in Nat /\ Len(more) \in Nat
        /\ Len(duplicateOffsets') = Len(duplicateOffsets) + Len(more)
        /\ \A i \in 1 .. Len(duplicateOffsets) : duplicateOffsets'[i] = duplicateOffsets[i]
    BY ConcatProperties, LenProperties DEF ClassTypeInv
  <2>3. /\ n > 1 /\ e.clsOffset = n * 2 + 1 /\ e.hiOffset \in 0 .. Len(duplicateOffsets) - n
        /\ {duplicateOffsets[e.hiOffset + i] : i \in 1 .. n} = Named(s)
    BY <1>3 DEF EntryMany, duplicateCount
  <2>4. \A i \in 1 .. n : duplicateOffsets'[e.hiOffset + i] = duplicateOffsets[e.hiOffset + i]
    <3> SUFFICES ASSUME NEW i \in 1 .. n
                 PROVE  duplicateOffsets'[e.hiOffset + i] = duplicateOffsets[e.hiOffset + i]
      OBVIOUS
    <3>1. e.hiOffset + i \in 1 .. Len(duplicateOffsets)
      <4> HIDE DEF e, n
      <4> QED
        BY <2>1, <2>2, <2>3
    <3> QED
      BY <2>2, <3>1
  <2>5. {duplicateOffsets'[e.hiOffset + i] : i \in 1 .. n} = Named(s)
    BY <2>3, <2>4
  <2>6. e.hiOffset \in 0 .. Len(duplicateOffsets') - n
    BY <2>1, <2>2, <2>3
  <2>7. /\ classOffsets'[index'[s]] = e /\ Called(s)' = Called(s) /\ Named(s)' = Named(s)
    BY DEF Called, Named
  <2>8. EntryMany(s)'
    BY <2>3, <2>5, <2>6, <2>7 DEF EntryMany, duplicateCount
  <2> QED
    BY <2>8
<1> QED
  BY <1>1, <1>2, <1>3

\* The entries of the other names, when the class c is done: a slot is that of one
\* name only.
LEMMA EntriesStep ==
  ASSUME StringInv, ClassInv, phase = "classes",
         UNCHANGED <<strings, index, offsets, checkbytes, classes>>,
         NEW c \in todo, Matches(c.name), todo' = todo \ {c},
         \A h \in Slots : h # index[c.name] => classOffsets'[h] = classOffsets[h],
         NEW more \in Seq(Offsets), duplicateOffsets' = duplicateOffsets \o more,
         strings # {} => (EntryNone(c.name) \/ EntryOne(c.name) \/ EntryMany(c.name))'
  PROVE  EntriesInv'
<1> SUFFICES ASSUME strings # {} PROVE EntriesInv'
  BY DEF EntriesInv
<1>1. /\ \A s \in String : Matches(s) => EntryNone(s) \/ EntryOne(s) \/ EntryMany(s)
      /\ \A d \in classes \ todo : Matches(d.name)
  BY DEF ClassInv, EntriesInv
<1>2. \A s \in String : Matches(s)' <=> Matches(s)
  BY DEF Matches, StringAt
<1>3. \A d \in classes : d.name \in String
  BY ClassAssumption DEF ClassInv, ClassTypeInv
<1>4. ASSUME NEW s \in String, Matches(s), s # c.name
      PROVE  (EntryNone(s) \/ EntryOne(s) \/ EntryMany(s))'
  <2>1. index[s] # index[c.name]
    BY <1>4 DEF Matches
  <2>2. index[s] \in Slots
    BY SlotOf DEF Filling
  <2>3. EntryNone(s) \/ EntryOne(s) \/ EntryMany(s)
    BY <1>1, <1>4
  <2>4. c \notin Called(s)
    BY <1>4 DEF Called
  <2>5. ClassTypeInv /\ UNCHANGED <<index, classes>> /\ classOffsets'[index[s]] = classOffsets[index[s]]
    BY <2>1, <2>2 DEF ClassInv
  <2> QED
    BY <2>3, <2>4, <2>5, OtherEntriesStay
<1>5. ASSUME NEW s \in String, Matches(s)'
      PROVE  (EntryNone(s) \/ EntryOne(s) \/ EntryMany(s))'
  BY <1>2, <1>4, <1>5
<1>6. ASSUME NEW d \in classes' \ todo' PROVE Matches(d.name)'
  <2>1. Matches(d.name) /\ d.name \in String
    BY <1>1, <1>3, <1>6
  <2> QED
    BY <1>2, <2>1
<1> QED
  BY <1>5, <1>6 DEF EntriesInv

\* A class is called by a string, which has a slot while names are written.
LEMMA NameOf ==
  ASSUME ClassTypeInv, NEW c \in todo
  PROVE  c \in classes /\ c.name \in String
BY ClassAssumption DEF ClassTypeInv

LEMMA SkipClassStep ==
  ASSUME StringInv, ClassInv, SkipClass
  PROVE  StringInv' /\ ClassInv'
<1>1. PICK c \in todo : Matches(c.name) /\ AlreadyDone(c) /\ todo' = todo \ {c}
  BY DEF SkipClass
<1>2. /\ phase = "classes" /\ UNCHANGED string_vars
      /\ UNCHANGED <<strings, capacity, index, offsets, checkbytes, phase>>
      /\ UNCHANGED <<classes, classOffsets, duplicateOffsets, swapped, swaps>>
      /\ Slots' = Slots /\ ClassTypeInv
  BY DEF SkipClass, string_vars, hash_vars, Slots, ClassInv
<1>3. StringInv'
  BY <1>2, StringStep
<1>4. ClassTypeInv'
  BY <1>1, <1>2 DEF ClassTypeInv
<1>5. <<>> \in Seq(Offsets) /\ duplicateOffsets' = duplicateOffsets \o <<>>
  BY <1>2 DEF ClassTypeInv
<1>6. ASSUME strings # {}
      PROVE  (EntryNone(c.name) \/ EntryOne(c.name) \/ EntryMany(c.name))'
  <2>1. EntryNone(c.name) \/ EntryOne(c.name) \/ EntryMany(c.name)
    BY <1>1, <1>2, <1>6, NameOf DEF ClassInv, EntriesInv
  <2>2. ~EntryNone(c.name)
    BY <1>1 DEF EntryNone, AlreadyDone, Entry
  <2> QED
    BY <1>1, <1>2, <1>5, <2>1, <2>2, OtherEntriesStay
<1>7. EntriesInv'
  BY <1>1, <1>2, <1>5, <1>6, EntriesStep
<1>8. SwapInv'
  BY <1>2 DEF ClassInv, SwapInv, SwappedBy, duplicateCount
<1> QED
  BY <1>3, <1>4, <1>7, <1>8 DEF ClassInv

LEMMA WriteClassStep ==
  ASSUME StringInv, ClassInv, WriteClass
  PROVE  StringInv' /\ ClassInv'
<1>1. PICK c \in todo : /\ Matches(c.name) /\ SameName(c) = {c}
                        /\ SetEntry(c, Entry(c.cls, c.hi)) /\ todo' = todo \ {c}
  BY DEF WriteClass
<1>2. /\ phase = "classes" /\ UNCHANGED string_vars
      /\ UNCHANGED <<strings, capacity, index, offsets, checkbytes, phase>>
      /\ UNCHANGED <<classes, duplicateOffsets, swapped, swaps>>
      /\ Slots' = Slots /\ ClassTypeInv /\ c \in classes
  BY DEF WriteClass, string_vars, hash_vars, Slots, ClassInv, ClassTypeInv
<1>3. StringInv'
  BY <1>2, StringStep
<1>4. Entry(c.cls, c.hi) \in Offsets
  BY <1>2, ClassAssumption DEF ClassTypeInv, Entry, Offsets
<1>5. classOffsets \in [Slots -> Offsets]
  BY <1>2 DEF ClassTypeInv
<1>6. classOffsets' = [classOffsets EXCEPT ![index[c.name]] = Entry(c.cls, c.hi)]
  BY <1>1 DEF SetEntry
<1>7. ClassTypeInv'
  BY <1>1, <1>2, <1>4, <1>5, <1>6 DEF ClassTypeInv
<1>8. <<>> \in Seq(Offsets) /\ duplicateOffsets' = duplicateOffsets \o <<>>
  BY <1>2 DEF ClassTypeInv
<1>9. ASSUME strings # {} PROVE EntryOne(c.name)'
  <2>1. index[c.name] \in Slots
    BY <1>2, <1>9, NameOf, SlotOf DEF Filling
  <2>2. Called(c.name)' = {c}
    BY <1>1, <1>2 DEF Called, SameName
  <2> QED
    BY <1>2, <1>5, <1>6, <2>1, <2>2 DEF EntryOne
<1>10. EntriesInv'
  BY <1>1, <1>2, <1>5, <1>6, <1>8, <1>9, EntriesStep
<1>11. SwapInv'
  BY <1>2 DEF ClassInv, SwapInv, SwappedBy, duplicateCount
<1> QED
  BY <1>3, <1>7, <1>10, <1>11 DEF ClassInv

LEMMA WriteDuplicatesStep ==
  ASSUME StringInv, ClassInv, WriteDuplicates
  PROVE  StringInv' /\ ClassInv'
<1>1. PICK c \in todo : /\ Matches(c.name) /\ Cardinality(SameName(c)) > 1
                        /\ ClassSize(duplicateCount + Cardinality(SameName(c))) <= remaining
                        /\ WriteAll(c)
  BY DEF WriteDuplicates
<1> DEFINE n == Cardinality(Called(c.name))
           more == SetToSeq(Named(c.name))
<1>2. /\ phase = "classes" /\ ClassTypeInv
      /\ UNCHANGED <<hash_vars, offsets, checkbytes, left>>
      /\ UNCHANGED <<strings, capacity, index, mask, offsets, checkbytes, phase, classes, swapped, swaps>>
      /\ Slots' = Slots /\ c \in classes
  BY DEF WriteDuplicates, hash_vars, Slots, ClassInv, ClassTypeInv
<1>3. SameName(c) = Called(c.name) /\ {Entry(d.cls, d.hi) : d \in SameName(c)} = Named(c.name)
  BY DEF SameName, Called, Named
<1>4. n \in Nat /\ n > 1 /\ IsFiniteSet(Named(c.name)) /\ Named(c.name) \subseteq Offsets
      /\ Cardinality(Named(c.name)) = n
  BY <1>1, <1>2, <1>3, NamedClasses
<1>5. more \in Seq(Named(c.name)) /\ Len(more) = n /\ {more[i] : i \in 1 .. n} = Named(c.name)
  BY <1>4, ListsAll
<1>6. more \in Seq(Offsets)
  BY <1>4, <1>5
<1>7. /\ duplicateOffsets \in Seq(Offsets) /\ duplicateCount \in Nat
      /\ duplicateOffsets' = duplicateOffsets \o more
      /\ classOffsets' = [classOffsets EXCEPT ![index[c.name]] = Entry(n * 2 + 1, duplicateCount)]
      /\ extent' = ClassSize(duplicateCount') /\ todo' = todo \ {c}
  <2>1. duplicateOffsets \in Seq(Offsets) /\ duplicateCount \in Nat
    BY <1>2 DEF ClassTypeInv, duplicateCount
  <2>2. duplicateOffsets' = duplicateOffsets \o SetToSeq({Entry(d.cls, d.hi) : d \in SameName(c)})
    BY <1>1 DEF WriteAll
  <2>3. SetEntry(c, Entry(Cardinality(SameName(c)) * 2 + 1, duplicateCount))
    BY <1>1 DEF WriteAll
  <2>4. extent' = ClassSize(duplicateCount') /\ todo' = todo \ {c}
    BY <1>1 DEF WriteAll
  <2> QED
    BY <1>3, <2>1, <2>2, <2>3, <2>4 DEF SetEntry
<1>8. /\ duplicateOffsets' \in Seq(Offsets) /\ duplicateCount' = duplicateCount + n
      /\ \A i \in 1 .. n : duplicateOffsets'[duplicateCount + i] = more[i]
  <2>1. duplicateOffsets \in Seq(Offsets) /\ duplicateOffsets' = duplicateOffsets \o more
    BY <1>7
  <2> HIDE DEF n, more
  <2>2. /\ duplicateOffsets' \in Seq(Offsets)
        /\ Len(duplicateOffsets') = Len(duplicateOffsets) + Len(more)
    BY <1>6, <2>1, ConcatProperties
  <2>3. ASSUME NEW i \in 1 .. n PROVE duplicateOffsets'[Len(duplicateOffsets) + i] = more[i]
    <3>1. Len(duplicateOffsets) \in Nat
      BY <2>1, LenProperties
    <3>2. (duplicateOffsets \o more)[Len(duplicateOffsets) + i] = more[i]
      BY <1>4, <1>5, <1>6, <2>1, <2>3, <3>1, ConcatProperties
    <3> QED
      BY <2>1, <3>2
  <2> QED
    BY <1>5, <2>2, <2>3 DEF duplicateCount
<1>9. StringInv'
  <2>1. extent' = ClassSize(duplicateCount + n)
    BY <1>7, <1>8
  <2>2. extent' \in Int /\ extent' <= remaining
    <3>1. duplicateCount + n \in Nat
      BY <1>4, <1>7
    <3> QED
      BY <1>1, <1>3, <2>1, <3>1, ClassSizes
  <2> QED
    BY <1>2, <2>2, NamesStay
<1>10. Entry(n * 2 + 1, duplicateCount) \in Offsets
  BY <1>4, <1>7 DEF Entry, Offsets
<1>11. classOffsets \in [Slots -> Offsets]
  BY <1>2 DEF ClassTypeInv
<1>12. ClassTypeInv'
  BY <1>2, <1>7, <1>8, <1>10, <1>11 DEF ClassTypeInv
<1>13. ASSUME strings # {} PROVE EntryMany(c.name)'
  <2>1. index[c.name] \in Slots
    BY <1>2, <1>13, NameOf, SlotOf DEF Filling
  <2>2. classOffsets'[index[c.name]] = Entry(n * 2 + 1, duplicateCount)
    BY <1>7, <1>11, <2>1
  <2>3. {duplicateOffsets'[duplicateCount + i] : i \in 1 .. n} = Named(c.name)
    BY <1>5, <1>8
  <2>4. duplicateCount \in 0 .. duplicateCount' - n
    BY <1>4, <1>7, <1>8
  <2>5. Called(c.name)' = Called(c.name) /\ Named(c.name)' = Named(c.name)
    BY <1>2 DEF Called, Named
  <2> QED
    BY <1>2, <1>4, <2>2, <2>3, <2>4, <2>5 DEF EntryMany, Entry
<1>14. EntriesInv'
  BY <1>1, <1>2, <1>6, <1>7, <1>11, <1>13, EntriesStep
<1>15. SwapInv'
  BY <1>2 DEF ClassInv, SwapInv, SwappedBy
<1> QED
  BY <1>9, <1>12, <1>14, <1>15 DEF ClassInv

-----------------------------------------------------------------------------
(* byteswap *)

\* Each loop but the last leaves the words of the header that it needs as they
\* were, and no word is gone through twice.
LEMMA SwapWordsStep ==
  ASSUME ClassInv, SwapWords
  PROVE  ClassInv'
<1>1. /\ phase = "complete" /\ swaps \in 0 .. 5 /\ swaps' = swaps + 1
      /\ swapped' = SymDiff(swapped, Loop(SwapOrder[swaps + 1]))
      /\ UNCHANGED <<phase, capacity, strings, index, offsets, checkbytes>>
      /\ UNCHANGED <<classes, todo, classOffsets, duplicateOffsets>>
      /\ Slots' = Slots
  BY DEF SwapWords, ClassInv, SwapInv, SwapOrder, string_vars, hash_vars, Slots
<1>2. swapped = SwappedBy(swaps) /\ duplicateCount' = duplicateCount
  BY <1>1 DEF ClassInv, SwapInv, duplicateCount
<1>3. ClassTypeInv'
  BY <1>1 DEF ClassInv, ClassTypeInv
<1>4. EntriesInv'
  <2>1. \A s : /\ EntryNone(s)' <=> EntryNone(s)
               /\ EntryOne(s)' <=> EntryOne(s)
               /\ EntryMany(s)' <=> EntryMany(s)
    BY <1>1 DEF EntryNone, EntryOne, EntryMany, Called, Named, duplicateCount
  <2>2. \A s : Matches(s)' <=> Matches(s)
    BY <1>1 DEF Matches, StringAt
  <2> QED
    BY <1>1, <2>1, <2>2 DEF ClassInv, EntriesInv
<1>6. Located
  BY <1>1, <1>2 DEF Located, SwappedBy, WordsOf, Count
<1>7. swaps < 2 => Count \notin swapped
  BY <1>1, <1>2 DEF SwappedBy, WordsOf, Count
<1>8. /\ Loop(SwapOrder[swaps + 1]) \cap SwappedBy(swaps) = {}
      /\ SwappedBy(swaps + 1) = SwappedBy(swaps) \cup Loop(SwapOrder[swaps + 1])
  <2>1. CASE swaps = 0
    <3>1. Loop(SwapOrder[swaps + 1]) = WordsOf("classes", capacity)
      BY <1>6, <2>1 DEF Loop, SwapOrder
    <3> QED
      BY <2>1, <3>1 DEF SwappedBy
  <2>2. CASE swaps = 1
    <3>1. Loop(SwapOrder[swaps + 1]) = WordsOf("duplicates", duplicateCount)
      BY <1>6, <1>7, <2>2 DEF Loop, SwapOrder
    <3> QED
      BY <2>2, <3>1 DEF SwappedBy, WordsOf
  <2>3. CASE swaps = 2
    <3>1. Loop(SwapOrder[swaps + 1]) = {Count}
      BY <2>3 DEF Loop, SwapOrder
    <3> QED
      BY <2>3, <3>1 DEF SwappedBy, WordsOf, Count
  <2>4. CASE swaps = 3
    <3>1. Loop(SwapOrder[swaps + 1]) = WordsOf("scramble", 256)
      BY <2>4 DEF Loop, SwapOrder
    <3> QED
      BY <2>4, <3>1 DEF SwappedBy, WordsOf, Count
  <2>5. CASE swaps = 4
    <3>1. Loop(SwapOrder[swaps + 1]) = WordsOf("offsets", capacity)
      BY <1>6, <2>5 DEF Loop, SwapOrder
    <3> QED
      BY <2>5, <3>1 DEF SwappedBy, WordsOf, Count
  <2>6. CASE swaps = 5
    <3>1. Loop(SwapOrder[swaps + 1]) = Header
      BY <2>6 DEF Loop, SwapOrder
    <3> QED
      BY <2>6, <3>1 DEF SwappedBy, WordsOf, Count, Header
  <2> QED
    BY <1>1, <2>1, <2>2, <2>3, <2>4, <2>5, <2>6
<1>9. swapped' = SwappedBy(swaps + 1)
  BY <1>1, <1>2, <1>8 DEF SymDiff
<1>10. SwapInv'
  <2>1. SwappedBy(swaps)' = SwappedBy(swaps + 1)
    BY <1>1, <1>2 DEF SwappedBy, WordsOf
  <2> QED
    BY <1>1, <1>9, <2>1 DEF SwapInv
<1> QED
  BY <1>3, <1>4, <1>10 DEF ClassInv

-----------------------------------------------------------------------------
(* write and byteswap *)

\* Where no class is written, as nothing was or nothing more is.
LEMMA ClassesStay ==
  ASSUME ClassInv, UNCHANGED <<strings, index, offsets, checkbytes, capacity, class_vars>>,
         \/ phase' = phase
         \/ phase = "written" /\ phase' = "error"
         \/ phase = "classes" /\ todo = {} /\ phase' = "complete"
  PROVE  ClassInv'
<1>1. UNCHANGED <<classes, todo, classOffsets, duplicateOffsets, swapped, swaps, offsets, checkbytes>>
      /\ Slots' = Slots /\ duplicateCount' = duplicateCount
  BY DEF class_vars, Slots, duplicateCount
<1>2. ClassTypeInv'
  BY <1>1 DEF ClassInv, ClassTypeInv
<1>3. EntriesInv'
  <2>1. \A s : /\ EntryNone(s)' <=> EntryNone(s)
               /\ EntryOne(s)' <=> EntryOne(s)
               /\ EntryMany(s)' <=> EntryMany(s)
    BY <1>1 DEF EntryNone, EntryOne, EntryMany, Called, Named, duplicateCount
  <2>2. \A s : Matches(s)' <=> Matches(s)
    BY <1>1 DEF Matches, StringAt
  <2> QED
    BY <1>1, <2>1, <2>2 DEF ClassInv, EntriesInv
<1>4. SwapInv'
  BY <1>1 DEF ClassInv, SwapInv, SwappedBy
<1> QED
  BY <1>2, <1>3, <1>4 DEF ClassInv

\* An error leaves the part of an entry, or the longer list, that was written.
LEMMA ClassesFail ==
  ASSUME StringInv, ClassInv, phase = "classes", phase' = "error",
         UNCHANGED <<hash_vars, offsets, checkbytes, left, classes, todo, swapped, swaps>>,
         extent' \in Int, extent' <= remaining
  PROVE  StringInv' /\ ClassInv'
<1>1. StringInv'
  BY NamesStay
<1>2. ClassTypeInv'
  BY DEF ClassInv, ClassTypeInv
<1>3. EntriesInv'
  BY DEF EntriesInv
<1>4. SwapInv'
  BY DEF ClassInv, SwapInv, SwappedBy
<1> QED
  BY <1>1, <1>2, <1>3, <1>4 DEF ClassInv

\* Of several classes, those before the one that is refused are within the size
\* that was checked.
LEMMA DuplicateTooBigStep ==
  ASSUME StringInv, ClassInv, DuplicateTooBig
  PROVE  StringInv' /\ ClassInv'
<1>0. PICK c \in todo : \E done \in SUBSET SameName(c) :
        /\ ClassSize(duplicateCount + Cardinality(SameName(c))) <= remaining
        /\ extent' = ClassSize(duplicateCount + Cardinality(done))
  BY DEF DuplicateTooBig
<1>1. PICK done \in SUBSET SameName(c) :
        /\ ClassSize(duplicateCount + Cardinality(SameName(c))) <= remaining
        /\ extent' = ClassSize(duplicateCount + Cardinality(done))
  BY <1>0
<1>2. /\ phase = "classes" /\ phase' = "error"
      /\ UNCHANGED <<hash_vars, offsets, checkbytes, left, classes, todo, swapped, swaps>>
  BY DEF DuplicateTooBig, Fail
<1>3. duplicateCount \in Nat
  BY <1>2 DEF ClassInv, ClassTypeInv, duplicateCount
<1>4. IsFiniteSet(SameName(c)) /\ Cardinality(SameName(c)) \in Nat
  <2>1. SameName(c) = Called(c.name)
    BY DEF SameName, Called
  <2> QED
    BY <2>1, NamedClasses DEF ClassInv
<1>5. Cardinality(done) \in Nat /\ Cardinality(done) <= Cardinality(SameName(c))
  BY <1>4, FS_Subset, FS_CardinalityType
<1>6. extent' \in Int /\ extent' <= remaining
  BY <1>1, <1>3, <1>4, <1>5 DEF StringInv, InputInv, ClassSize, StringSize, HeaderSize
<1> QED
  BY <1>2, <1>6, ClassesFail

LEMMA TableStep ==
  ASSUME StringInv, ClassInv, [NextClasses]_vars
  PROVE  StringInv' /\ ClassInv'
<1>1. CASE WriteNames
  <2>1. WriteStrings /\ UNCHANGED class_vars
    BY <1>1 DEF WriteNames
  <2>2. StringInv'
    BY <2>1, StringStep DEF Next
  <2>3. /\ phase \in {"start", "filling"} /\ phase' \notin {"classes", "complete"}
        /\ UNCHANGED hash_vars
    BY <2>1 DEF WriteStrings, TooSmallForHeader, WriteNothing, NoPerfectHash, TooSmallForData,
                FillData, OffsetTooBig, WriteString, WriteDone, Fail, hash_vars
  <2>4. ClassInv'
    BY <2>1, <2>3, NoClassesYet DEF class_vars, hash_vars
  <2> QED
    BY <2>2, <2>4
<1>2. CASE ClassesTooBig \/ WriteClassesDone
  <2>1. /\ UNCHANGED <<hash_vars, offsets, checkbytes, left, extent>> /\ UNCHANGED class_vars
        /\ \/ phase = "written" /\ phase' = "error"
           \/ phase = "classes" /\ todo = {} /\ phase' = "complete"
    BY <1>2 DEF ClassesTooBig, WriteClassesDone, Fail
  <2>2. StringInv'
    BY <2>1, NamesStay DEF StringInv, ExtentInv
  <2>3. ClassInv'
    BY <2>1, ClassesStay DEF hash_vars
  <2> QED
    BY <2>2, <2>3
<1>9. CASE ClassListBusted \/ ClassTooBig \/ DuplicatesTooSmall
  <2>1. /\ phase = "classes" /\ phase' = "error"
        /\ UNCHANGED <<hash_vars, offsets, checkbytes, left, extent, classes, todo, swapped, swaps>>
    BY <1>9 DEF ClassListBusted, ClassTooBig, DuplicatesTooSmall, Fail, class_vars
  <2>2. extent' \in Int /\ extent' <= remaining
    BY <2>1 DEF StringInv, ExtentInv
  <2> QED
    BY <2>1, <2>2, ClassesFail
<1>10. CASE DuplicateTooBig
  BY <1>10, DuplicateTooBigStep
<1>3. CASE FillClasses
  BY <1>3, FillClassesStep
<1>4. CASE SkipClass
  BY <1>4, SkipClassStep
<1>5. CASE WriteClass
  BY <1>5, WriteClassStep
<1>6. CASE WriteDuplicates
  BY <1>6, WriteDuplicatesStep
<1>7. CASE SwapWords
  <2>1. StringInv'
    BY <1>7, StringStep DEF SwapWords
  <2> QED
    BY <1>7, <2>1, SwapWordsStep
<1>8. CASE UNCHANGED vars
  <2>1. UNCHANGED string_vars /\ UNCHANGED class_vars
    BY <1>8 DEF vars
  <2>2. StringInv'
    BY <2>1, StringStep
  <2>3. ClassInv'
    BY <2>1, ClassesStay DEF string_vars, hash_vars
  <2> QED
    BY <2>2, <2>3
<1> QED
  BY <1>1, <1>2, <1>3, <1>4, <1>5, <1>6, <1>7, <1>8, <1>9, <1>10 DEF NextClasses

-----------------------------------------------------------------------------
(* Lookups *)

\* An even number and an odd one.
LEMMA LowBit ==
  ASSUME NEW n \in Nat
  PROVE  (n * 2 + 1) % 2 = 1 /\ (n * 2 + 1) \div 2 = n
OBVIOUS

\* The lookups read an entry as write() meant it.
LEMMA EntriesRead ==
  ASSUME StringInv, ClassInv, phase = "complete", strings # {}, NEW s \in String, Matches(s),
         Named(s) # {}
  PROVE  /\ getClassAndHeader(s).count = Cardinality(Named(s))
         /\ Cardinality(Named(s)) = 1 => {getClassAndHeader(s).found} = Named(s)
         /\ Len(getClassesAndHeaders(s)) = Cardinality(Named(s))
         /\ ToSet(getClassesAndHeaders(s)) = Named(s)
<1> DEFINE e == classOffsets[index[s]]
           n == Cardinality(Called(s))
<1>1. ClassTypeInv /\ todo = {}
  BY DEF ClassInv, ClassTypeInv
<1>2. n \in Nat /\ n = Cardinality(Named(s))
  BY <1>1, NamedClasses
<1>3. Matches(s)
  OBVIOUS
<1>4. Called(s) # {}
  BY DEF Called, Named
<1>5. EntryOne(s) \/ EntryMany(s)
  BY <1>1, <1>4 DEF ClassInv, EntriesInv, EntryNone
<1>6. CASE EntryOne(s)
  <2>1. PICK c \in classes : Called(s) = {c} /\ e = Entry(c.cls, c.hi)
    BY <1>6 DEF EntryOne
  <2>2. ~isDuplicate(e)
    BY <1>1, <2>1, ClassAssumption DEF isDuplicate, Entry, ClassTypeInv
  <2>3. Named(s) = {e} /\ n = 1
    BY <2>1, FS_Singleton DEF Named, Called
  <2>4. getClassAndHeader(s) = [count |-> 1, found |-> e] /\ getClassesAndHeaders(s) = <<e>>
    BY <1>3, <2>2 DEF getClassAndHeader, getClassesAndHeaders
  <2> QED
    BY <1>2, <2>3, <2>4 DEF ToSet
<1>7. CASE EntryMany(s)
  <2>1. /\ n > 1 /\ e.clsOffset = n * 2 + 1 /\ e.hiOffset \in 0 .. duplicateCount - n
        /\ {duplicateOffsets[e.hiOffset + i] : i \in 1 .. n} = Named(s)
    BY <1>7 DEF EntryMany
  <2>2. isDuplicate(e) /\ e.clsOffset \div 2 = n
    BY <1>2, <2>1, LowBit DEF isDuplicate
  <2>3. /\ getClassAndHeader(s) = [count |-> n, found |-> NULL]
        /\ getClassesAndHeaders(s) = DuplicatesOf(e)
    BY <1>3, <2>2 DEF getClassAndHeader, getClassesAndHeaders
  <2>4. duplicateCount \in Nat
    BY <1>1 DEF ClassTypeInv, duplicateCount
  <2>5. DuplicatesOf(e) = [i \in 1 .. n |-> duplicateOffsets[e.hiOffset + i]]
    <3> HIDE DEF e, n
    <3>1. \A i \in 1 .. n : e.hiOffset + i <= Len(duplicateOffsets)
      BY <1>2, <2>1, <2>4 DEF duplicateCount
    <3> QED
      BY <2>2, <3>1 DEF DuplicatesOf
  <2>6. Len(DuplicatesOf(e)) = n /\ ToSet(DuplicatesOf(e)) = Named(s)
    BY <1>2, <2>1, <2>5 DEF ToSet
  <2>7. Cardinality(Named(s)) # 1
    BY <1>2, <2>1
  <2> QED
    BY <1>2, <2>3, <2>6, <2>7
<1> QED
  BY <1>5, <1>6, <1>7

\* A name of the table that no class has is read as one class at &zero.
LEMMA NoClassRead ==
  ASSUME StringInv, ClassInv, phase = "complete", strings # {}, NEW s \in String, Matches(s),
         Named(s) = {}
  PROVE  /\ getClassAndHeader(s) = [count |-> 1, found |-> Entry(ZeroOffset, ZeroOffset)]
         /\ getClassesAndHeaders(s) = <<Entry(ZeroOffset, ZeroOffset)>>
<1>1. ClassTypeInv
  BY DEF ClassInv
<1>2. Called(s) = {}
  BY DEF Called, Named
<1>3. ~EntryOne(s)
  BY <1>2 DEF EntryOne
<1>4. ~EntryMany(s)
  <2>1. Cardinality(Called(s)) = 0
    BY <1>1, <1>2, NamedClasses
  <2> QED
    BY <2>1 DEF EntryMany
<1>5. EntryNone(s)
  BY <1>3, <1>4 DEF ClassInv, EntriesInv
<1>6. classOffsets[index[s]] = Entry(ZeroOffset, ZeroOffset)
  BY <1>5 DEF EntryNone
<1>7. ~isDuplicate(Entry(ZeroOffset, ZeroOffset))
  BY DEF isDuplicate, Entry, ZeroOffset
<1> QED
  BY <1>6, <1>7 DEF getClassAndHeader, getClassesAndHeaders

\* What the lookups answer for every string.
LEMMA Answers ==
  ASSUME StringInv, ClassInv, phase = "complete", strings # {}, NEW s \in String
  PROVE  /\ getClassAndHeader(s).count = Cardinality(Answer(s))
         /\ Cardinality(Answer(s)) = 1 => {getClassAndHeader(s).found} = Answer(s)
         /\ Len(getClassesAndHeaders(s)) = Cardinality(Answer(s))
         /\ ToSet(getClassesAndHeaders(s)) = Answer(s)
<1>1. Matches(s) <=> InTable(s)
  BY MatchesWritten DEF Filling, InTable
<1>2. CASE Named(s) # {}
  <2>1. PICK c \in classes : c.name = s
    BY <1>2 DEF Named
  <2>2. Matches(s)
    BY <2>1 DEF ClassInv, ClassTypeInv, EntriesInv
  <2> QED
    BY <1>2, <2>2, EntriesRead DEF Answer
<1>3. CASE Named(s) = {} /\ Matches(s)
  <2>1. Answer(s) = {Entry(ZeroOffset, ZeroOffset)}
    BY <1>1, <1>3 DEF Answer
  <2>2. Cardinality(Answer(s)) = 1
    BY <2>1, FS_Singleton
  <2> QED
    BY <1>3, <2>1, <2>2, NoClassRead DEF ToSet
<1>4. CASE Named(s) = {} /\ ~Matches(s)
  <2>1. Answer(s) = {} /\ Cardinality(Answer(s)) = 0
    BY <1>1, <1>4, FS_EmptySet DEF Answer
  <2>2. getClassAndHeader(s).count = 0 /\ getClassesAndHeaders(s) = <<>>
    BY <1>4 DEF getClassAndHeader, getClassesAndHeaders
  <2> QED
    BY <2>1, <2>2 DEF ToSet
<1> QED
  BY <1>2, <1>3, <1>4

LEMMA ClassInvEnough ==
  ASSUME StringInv, ClassInv
  PROVE  ClassesExact /\ EverythingSwappedOnce
<1>1. ClassesExact
  BY Answers DEF ClassesExact
<1>2. EverythingSwappedOnce
  <2> SUFFICES ASSUME swaps = 6
               PROVE  swapped = Header \cup {Count} \cup WordsOf("scramble", 256)
                        \cup WordsOf("offsets", capacity) \cup WordsOf("classes", capacity)
                        \cup WordsOf("duplicates", duplicateCount)
    BY DEF EverythingSwappedOnce, SwapOrder
  <2> QED
    BY DEF ClassInv, SwapInv, SwappedBy
<1> QED
  BY <1>1, <1>2

-----------------------------------------------------------------------------
(* The builder and the writer *)

SharedInv ==
  \/ BuilderInv /\ TailInv /\ NothingWritten
  \/ BuilderIdle /\ StringInv /\ ClassInv

LEMMA SharedInvInit == ASSUME NoSingleString, SharedInit PROVE SharedInv
<1>1. CASE BuilderInit /\ NothingWritten
  BY <1>1, BuilderInvInit, TailInit DEF SharedInv
<1>2. CASE BuilderIdle /\ InitClasses /\ classes = {}
  <2>1. StringInv
    BY <1>2, StringInvInit DEF InitClasses
  <2>2. phase \notin {"classes", "complete"}
    BY <1>2 DEF InitClasses, Init, InitSection, OptInitializer
  <2>3. ClassInv
    BY <1>2, <2>2 DEF InitClasses, ClassInv, ClassTypeInv, EntriesInv, SwapInv, SwappedBy
  <2> QED
    BY <1>2, <2>1, <2>3 DEF SharedInv
<1> QED
  BY <1>1, <1>2 DEF SharedInit

\* What make_perfect found is what write() needs: a slot below the capacity for
\* every string, and no two strings in one.
LEMMA TakeResultStep ==
  ASSUME NoSingleString, BuilderInv, NothingWritten, TakeResult
  PROVE  BuilderIdle' /\ StringInv' /\ ClassInv'
<1>1. BuilderIdle'
  BY DEF TakeResult, Return, BuilderIdle
<1>2. /\ strings' \in StringSets /\ remaining' \in Remaining /\ classes' \in ClassSets
      /\ phase' = "start" /\ extent' = 0 /\ todo' = {} /\ duplicateOffsets' = <<>>
      /\ swapped' = {} /\ swaps' = 0
  BY DEF TakeResult, NothingWritten
<1>3. smax \in Nat /\ blen - 1 \in Nat
  <2>1. smax \in Size /\ blen \in Size
    BY TableSizes DEF BuilderInv, BuilderTypeInv
  <2>2. smax \in Nat \ {0} /\ blen \in Nat \ {0}
    BY <2>1, SizeAssumption
  <2> QED
    BY <2>2
<1>4. InputInv'
  <2>1. strings' \in SUBSET String /\ remaining' \in Nat /\ Cardinality(strings') # 1
    BY <1>2, StringAssumption DEF NoSingleString
  <2>2. CASE stage = "found"
    <3>1. capacity' = smax /\ mask' = blen - 1 /\ index' \in IndexOf(strings')
      BY <2>2 DEF TakeResult
    <3> DEFINE ss == strings'
    <3>2. PICK key \in [ss -> keys], other \in [String \ ss -> 0 .. smax - 1] :
            /\ \A s, t \in ss : key[s] = key[t] => s = t
            /\ index' = [s \in String |-> IF s \in ss THEN HashOf(key[s]) ELSE other[s]]
      BY <2>1, <3>1 DEF IndexOf
    <3>3. IsPerfect
      BY BuilderInvEnough
    <3>4. \A k \in keys : HashOf(k) \in 0 .. smax - 1
      BY <2>2, <3>3 DEF IsPerfect
    <3>5. \A j, k \in keys : HashOf(j) = HashOf(k) => j = k
      BY <2>2, <3>3 DEF IsPerfect
    <3>6. Slots' = 0 .. smax - 1
      BY <3>1 DEF Slots
    <3>7. index' \in [String -> Slots']
      BY <3>2, <3>4, <3>6
    <3>8. \A s, t \in strings' : index'[s] = index'[t] => s = t
      BY <2>1, <3>2, <3>5
    <3> QED
      BY <1>3, <2>1, <3>1, <3>7, <3>8 DEF InputInv
  <2>3. CASE stage # "found"
    <3>1. capacity' = 0 /\ mask' = 0
      BY <2>3 DEF TakeResult
    <3> QED
      BY <2>1, <3>1 DEF InputInv
  <2> QED
    BY <2>2, <2>3
<1>5. StringInv'
  BY <1>2, <1>4 DEF StringInv, InputInv, SlotInv, ExtentInv, Filling
<1>6. ClassInv'
  BY <1>2 DEF ClassInv, ClassTypeInv, EntriesInv, SwapInv, SwappedBy
<1> QED
  BY <1>1, <1>5, <1>6

LEMMA SharedStep ==
  ASSUME NoSingleString, SharedInv, [SharedNext]_sharedVars
  PROVE  SharedInv'
<1>1. CASE BuilderInv /\ TailInv /\ NothingWritten
  <2>0. stage # "idle"
    BY <1>1 DEF BuilderInv, BuilderTypeInv
  <2>1. CASE TakeResult
    BY <1>1, <2>1, TakeResultStep DEF SharedInv
  <2>2. CASE [BuilderNext]_builderVars /\ UNCHANGED vars
    <3>1. BuilderInv' /\ TailInv'
      BY <1>1, <2>2, BuilderStep, TailStep
    <3>2. NothingWritten'
      BY <1>1, <2>2 DEF NothingWritten, vars, string_vars, hash_vars, class_vars
    <3> QED
      BY <3>1, <3>2 DEF SharedInv
  <2> QED
    BY <2>0, <2>1, <2>2 DEF SharedNext, Build, Write, sharedVars
<1>2. CASE BuilderIdle /\ StringInv /\ ClassInv
  <2>1. ~Build /\ ~TakeResult
    BY <1>2 DEF BuilderIdle, Build, TakeResult, BuilderNext, SaltCollides, SaltSeparates,
                StartMapping, AugmentFinds, Apply, AugmentFails, PerfectFound, FindWider, GiveUp
  <2>2. [NextClasses]_vars /\ UNCHANGED builderVars
    BY <2>1 DEF SharedNext, Write, sharedVars
  <2>3. StringInv' /\ ClassInv'
    BY <1>2, <2>2, TableStep
  <2>4. BuilderIdle'
    BY <1>2, <2>2 DEF BuilderIdle, builderVars, attempt, tables
  <2> QED
    BY <2>3, <2>4 DEF SharedInv
<1> QED
  BY <1>1, <1>2 DEF SharedInv

LEMMA SharedInvEnough ==
  SharedInv => /\ IsPerfect /\ MappingExact
               /\ LookupExact /\ WithinSection /\ ClassesExact /\ EverythingSwappedOnce
<1>1. ASSUME BuilderInv, TailInv, NothingWritten
      PROVE  /\ IsPerfect /\ MappingExact
             /\ LookupExact /\ WithinSection /\ ClassesExact /\ EverythingSwappedOnce
  <2>1. IsPerfect /\ MappingExact
    BY <1>1, BuilderInvEnough DEF MappingExact, TailInv
  <2>2. LookupExact /\ WithinSection /\ ClassesExact
    BY <1>1 DEF NothingWritten, LookupExact, WithinSection, ClassesExact
  <2>3. EverythingSwappedOnce
    BY <1>1 DEF NothingWritten, EverythingSwappedOnce, SwapOrder
  <2> QED
    BY <2>1, <2>2, <2>3
<1>2. ASSUME BuilderIdle, StringInv, ClassInv
      PROVE  /\ IsPerfect /\ MappingExact
             /\ LookupExact /\ WithinSection /\ ClassesExact /\ EverythingSwappedOnce
  <2>1. IsPerfect /\ MappingExact
    BY <1>2 DEF BuilderIdle, IsPerfect, MappingExact, TabhExact, TabqFits, tabqLength, SameSaltSeparates
  <2> QED
    BY <1>2, <2>1, StringInvEnough, ClassInvEnough
<1> QED
  BY <1>1, <1>2 DEF SharedInv

LEMMA SharedInvariance == NoSingleString => (SharedSpec => []SharedInv)
<1> SUFFICES ASSUME NoSingleString PROVE SharedSpec => []SharedInv
  OBVIOUS
<1>1. SharedInit => SharedInv
  BY SharedInvInit
<1>2. SharedInv /\ [SharedNext]_sharedVars => SharedInv'
  BY SharedStep
<1> QED
  BY <1>1, <1>2, PTL DEF SharedSpec

\* In a finished table getClassAndHeader and getClassesAndHeaders answer for every
\* name with exactly the classes that have it, one or many, with &zero for a name
\* of the table that no class has, and otherwise with nothing, when the hash is the
\* one that make_perfect found.
THEOREM ClassLookupsAreExact == NoSingleString => (SharedSpec => []ClassesExact)
<1> SUFFICES ASSUME NoSingleString PROVE SharedSpec => []ClassesExact
  OBVIOUS
<1> QED
  BY SharedInvariance, SharedInvEnough, PTL

\* byteswap swaps every word of a table of classes exactly once, although it reads
\* its bounds from words that it swaps.
THEOREM SwapsEveryWordOnce == NoSingleString => (SharedSpec => []EverythingSwappedOnce)
<1> SUFFICES ASSUME NoSingleString PROVE SharedSpec => []EverythingSwappedOnce
  OBVIOUS
<1> QED
  BY SharedInvariance, SharedInvEnough, PTL

\* The builder and the writer together: the hash that is found is perfect and the
\* bookkeeping on the way exact, and the table written with it answers exactly and
\* stays within its section.
THEOREM SharedTableIsExact ==
  NoSingleString =>
    (SharedSpec => [](IsPerfect /\ MappingExact /\ LookupExact /\ WithinSection))
<1> SUFFICES ASSUME NoSingleString
             PROVE  SharedSpec => [](IsPerfect /\ MappingExact /\ LookupExact /\ WithinSection)
  OBVIOUS
<1> QED
  BY SharedInvariance, SharedInvEnough, PTL
-----------------------------------------------------------------------------
(* The hash: lookup8 takes in every byte of a key of any length once.  The  *)
(* inductive invariant says which bytes were taken so far, and where byte j *)
(* went: 24 bytes to a round, eight to a word, and those that the switch    *)
(* takes into the last word one place further, past the length.             *)

\* Where byte j of the key goes, and -1, the length: the round, and the place
\* in the three words.
RoundOf(j) == IF j = -1 THEN length \div 24 ELSE j \div 24
InTail(j) == j >= 24 * (length \div 24)
WordOf(j) == IF j = -1 THEN "c" ELSE KeyHash!WordAt(j % 24)
ShiftOf(j) == IF j = -1 THEN 0 ELSE IF InTail(j) THEN KeyHash!Shift(j % 24) ELSE 8 * ((j % 24) % 8)
PlaceOf(j) == [byte |-> j, round |-> RoundOf(j), word |-> WordOf(j), shift |-> ShiftOf(j)]

\* The bytes taken in so far, each at its place.
HashInv ==
  /\ length \in Nat /\ position \in Nat /\ len \in Nat /\ rounds \in Nat
  /\ position + len = length
  /\ hashing \in {"blocks", "hashed"}
  /\ hashing = "blocks" =>
       /\ position = 24 * rounds
       /\ added = {PlaceOf(j) : j \in 0 .. position - 1}
  /\ hashing = "hashed" => added = {PlaceOf(j) : j \in -1 .. length - 1}

LEMMA WordAtIs ==
  ASSUME NEW i \in 0 .. 23
  PROVE  KeyHash!WordAt(i) = IF i < 8 THEN "a" ELSE IF i < 16 THEN "b" ELSE "c"
<1>1. i \div 8 = IF i < 8 THEN 0 ELSE IF i < 16 THEN 1 ELSE 2
  BY SMT
<1>2. QED
  BY <1>1 DEF KeyHash!WordAt

LEMMA BlockOf ==
  ASSUME NEW r \in Nat, NEW i \in 0 .. 23
  PROVE  (24 * r + i) \div 24 = r /\ (24 * r + i) % 24 = i
BY SMT

LEMMA ByteIs ==
  ASSUME NEW j \in Nat
  PROVE  j \div 24 \in Nat /\ j % 24 \in 0 .. 23 /\ j = 24 * (j \div 24) + (j % 24)
BY SMT

LEMMA ShiftIs ==
  ASSUME NEW i \in 0 .. 23
  PROVE  /\ KeyHash!Shift(i) \in Nat /\ 8 * (i % 8) \in Nat
         /\ KeyHash!Shift(i) = IF i < 8 THEN 8 * i ELSE IF i < 16 THEN 8 * (i - 8) ELSE 8 * (i - 15)
         /\ 8 * (i % 8) = IF i < 8 THEN 8 * i ELSE IF i < 16 THEN 8 * (i - 8) ELSE 8 * (i - 16)
<1>1. i % 8 = IF i < 8 THEN i ELSE IF i < 16 THEN i - 8 ELSE i - 16
  BY SMT
<1>2. QED
  BY <1>1 DEF KeyHash!Shift

\* No two bytes go to one place, and none where the length goes.
LEMMA PlacesApart ==
  ASSUME length \in Nat, NEW x \in -1 .. length - 1, NEW y \in -1 .. length - 1,
         RoundOf(x) = RoundOf(y), WordOf(x) = WordOf(y), ShiftOf(x) = ShiftOf(y)
  PROVE  x = y
<1>1. CASE x \in Nat /\ y \in Nat
  <2>1. x \div 24 = y \div 24
    BY <1>1 DEF RoundOf
  <2>2. x % 24 \in 0 .. 23 /\ y % 24 \in 0 .. 23 /\ x = 24 * (x \div 24) + (x % 24) /\ y = 24 * (y \div 24) + (y % 24)
    BY <1>1, ByteIs
  <2>3. InTail(x) <=> InTail(y)
    BY <2>1, <2>2, <1>1, ByteIs DEF InTail
  <2>4. KeyHash!WordAt(x % 24) = KeyHash!WordAt(y % 24)
    BY <1>1 DEF WordOf
  <2>5. \/ KeyHash!Shift(x % 24) = KeyHash!Shift(y % 24)
        \/ 8 * ((x % 24) % 8) = 8 * ((y % 24) % 8)
    BY <1>1, <2>3 DEF ShiftOf
  <2>6. \A p, q \in 0 .. 23 :
          /\ KeyHash!WordAt(p) = KeyHash!WordAt(q)
          /\ \/ KeyHash!Shift(p) = KeyHash!Shift(q)
             \/ 8 * (p % 8) = 8 * (q % 8)
          => p = q
    BY WordAtIs, ShiftIs
  <2>7. x % 24 = y % 24
    BY <2>2, <2>4, <2>5, <2>6
  <2>8. QED
    BY <2>1, <2>2, <2>7
<1>2. ASSUME NEW u \in Nat, u < length, RoundOf(u) = RoundOf(-1), WordOf(u) = WordOf(-1), ShiftOf(u) = ShiftOf(-1)
      PROVE  FALSE
  <2>1. u \div 24 = length \div 24
    BY <1>2 DEF RoundOf
  <2>2. u % 24 \in 0 .. 23 /\ u = 24 * (u \div 24) + (u % 24)
    BY <1>2, ByteIs
  <2>3. InTail(u)
    BY <2>1, <2>2, ByteIs DEF InTail
  <2>4. KeyHash!WordAt(u % 24) = "c" /\ KeyHash!Shift(u % 24) = 0
    BY <1>2, <2>3 DEF WordOf, ShiftOf
  <2>5. QED
    BY <2>2, <2>4, WordAtIs, ShiftIs
<1>3. QED
  BY <1>1, <1>2

LEMMA HashInit ==
  ASSUME KeyHash!Init
  PROVE  HashInv
BY LengthAssumption DEF KeyHash!Init, HashInv

LEMMA TakeBlockStep ==
  ASSUME HashInv, KeyHash!TakeBlock
  PROVE  HashInv'
<1>1. /\ hashing = "blocks" /\ len >= 24 /\ position' = position + 24 /\ len' = len - 24
      /\ rounds' = rounds + 1 /\ length' = length /\ hashing' = hashing
  BY DEF KeyHash!TakeBlock, KeyHash!Enough
<1>2. \A j : PlaceOf(j)' = PlaceOf(j)
  BY <1>1 DEF PlaceOf, RoundOf, WordOf, ShiftOf, InTail
<1>3. ASSUME NEW i \in 0 .. 23
      PROVE  KeyHash!Add(position + i, KeyHash!WordAt(i), 8 * (i % 8)) = PlaceOf(position + i)
  <2>1. /\ position + i \in Nat /\ (position + i) \div 24 = rounds /\ (position + i) % 24 = i
        /\ position + i # -1
    BY <1>1, <1>3, BlockOf DEF HashInv
  <2>2. ~InTail(position + i)
    <3>1. length \div 24 \in Nat /\ length % 24 \in 0 .. 23 /\ length = 24 * (length \div 24) + (length % 24)
      BY ByteIs DEF HashInv
    <3>2. QED
      BY <1>1, <1>3, <3>1 DEF InTail, HashInv
  <2>3. QED
    BY <2>1, <2>2 DEF PlaceOf, RoundOf, WordOf, ShiftOf, KeyHash!Add
<1>4. \A x : x \in added' <=> \E j \in 0 .. position' - 1 : x = PlaceOf(j)
  <2>1. \A x : x \in added <=> \E j \in 0 .. position - 1 : x = PlaceOf(j)
    BY <1>1 DEF HashInv
  <2>2. \A x : x \in added' <=> x \in added \/ \E i \in 0 .. 23 : x = KeyHash!Add(position + i, KeyHash!WordAt(i), 8 * (i % 8))
    BY DEF KeyHash!TakeBlock
  <2>3. \A x : x \in added' <=> (\E j \in 0 .. position - 1 : x = PlaceOf(j)) \/ \E i \in 0 .. 23 : x = PlaceOf(position + i)
    BY <1>3, <2>1, <2>2
  <2>4. \A j \in 0 .. position' - 1 :
          \/ j \in 0 .. position - 1
          \/ (j - position \in 0 .. 23 /\ position + (j - position) = j)
    BY <1>1 DEF HashInv
  <2>5. \A i \in 0 .. 23 : position + i \in 0 .. position' - 1
    BY <1>1 DEF HashInv
  <2>6. \A j \in 0 .. position - 1 : j \in 0 .. position' - 1
    BY <1>1 DEF HashInv
  <2>7. QED
    BY <2>3, <2>4, <2>5, <2>6
<1>5. added' = {PlaceOf(j)' : j \in 0 .. position' - 1}
  BY <1>2, <1>4
<1>6. QED
  BY <1>1, <1>5 DEF HashInv

LEMMA TakeRestStep ==
  ASSUME HashInv, KeyHash!TakeRest
  PROVE  HashInv'
<1>1. /\ hashing = "blocks" /\ len \in 0 .. 23 /\ position' = position /\ len' = len
      /\ rounds' = rounds + 1 /\ length' = length /\ hashing' = "hashed"
  BY DEF KeyHash!TakeRest, KeyHash!Enough, HashInv
<1>2. \A j : PlaceOf(j)' = PlaceOf(j)
  BY <1>1 DEF PlaceOf, RoundOf, WordOf, ShiftOf, InTail
<1>3. length = 24 * rounds + len /\ rounds \in Nat /\ position = 24 * rounds /\ position \in Nat
  BY <1>1 DEF HashInv
<1>4. length \div 24 = rounds
  BY <1>1, <1>3, BlockOf
<1>5. KeyHash!Add(-1, "c", 0) = PlaceOf(-1)
  BY <1>4 DEF PlaceOf, RoundOf, WordOf, ShiftOf, KeyHash!Add
<1>6. ASSUME NEW i \in KeyHash!Switch
      PROVE  /\ i \in 0 .. 23
             /\ KeyHash!Add(position + i, KeyHash!WordAt(i), KeyHash!Shift(i)) = PlaceOf(position + i)
  <2>1. i \in 0 .. 23
    BY <1>1, <1>6 DEF KeyHash!Switch
  <2>2. /\ position + i \in Nat /\ (position + i) \div 24 = rounds /\ (position + i) % 24 = i
        /\ position + i # -1 /\ InTail(position + i)
    BY <1>3, <1>4, <2>1, BlockOf DEF InTail
  <2>3. QED
    BY <2>1, <2>2 DEF PlaceOf, RoundOf, WordOf, ShiftOf, KeyHash!Add
<1>7. \A i : i \in KeyHash!Switch <=> i \in 0 .. len - 1
  BY <1>1 DEF KeyHash!Switch
<1>8. \A x : x \in added' <=> \E j \in -1 .. length - 1 : x = PlaceOf(j)
  <2>1. \A x : x \in added <=> \E j \in 0 .. position - 1 : x = PlaceOf(j)
    BY <1>1 DEF HashInv
  <2>2. \A x : x \in added' <=>
          \/ x \in added
          \/ x = KeyHash!Add(-1, "c", 0)
          \/ \E i \in KeyHash!Switch : x = KeyHash!Add(position + i, KeyHash!WordAt(i), KeyHash!Shift(i))
    BY DEF KeyHash!TakeRest
  <2>3. \A x : x \in added' <=>
          \/ \E j \in 0 .. position - 1 : x = PlaceOf(j)
          \/ x = PlaceOf(-1)
          \/ \E i \in 0 .. len - 1 : x = PlaceOf(position + i)
    BY <1>5, <1>6, <1>7, <2>1, <2>2
  <2>4. \A j \in -1 .. length - 1 :
          \/ j \in 0 .. position - 1
          \/ j = -1
          \/ j - position \in 0 .. len - 1 /\ position + (j - position) = j
    BY <1>1, <1>3
  <2>5. \A i \in 0 .. len - 1 : position + i \in -1 .. length - 1
    BY <1>1, <1>3
  <2>6. -1 \in -1 .. length - 1 /\ \A j \in 0 .. position - 1 : j \in -1 .. length - 1
    BY <1>1, <1>3
  <2>7. QED
    BY <2>3, <2>4, <2>5, <2>6
<1>9. added' = {PlaceOf(j)' : j \in -1 .. length' - 1}
  BY <1>1, <1>2, <1>8
<1>10. QED
  BY <1>1, <1>9 DEF HashInv

LEMMA HashInvKept ==
  ASSUME HashInv, [KeyHash!Next]_(KeyHash!vars)
  PROVE  HashInv'
<1>1. CASE UNCHANGED KeyHash!vars
  BY <1>1 DEF KeyHash!vars, HashInv, PlaceOf, RoundOf, WordOf, ShiftOf, InTail
<1>2. QED
  BY <1>1, TakeBlockStep, TakeRestStep DEF KeyHash!Next

LEMMA HashInvSuffices ==
  ASSUME HashInv
  PROVE  EveryByteOnce
<1>1. /\ length \in Nat
      /\ \A x \in added : \E j \in -1 .. length - 1 : x = PlaceOf(j)
      /\ hashing = "hashed" => added = {PlaceOf(j) : j \in -1 .. length - 1}
  BY DEF HashInv
<1>2. \A j : PlaceOf(j).byte = j /\ PlaceOf(j).round = RoundOf(j) /\ PlaceOf(j).word = WordOf(j) /\ PlaceOf(j).shift = ShiftOf(j)
  BY DEF PlaceOf
<1>3. \A x \in added : x.byte \in -1 .. length - 1 /\ x = PlaceOf(x.byte)
  BY <1>1, <1>2
<1>4. \A x, y \in added : x.byte = y.byte => x = y
  BY <1>3
<1>5. hashing = "hashed" => {x.byte : x \in added} = -1 .. length - 1
  BY <1>1, <1>2
<1>6. KeyHash!NoOverlap
  <2>1. SUFFICES ASSUME NEW x \in added, NEW y \in added, x.round = y.round, x.word = y.word, x.shift = y.shift
                 PROVE  x = y
    BY DEF KeyHash!NoOverlap
  <2>2. x.byte = y.byte
    BY <1>1, <1>2, <1>3, <2>1, PlacesApart
  <2>3. QED
    BY <1>4, <2>2
<1>7. QED
  BY <1>3, <1>4, <1>5, <1>6 DEF EveryByteOnce, KeyHash!EveryByteOnce

\* lookup8 takes in every byte of a key of any length, once, at a place of its
\* own between two mixings, and nothing beyond the end of the key.
THEOREM BytesTakenOnce == KeyHash!Spec => []EveryByteOnce
<1>1. KeyHash!Init => HashInv
  BY HashInit
<1>2. HashInv /\ [KeyHash!Next]_(KeyHash!vars) => HashInv'
  BY HashInvKept
<1>3. HashInv => EveryByteOnce
  BY HashInvSuffices
<1> QED
  BY <1>1, <1>2, <1>3, PTL DEF KeyHash!Spec

-----------------------------------------------------------------------------
(* The mixing: every row of mix64 has an inverse, on words of any width.    *)
(* Of the exclusive or only MixingAssumption is used; the rest is that a    *)
(* sum modulo 2 ^ Width can be undone, and that a row leaves alone the two  *)
(* words it changes the third with.                                         *)

\* The words are words, and the rows so far can be undone.
MixInv ==
  /\ abc \in [1 .. 3 -> Mixing!Words] /\ row \in 1 .. 13
  /\ trail \in Seq([1 .. 3 -> Mixing!Words]) /\ Len(trail) = row
  /\ Mixing!Reversible

LEMMA Reduced ==
  ASSUME NEW M \in Nat \ {0}, NEW x \in Int
  PROVE  x % M \in 0 .. M - 1
BY SMT

\* A multiple of the modulus makes no difference.
LEMMA ReducedOnce ==
  ASSUME NEW M \in Nat \ {0}, NEW i \in 0 .. M - 1, NEW q \in -2 .. 2
  PROVE  (i + q * M) % M = i
<1>1. i % M = i BY SMT
<1>2. (i + M) % M = i BY SMT
<1>3. (i - M) % M = i BY SMT
<1>4. (i + 2 * M) % M = i BY SMT
<1>5. (i - 2 * M) % M = i BY SMT
<1>6. q = -2 \/ q = -1 \/ q = 0 \/ q = 1 \/ q = 2 BY SMT
<1>7. QED BY <1>1, <1>2, <1>3, <1>4, <1>5, <1>6

\* Taking two words from a third and giving them back.
LEMMA TakenAndGiven ==
  ASSUME NEW M \in Nat \ {0},
         NEW x \in 0 .. M - 1, NEW y \in 0 .. M - 1, NEW z \in 0 .. M - 1
  PROVE  (((x - y - z) % M) + z + y) % M = x
<1>1. PICK q \in 0 .. 2 : x - y - z + q * M \in 0 .. M - 1
  <2>1. \/ x - y - z + 0 * M \in 0 .. M - 1
        \/ x - y - z + 1 * M \in 0 .. M - 1
        \/ x - y - z + 2 * M \in 0 .. M - 1
    BY SMT
  <2>2. QED
    BY <2>1
<1>2. (x - y - z) % M = x - y - z + q * M
  <2> DEFINE i == x - y - z + q * M
  <2>1. i \in 0 .. M - 1 /\ -q \in -2 .. 2
    BY <1>1
  <2>2. (i + (-q) * M) % M = i
    BY <2>1, ReducedOnce
  <2>3. i + (-q) * M = x - y - z
    BY SMT
  <2>4. QED
    BY <2>2, <2>3
<1>3. ((x - y - z) % M) + z + y = x + q * M
  BY <1>2, SMT
<1>4. q \in -2 .. 2
  BY SMT
<1>5. QED
  BY <1>3, <1>4, ReducedOnce

LEMMA ShiftedIsWord ==
  ASSUME NEW x \in Mixing!Words, NEW r \in 1 .. 12
  PROVE  Mixing!Shifted(x, Mixing!Shifts[r]) \in Mixing!Words
<1>1. Mixing!Modulus \in Nat \ {0} /\ x \in Nat /\ x < Mixing!Modulus
  BY MixingAssumption DEF Mixing!XorUndoesItself, Mixing!Modulus, Mixing!Words
<1>2. \A n \in 0 .. 64 : (n * Width) \div 64 \in 0 .. Width
  BY MixingAssumption DEF Mixing!XorUndoesItself
<1>3. \E n \in 0 .. 64 : Mixing!Shifts[r] = Mixing!Right(n) \/ Mixing!Shifts[r] = Mixing!Left(n)
  BY DEF Mixing!Shifts
<1>4. PICK p \in Nat \ {0} : \/ Mixing!Shifted(x, Mixing!Shifts[r]) = x \div p
                             \/ Mixing!Shifted(x, Mixing!Shifts[r]) = (x * p) % Mixing!Modulus
  <2>1. PICK n \in 0 .. 64 : Mixing!Shifts[r] = Mixing!Right(n) \/ Mixing!Shifts[r] = Mixing!Left(n)
    BY <1>3
  <2>2. 2 ^ ((n * Width) \div 64) \in Nat \ {0}
    BY <1>2, MixingAssumption DEF Mixing!XorUndoesItself
  <2>3. /\ Mixing!Shifts[r].by = (n * Width) \div 64
    BY <2>1 DEF Mixing!Right, Mixing!Left
  <2>4. QED
    BY <2>2, <2>3 DEF Mixing!Shifted
<1>5. x \div p \in 0 .. x
  BY <1>1, SMT
<1>6. x * p \in Int
  BY <1>1, SMT
<1>7. QED
  BY <1>1, <1>4, <1>5, <1>6, Reduced DEF Mixing!Words

\* UndoRow undoes RowOf.
LEMMA RowUndone ==
  ASSUME NEW w \in [1 .. 3 -> Mixing!Words], NEW r \in 1 .. 12
  PROVE  /\ Mixing!RowOf(w, r) \in [1 .. 3 -> Mixing!Words]
         /\ Mixing!UndoRow(Mixing!RowOf(w, r), r) = w
<1> DEFINE t == Mixing!This(r)
           n == Mixing!After(r)
           p == Mixing!Previous(r)
           s == Mixing!Shifted(w[p], Mixing!Shifts[r])
           x == (w[t] - w[n] - w[p]) % Mixing!Modulus
           v == Mixing!RowOf(w, r)
<1>1. t \in 1 .. 3 /\ n \in 1 .. 3 /\ p \in 1 .. 3 /\ n # t /\ p # t
  BY DEF Mixing!This, Mixing!After, Mixing!Previous
<1>2. Mixing!Modulus \in Nat \ {0} /\ Mixing!Words = 0 .. Mixing!Modulus - 1
  BY MixingAssumption DEF Mixing!XorUndoesItself, Mixing!Modulus, Mixing!Words
<1>3. w[t] \in Mixing!Words /\ w[n] \in Mixing!Words /\ w[p] \in Mixing!Words
  BY <1>1
<1>4. s \in Mixing!Words
  BY <1>3, ShiftedIsWord
<1>5. x \in Mixing!Words /\ (x + w[p] + w[n]) % Mixing!Modulus = w[t]
  <2>1. w[t] - w[n] - w[p] \in Int
    BY <1>2, <1>3
  <2>2. x \in Mixing!Words
    BY <1>2, <2>1, Reduced
  <2>3. QED
    BY <1>2, <1>3, <2>2, TakenAndGiven
<1>6. Xor(x, s) \in Mixing!Words /\ Xor(Xor(x, s), s) = x
  BY <1>4, <1>5, MixingAssumption DEF Mixing!XorUndoesItself
<1>7. v = [w EXCEPT ![t] = Xor(x, s)]
  BY DEF Mixing!RowOf
<1>8. v \in [1 .. 3 -> Mixing!Words] /\ v[t] = Xor(x, s) /\ v[n] = w[n] /\ v[p] = w[p]
  BY <1>1, <1>6, <1>7
<1>9. Mixing!UndoRow(v, r) = [v EXCEPT ![t] = w[t]]
  <2>1. Mixing!UndoRow(v, r) = [v EXCEPT ![t] = (Xor(v[t], Mixing!Shifted(v[p], Mixing!Shifts[r])) + v[p] + v[n]) % Mixing!Modulus]
    BY DEF Mixing!UndoRow
  <2>2. Xor(v[t], Mixing!Shifted(v[p], Mixing!Shifts[r])) = x
    BY <1>6, <1>8
  <2>3. QED
    BY <1>5, <1>8, <2>1, <2>2
<1>10. [v EXCEPT ![t] = w[t]] = w
  BY <1>1, <1>7
<1>11. QED
  BY <1>8, <1>9, <1>10

LEMMA MixInvInit ==
  ASSUME Mixing!Init
  PROVE  MixInv
BY DEF Mixing!Init, MixInv, Mixing!Reversible

LEMMA MixInvKept ==
  ASSUME MixInv, [Mixing!Next]_(Mixing!vars)
  PROVE  MixInv'
<1>1. CASE UNCHANGED Mixing!vars
  BY <1>1 DEF Mixing!vars, MixInv, Mixing!Reversible
<1>2. CASE Mixing!Row
  <2>1. /\ row \in 1 .. 12 /\ row' = row + 1 /\ abc' = Mixing!RowOf(abc, row)
        /\ trail' = Append(trail, abc')
    BY <1>2 DEF MixInv, Mixing!Row, Mixing!Shifts
  <2>2. abc' \in [1 .. 3 -> Mixing!Words] /\ Mixing!UndoRow(abc', row) = abc
    BY <2>1, RowUndone DEF MixInv
  <2>3. /\ trail' \in Seq([1 .. 3 -> Mixing!Words]) /\ Len(trail') = row' /\ trail'[row'] = abc'
        /\ \A r \in 1 .. row : trail'[r] = trail[r]
    BY <2>1, <2>2 DEF MixInv
  <2>4. \A r \in 1 .. row' - 1 : Mixing!UndoRow(trail'[r + 1], r) = trail'[r]
    <3>1. SUFFICES ASSUME NEW r \in 1 .. row' - 1
                   PROVE  Mixing!UndoRow(trail'[r + 1], r) = trail'[r]
      OBVIOUS
    <3>2. CASE r = row
      BY <2>1, <2>2, <2>3, <3>2 DEF MixInv, Mixing!Reversible
    <3>3. CASE r # row
      <4>1. r \in 1 .. row - 1 /\ r + 1 \in 1 .. row /\ r \in 1 .. row
        BY <2>1, <3>3
      <4>2. QED
        BY <2>3, <4>1 DEF MixInv, Mixing!Reversible
    <3>4. QED
      BY <3>2, <3>3
  <2>5. Mixing!Reversible'
    BY <2>3, <2>4 DEF Mixing!Reversible, Mixing!UndoRow, Mixing!This, Mixing!After, Mixing!Previous, Mixing!Shifted, Mixing!Shifts, Mixing!Left, Mixing!Right, Mixing!Modulus
  <2>6. Mixing!Words' = Mixing!Words
    BY DEF Mixing!Words, Mixing!Modulus
  <2>7. row' \in 1 .. 13
    BY <2>1
  <2>8. QED
    BY <2>2, <2>3, <2>5, <2>6, <2>7 DEF MixInv
<1>3. QED
  BY <1>1, <1>2 DEF Mixing!Next

\* What mix64 has done to three words of any width, up to any of its rows, can be
\* undone row by row: different words stay different.
THEOREM MixingIsReversible == Mixing!Spec => []Reversible
<1>1. Mixing!Init => MixInv
  BY MixInvInit
<1>2. MixInv /\ [Mixing!Next]_(Mixing!vars) => MixInv'
  BY MixInvKept
<1>3. MixInv => Reversible
  BY DEF MixInv, Reversible
<1> QED
  BY <1>1, <1>2, <1>3, PTL DEF Mixing!Spec
=============================================================================
