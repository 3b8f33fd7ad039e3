----------------------------- MODULE PerfectHash -----------------------------
(***************************************************************************)
(* The builder of the perfect hash in include/objc-shared-cache.h:         *)
(* make_perfect, findhash, inittab, perfect and augment.                   *)
(*                                                                         *)
(* A salted hash gives each key a pair (a, b).  Salts are tried until the  *)
(* pairs differ; then each b in turn, the one with most keys first, gets a *)
(* value tab[b] such that its keys' final hashes, a XOR scramble[tab[b]],  *)
(* are free.  When that fails the tables grow.  What lookup8 returns for a *)
(* new salt is any function of the keys.                                   *)
(***************************************************************************)
EXTENDS Integers, FiniteSets

CONSTANTS
  Key,
  HashValue,      \* values of lookup8, 64 bits wide
  Word,           \* values of a ub4
  Size,           \* lengths of tables: powers of two
  TopBits(_, _),  \* TopBits(v, n): the log2(n) high bits of v
  LowBits(_, _),  \* LowBits(v, n): the log2(n) low bits of v
  ExclusiveOr(_, _),
  Permute(_, _),  \* Permute(x, n): permute(x, log2u(n))
  SCRAMBLE_LEN,   \* also the values of tab[b], "limit" in augment
  RETRY_INITKEY,
  RETRY_PERFECT,
  None

\* "the ceiling of the log (base 2) of val"
log2u(n) == CHOOSE i \in 0 .. n : 2 ^ i >= n /\ \A j \in 0 .. i - 1 : 2 ^ j < n

AtLeast1(n) == IF n < 1 THEN 1 ELSE n

\* initalen
InitialBlen(max, n) ==
  AtLeast1(IF 10 * n <= 6 * max THEN max \div 16
           ELSE IF 10 * n <= 8 * max THEN max \div 8 ELSE max \div 4)

FirstSmaxOf(ks) == 2 ^ log2u(Cardinality(ks))

ASSUME ConstantsAssumption == SCRAMBLE_LEN \in Nat /\ HashValue # {} /\ None \notin Key

ASSUME SizeAssumption ==
  /\ Size \subseteq Nat \ {0}
  /\ \A m, n \in Size : m < n => 2 * m \in Size
  /\ \A ks \in (SUBSET Key) \ {{}} :
       \A smax_ \in {FirstSmaxOf(ks), 2 * FirstSmaxOf(ks)} :
         smax_ \in Size /\ InitialBlen(smax_, Cardinality(ks)) \in Size

ASSUME BitsAssumption ==
  \A v \in HashValue, n \in Size :
    /\ TopBits(v, n) \in Word
    /\ LowBits(v, n) \in 0 .. n - 1
    /\ \A w \in HashValue : LowBits(v, 2 * n) = LowBits(w, 2 * n) => LowBits(v, n) = LowBits(w, n)

ASSUME XorAssumption ==
  /\ \A i \in 0 .. SCRAMBLE_LEN - 1, n \in Size : Permute(i, n) \in Word
  /\ \A x, y, s \in Word : ExclusiveOr(x, s) = ExclusiveOr(y, s) => x = y

VARIABLES
  keys,       \* the keys to hash
  smax,       \* final hashes are below smax
  alen, blen, \* a is below alen, b below blen: powers of two
  val,        \* val[k]: lookup8 of k under the last salt that separated
  again,      \* "--si": the present salt is used once more
  badInit, badPerfect, \* failures since the tables last grew
  stage,      \* "hash", "map", "found", "failed" (findhash), "none" (make_perfect)
  tab,        \* tabb[b].val_b
  keyAt,      \* tabh[h].key_h
  mapped,     \* the b that augment has given a value
  water,      \* tabb[b].water_b
  tail        \* entries of tabq that the last augment used

attempt == <<badInit, badPerfect, again>>
tables == <<tab, keyAt, mapped, water, tail>>
builderVars == <<keys, smax, alen, blen, val, attempt, stage, tables>>

nkeys == Cardinality(keys)

FirstSmax == FirstSmaxOf(keys)

BuilderInit ==
  /\ keys \in (SUBSET Key) \ {{}}
  /\ smax = FirstSmax
  /\ alen = smax /\ blen = InitialBlen(smax, nkeys)
  /\ val = [k \in keys |-> CHOOSE v \in HashValue : TRUE]
  /\ again = FALSE /\ badInit = 0 /\ badPerfect = 0
  /\ stage = "hash"
  /\ tab = <<>> /\ keyAt = <<>> /\ mapped = {} /\ water = <<>> /\ tail = 0

a(k) == TopBits(val[k], alen)
b(k) == LowBits(val[k], blen)
Bs == 0 .. blen - 1
List(i) == {k \in keys : b(k) = i}

\* what inittab tests: "Two keys with the same (a,b) guarantees a collision"
Separates(v, bl) ==
  \A j, k \in keys :
    TopBits(v[j], alen) = TopBits(v[k], alen) /\ LowBits(v[j], bl) = LowBits(v[k], bl) => j = k

-----------------------------------------------------------------------------
(* findhash *)

Salted == {v \in [keys -> HashValue] : again => v = val}

\* inittab finds a collision; after RETRY_INITKEY of them the tables grow
SaltCollides ==
  LET grow == badInit + 1 >= RETRY_INITKEY IN
  /\ stage = "hash"
  /\ ~ \A v \in Salted : Separates(v, blen)
  /\ badInit' = IF grow THEN 0 ELSE badInit + 1
  /\ badPerfect' = IF grow THEN 0 ELSE badPerfect
  /\ alen' = IF grow /\ alen < smax THEN 2 * alen ELSE alen
  /\ blen' = IF grow /\ alen >= smax /\ blen < smax THEN 2 * blen ELSE blen
  /\ again' = FALSE
  /\ UNCHANGED <<keys, smax, val, stage, tables>>

\* perfect clears what an earlier attempt left
StartMapping ==
  /\ stage = "hash" /\ stage' = "map"
  /\ again' = FALSE
  /\ tab' = [i \in Bs |-> 0] /\ water' = [i \in Bs |-> 0]
  /\ keyAt' = [h \in 0 .. smax - 1 |-> None]
  /\ mapped' = {}
  /\ UNCHANGED <<keys, smax, alen, blen, badInit, badPerfect, tail>>

\* Mutant of SaltSeparates: inittab gives up when all keys have one a only.
SaltSeparatesSome ==
  /\ val' \in {v \in Salted : Cardinality({TopBits(v[k], alen) : k \in keys}) > 1 \/ nkeys = 1}
  /\ StartMapping

\* inittab finds no collision
SaltSeparates ==
  /\ val' \in {v \in Salted : Separates(v, blen)}
  /\ StartMapping

-----------------------------------------------------------------------------
(* perfect and augment *)

\* the final hash of k if tab[b(k)] is i
HashWith(k, i) == ExclusiveOr(a(k), Permute(i, smax))

\* "In descending order by number of keys, map all *b*s"
Todo == {i \in Bs \ mapped : List(i) # {}}
Before(i, j) ==
  \/ Cardinality(List(i)) > Cardinality(List(j))
  \/ Cardinality(List(i)) = Cardinality(List(j)) /\ i <= j
IsItem(item) == item \in Todo /\ \A j \in Todo : Before(item, j)

InBounds(item, i) == \A k \in List(item) : HashWith(k, i) \in 0 .. smax - 1
Hits(item, i) == {b(keyAt[HashWith(k, i)]) : k \in {j \in List(item) : keyAt[HashWith(j, i)] # None}}

\* value i of tab[item] collides with nothing
Fits(item, i) == InBounds(item, i) /\ Hits(item, i) = {}

\* every key of item that value i collides with belongs to c
HitsOnly(item, i, c) == InBounds(item, i) /\ Hits(item, i) = {c}

\* Mutant of Explored: water marks are not looked at.
ExploredEveryTime(item, last) == {i \in 0 .. last : \E c \in Bs : HitsOnly(item, i, c)}

\* The values up to "last" that put a b in tabq: those that collide with one b
\* only, and are the first to, for that sets its water mark to item's.
Explored(item, last) ==
  {i \in 0 .. last :
     \E c \in Bs : HitsOnly(item, i, c) /\ water[c] # item + 1 /\ \A j \in 0 .. i - 1 : ~HitsOnly(item, j, c)}

Flooded(item, last) ==
  [c \in Bs |-> IF \E i \in Explored(item, last) : HitsOnly(item, i, c) THEN item + 1 ELSE water[c]]

\* apply: tab[item] is i, and tabh has the keys that "entered" names; the tree
\* has the root, the b explored and the entry for i itself.
Apply(item, i, entered) ==
  /\ stage = "map" /\ IsItem(item)
  /\ Fits(item, i) /\ \A j \in 0 .. i - 1 : ~Fits(item, j)
  /\ tab' = [tab EXCEPT ![item] = i]
  /\ keyAt' = [h \in 0 .. smax - 1 |->
       IF \E k \in entered : HashWith(k, i) = h
       THEN CHOOSE k \in entered : HashWith(k, i) = h ELSE keyAt[h]]
  /\ mapped' = mapped \cup {item}
  /\ water' = Flooded(item, i)
  /\ tail' = 1 + Cardinality(Explored(item, i)) + 1
  /\ UNCHANGED <<keys, smax, alen, blen, val, attempt, stage>>

\* The first value that fits is applied to all keys of the list.
AugmentFinds ==
  \E item \in Todo, i \in 0 .. SCRAMBLE_LEN - 1 : Apply(item, i, List(item))

\* No value fits ("don't do transitive closure"); after RETRY_PERFECT failures
\* blen grows, and the salt, known to separate, is tried again.
AugmentFails ==
  LET retry == badPerfect + 1 < RETRY_PERFECT
      grow == ~retry /\ blen < smax IN
  /\ stage = "map"
  /\ \E item \in Todo :
       /\ IsItem(item)
       /\ \A i \in 0 .. SCRAMBLE_LEN - 1 : ~Fits(item, i)
       /\ tail' = 1 + Cardinality(Explored(item, SCRAMBLE_LEN - 1))
  /\ badPerfect' = IF grow THEN 0 ELSE badPerfect + 1
  /\ blen' = IF grow THEN 2 * blen ELSE blen
  /\ again' = grow
  /\ stage' = IF retry \/ grow THEN "hash" ELSE "failed"
  /\ UNCHANGED <<keys, smax, alen, val, badInit, tab, keyAt, mapped, water>>

PerfectFound ==
  /\ stage = "map" /\ Todo = {}
  /\ stage' = "found"
  /\ UNCHANGED <<keys, smax, alen, blen, val, attempt, tables>>

-----------------------------------------------------------------------------
(* make_perfect *)

FindWider ==
  /\ stage = "failed" /\ smax = FirstSmax
  /\ smax' = 2 * FirstSmax
  /\ alen' = smax' /\ blen' = InitialBlen(smax', nkeys)
  /\ badInit' = 0 /\ badPerfect' = 0 /\ again' = FALSE
  /\ stage' = "hash" /\ tail' = 0
  /\ UNCHANGED <<keys, val, tab, keyAt, mapped, water>>

\* bzero(&result): capacity 0
GiveUp ==
  /\ stage = "failed" /\ smax # FirstSmax
  /\ stage' = "none"
  /\ UNCHANGED <<keys, smax, alen, blen, val, attempt, tables>>

BuilderNext ==
  \/ SaltCollides \/ SaltSeparates
  \/ AugmentFinds \/ AugmentFails \/ PerfectFound
  \/ FindWider \/ GiveUp

BuilderSpec == BuilderInit /\ [][BuilderNext]_builderVars

-----------------------------------------------------------------------------

HashOf(k) == HashWith(k, tab[b(k)])

\* While b after b is mapped, tabh is exactly the final hashes so far.
TabhExact ==
  stage \in {"map", "found"} =>
    \A h \in 0 .. smax - 1 : \A k \in keys :
      keyAt[h] = k <=> b(k) \in mapped /\ HashOf(k) = h

\* "a hash function that maps each of those keys into a value ... with no
\* collisions": below smax, which is the capacity of the table.
IsPerfect ==
  stage = "found" =>
    /\ \A k \in keys : HashOf(k) \in 0 .. smax - 1
    /\ \A j, k \in keys : HashOf(j) = HashOf(k) => j = k

\* Entries of the tabq that the last augment had: findhash allocates blen + 1, and
\* before a salt is used again it has doubled blen.
tabqLength == (IF stage = "hash" /\ again THEN blen \div 2 ELSE blen) + 1

\* augment never uses more of tabq than findhash had allocated
TabqFits == tail <= tabqLength

\* "we know this salt got distinct (A,B)": it still does after blen has grown
SameSaltSeparates == stage = "hash" /\ again => Separates(val, blen)

\* On the way to a perfect hash, through values tried and given up, salts used
\* twice and tables that grow, tabh mirrors tab, tabq does not overflow, and a
\* salt that is used again still separates.
MappingExact == TabhExact /\ TabqFits /\ SameSaltSeparates

=============================================================================
