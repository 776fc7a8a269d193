--------------------------- MODULE UtilityProofs ----------------------------
(***************************************************************************)
(* Proofs about the components that one caller uses: LruCache and          *)
(* RegexCache, for every capacity and all keys and patterns; UidAllocator, *)
(* for every range that leaves room for the unused bits of its last word   *)
(* below 2^32, and every width of the words; Combination, for all numbers  *)
(* and places; OssClient, for every number of names and every page size.   *)
(***************************************************************************)
EXTENDS RegexCache, UidAllocator, Combination, OssClient, NumberLemmas,
        FiniteSetTheorems, WellFoundedInduction, SequenceTheorems, TLAPS

-----------------------------------------------------------------------------
(* Lemmas about finite sets of numbers, in order.                          *)

(* The numbers up to n are n.                                              *)
LEMMA Segment ==
    ASSUME NEW n \in Nat
    PROVE  IsFiniteSet(1 .. n) /\ Cardinality(1 .. n) = n
<1>1. /\ IsFiniteSet(1 .. n)
      /\ Cardinality(1 .. n) = IF 1 > n THEN 0 ELSE n - 1 + 1
  BY FS_Interval
<1> QED BY <1>1

(* A finite set of numbers can be counted off in ascending order: the      *)
(* place of a number is how many of them are not above it.                 *)
LEMMA CountedOff ==
    ASSUME NEW S \in SUBSET Int, IsFiniteSet(S)
    PROVE  \E s \in [1 .. Cardinality(S) -> S] :
               /\ \A i, j \in 1 .. Cardinality(S) : i < j => s[i] < s[j]
               /\ \A x \in S : \E i \in 1 .. Cardinality(S) : s[i] = x
<1> DEFINE n == Cardinality(S)
           UpTo(x) == {q \in S : q <= x}
           nth == [x \in S |-> Cardinality(UpTo(x))]
<1>0. n \in Nat BY FS_CardinalityType
<1>1. ASSUME NEW x \in S PROVE /\ IsFiniteSet(UpTo(x)) /\ Cardinality(UpTo(x)) \in 1 .. n
  <2>1. UpTo(x) \subseteq S OBVIOUS
  <2>2. IsFiniteSet(UpTo(x)) /\ Cardinality(UpTo(x)) <= n BY <2>1, FS_Subset
  <2>3. x \in UpTo(x) OBVIOUS
  <2>4. Cardinality(UpTo(x)) \in Nat /\ Cardinality(UpTo(x)) # 0
    <3> HIDE DEF UpTo
    <3> QED BY <2>2, <2>3, FS_CardinalityType, FS_EmptySet
  <2> HIDE DEF UpTo
  <2> QED BY <1>0, <2>2, <2>4
<1>2. ASSUME NEW x \in S, NEW y \in S, x < y PROVE Cardinality(UpTo(x)) < Cardinality(UpTo(y))
  <2>1. UpTo(x) \subseteq UpTo(y) /\ y \in UpTo(y) /\ y \notin UpTo(x)
    <3>1. x \in Int /\ y \in Int /\ \A q \in S : q \in Int OBVIOUS
    <3>2. (\A q \in S : q <= x => q <= y) /\ y <= y /\ ~ (y <= x) BY <1>2, <3>1
    <3> QED BY <3>2
  <2>2. IsFiniteSet(UpTo(y)) /\ IsFiniteSet(UpTo(x)) BY <1>1
  <2> HIDE DEF UpTo
  <2>3. UpTo(x) # UpTo(y) BY <2>1
  <2>4. Cardinality(UpTo(x)) <= Cardinality(UpTo(y))
        /\ (Cardinality(UpTo(x)) = Cardinality(UpTo(y)) => UpTo(x) = UpTo(y))
    BY <2>1, <2>2, FS_Subset
  <2>5. Cardinality(UpTo(x)) \in Nat /\ Cardinality(UpTo(y)) \in Nat
    BY <2>2, FS_CardinalityType
  <2> QED BY <2>3, <2>4, <2>5
<1>3. nth \in [S -> 1 .. n] BY <1>1
<1>4. \A x, y \in S : x < y => nth[x] < nth[y] BY <1>2
<1>5. \A x, y \in S : x # y => x < y \/ y < x OBVIOUS
<1> HIDE DEF nth, n
<1>6. \A x, y \in S : nth[x] = nth[y] => x = y
  <2> SUFFICES ASSUME NEW x \in S, NEW y \in S, nth[x] = nth[y], x # y PROVE FALSE
    OBVIOUS
  <2>1. nth[x] \in Int /\ nth[y] \in Int BY <1>0, <1>3
  <2> QED BY <1>4, <1>5, <2>1
<1>7. nth \in Injection(S, 1 .. n) BY <1>3, <1>6 DEF Injection, IsInjective
<1>8. nth \in Surjection(S, 1 .. n)
  <2>1. IsFiniteSet(1 .. n) /\ Cardinality(1 .. n) = n BY <1>0, Segment
  <2>2. Cardinality(S) = Cardinality(1 .. n) BY <2>1 DEF n
  <2> QED BY <1>7, <2>1, <2>2, FS_Injection
<1>9. \A i \in 1 .. n : \E x \in S : nth[x] = i BY <1>8 DEF Surjection
<1> DEFINE s == [i \in 1 .. n |-> CHOOSE x \in S : nth[x] = i]
<1>10. \A i \in 1 .. n : s[i] \in S /\ nth[s[i]] = i BY <1>9
<1>11. s \in [1 .. n -> S] BY <1>10
<1> HIDE DEF s
<1>12. \A x \in S : \E i \in 1 .. n : s[i] = x
  <2> SUFFICES ASSUME NEW x \in S PROVE s[nth[x]] = x
    BY <1>3
  <2> QED BY <1>3, <1>6, <1>10
<1>13. ASSUME NEW i \in 1 .. n, NEW j \in 1 .. n, i < j PROVE s[i] < s[j]
  <2>1. s[i] \in S /\ s[j] \in S /\ nth[s[i]] = i /\ nth[s[j]] = j BY <1>10
  <2>2. s[i] # s[j] BY <1>13, <2>1
  <2>3. ~ (s[j] < s[i])
    <3> SUFFICES ASSUME s[j] < s[i] PROVE FALSE
      OBVIOUS
    <3>1. nth[s[j]] < nth[s[i]] BY <1>4, <2>1
    <3> QED BY <1>0, <1>13, <2>1, <3>1
  <2> QED BY <1>5, <2>1, <2>2, <2>3
<1> QED BY <1>11, <1>12, <1>13 DEF n

(* Counting off leaves none out.                                           *)
LEMMA AscendingOnto ==
    ASSUME NEW S \in SUBSET Int, IsFiniteSet(S), NEW s \in [1 .. Cardinality(S) -> S],
           \A i, j \in 1 .. Cardinality(S) : i < j => s[i] < s[j]
    PROVE  IsInjective(s) /\ \A x \in S : \E i \in 1 .. Cardinality(S) : s[i] = x
<1> DEFINE n == Cardinality(S)
<1>0. n \in Nat BY FS_CardinalityType
<1>1. \A i, j \in 1 .. n : s[i] = s[j] => i = j
  <2> SUFFICES ASSUME NEW i \in 1 .. n, NEW j \in 1 .. n, s[i] = s[j], i # j PROVE FALSE
    OBVIOUS
  <2>1. i < j \/ j < i BY <1>0
  <2>2. s[i] \in Int /\ s[j] \in Int OBVIOUS
  <2> QED BY <2>1, <2>2
<1>2. IsInjective(s) BY <1>1 DEF IsInjective
<1> HIDE DEF n
<1>3. s \in Injection(1 .. n, S) BY <1>1 DEF Injection, IsInjective, n
<1>4. IsFiniteSet(1 .. n) /\ Cardinality(1 .. n) = n BY <1>0, Segment
<1>5. s \in Surjection(1 .. n, S) BY <1>3, <1>4, FS_Injection DEF n
<1> QED BY <1>2, <1>5 DEF Surjection, n

-----------------------------------------------------------------------------
(* LruCache: what refresh() does to a list.                                *)

\* x is in s at j, and not before.
FirstAt(s, x, j) == j \in 1 .. Len(s) /\ s[j] = x /\ \A i \in 1 .. j - 1 : s[i] # x

\* t is s with the element at j moved to the front.
MovedUp(t, s, x, j) ==
    /\ Len(t) = Len(s)
    /\ \A i \in 1 .. Len(s) : t[i] = IF i = 1 THEN x ELSE IF i <= j THEN s[i - 1] ELSE s[i]

(* refresh() of an element that is there: those before it move one place   *)
(* back, those after it stay.                                              *)
LEMMA FrontOfThere ==
    ASSUME NEW S, NEW s \in Seq(S), NEW x \in S, NEW j, FirstAt(s, x, j)
    PROVE  ToFront(x, s) \in Seq(S) /\ MovedUp(ToFront(x, s), s, x, j)
<1> SUFFICES ASSUME j \in 1 .. Len(s), s[j] = x, \A i \in 1 .. j - 1 : s[i] # x
             PROVE  /\ ToFront(x, s) \in Seq(S) /\ Len(ToFront(x, s)) = Len(s)
                    /\ \A i \in 1 .. Len(s) :
                          ToFront(x, s)[i] = IF i = 1 THEN x ELSE IF i <= j THEN s[i - 1] ELSE s[i]
  BY DEF FirstAt, MovedUp
<1>0. Len(s) \in Nat /\ <<x>> \in Seq(S) /\ Len(<<x>>) = 1 /\ <<x>>[1] = x OBVIOUS
<1> DEFINE before == SubSeq(s, 1, j - 1)
           after == SubSeq(s, j + 1, Len(s))
<1>1. /\ before \in Seq(S) /\ Len(before) = j - 1
      /\ \A i \in 1 .. j - 1 : before[i] = s[i]
  BY <1>0, SubSeqProperties
<1>2. /\ after \in Seq(S) /\ Len(after) = Len(s) - j
      /\ \A i \in 1 .. Len(s) - j : after[i] = s[j + i]
  BY <1>0, SubSeqProperties
<1> HIDE DEF before, after
<1> DEFINE rest == before \o after
<1>3. /\ rest \in Seq(S) /\ Len(rest) = Len(s) - 1
      /\ \A i \in 1 .. Len(s) - 1 : rest[i] = IF i < j THEN s[i] ELSE s[i + 1]
  <2>1. /\ rest \in Seq(S) /\ Len(rest) = Len(before) + Len(after)
        /\ \A i \in 1 .. Len(before) + Len(after) :
              rest[i] = IF i <= Len(before) THEN before[i] ELSE after[i - Len(before)]
    BY <1>1, <1>2, ConcatProperties
  <2>2. PICK l \in Nat, n \in Nat : l = Len(s) /\ n = j /\ n \in 1 .. l BY <1>0
  <2>3. Len(rest) = l - 1 /\ Len(before) = n - 1 BY <1>1, <1>2, <2>1, <2>2
  <2>4. ASSUME NEW i \in 1 .. l - 1 PROVE rest[i] = IF i < n THEN s[i] ELSE s[i + 1]
    <3>1. i \in 1 .. Len(before) + Len(after) BY <1>1, <1>2, <2>2
    <3>2. CASE i < n
      <4>1. i \in 1 .. n - 1 /\ i <= n - 1 BY <3>2
      <4> QED BY <1>1, <2>1, <2>2, <2>3, <3>1, <3>2, <4>1
    <3>3. CASE ~ (i < n)
      <4>1. PICK m \in Nat : m = i - (n - 1) /\ m \in 1 .. l - n /\ n + m = i + 1 /\ ~ (i <= n - 1)
        BY <3>3
      <4>2. rest[i] = after[m] BY <2>1, <2>3, <3>1, <4>1
      <4>3. after[m] = s[n + m] BY <1>2, <2>2, <4>1
      <4> QED BY <3>3, <4>1, <4>2, <4>3
    <3> QED BY <3>2, <3>3
  <2> QED BY <2>1, <2>2, <2>3, <2>4
<1>4. RemoveFirst(s, x) = rest
  <2> DEFINE I == {i \in 1 .. Len(s) : s[i] = x}
  <2>1. j \in I /\ (\A i \in I : j <= i) /\ I \subseteq Int BY <1>0
  <2>2. Min(I) = j
    <3> HIDE DEF I
    <3>1. \A m \in I : (\A i \in I : m <= i) => m = j BY <2>1
    <3> QED BY <2>1, <3>1 DEF Min
  <2>3. SelectInSeq(s, LAMBDA v : v = x) = j BY <2>1, <2>2 DEF SelectInSeq
  <2>4. \E i \in 1 .. Len(s) : s[i] = x OBVIOUS
  <2> QED BY <2>3, <2>4 DEF RemoveFirst, RemoveAt, before, after
<1> HIDE DEF rest
<1>5. /\ <<x>> \o rest \in Seq(S) /\ Len(<<x>> \o rest) = Len(<<x>>) + Len(rest)
      /\ \A i \in 1 .. Len(<<x>>) + Len(rest) :
            (<<x>> \o rest)[i] = IF i <= Len(<<x>>) THEN <<x>>[i] ELSE rest[i - Len(<<x>>)]
  BY <1>0, <1>3, ConcatProperties
<1> QED BY <1>0, <1>3, <1>4, <1>5 DEF ToFront

(* An element that is not there is put before all others.                  *)
LEMMA FrontOfNew ==
    ASSUME NEW S, NEW s \in Seq(S), NEW x \in S, \A i \in 1 .. Len(s) : s[i] # x
    PROVE  /\ ToFront(x, s) \in Seq(S) /\ Len(ToFront(x, s)) = Len(s) + 1
           /\ \A i \in 1 .. Len(s) + 1 :
                 ToFront(x, s)[i] = IF i = 1 THEN x ELSE s[i - 1]
<1>0. Len(s) \in Nat /\ <<x>> \in Seq(S) /\ Len(<<x>>) = 1 /\ <<x>>[1] = x OBVIOUS
<1>1. RemoveFirst(s, x) = s BY DEF RemoveFirst
<1>2. /\ <<x>> \o s \in Seq(S) /\ Len(<<x>> \o s) = Len(<<x>>) + Len(s)
      /\ \A i \in 1 .. Len(<<x>>) + Len(s) :
            (<<x>> \o s)[i] = IF i <= Len(<<x>>) THEN <<x>>[i] ELSE s[i - Len(<<x>>)]
  BY <1>0, ConcatProperties
<1> QED BY <1>0, <1>1, <1>2 DEF ToFront

-----------------------------------------------------------------------------
(* LruCache: the inductive invariant.  The list is the front of refreshed, *)
(* the keys in the order of their last use.                                *)

\* One node more than the cache may hold: emplace() makes room first.
Nodes == 1 .. capacity_ + 1

LruInv ==
    /\ capacity_ \in Nat \ {0}
    /\ items_ \in Seq(Nodes) /\ Len(items_) <= capacity_ /\ IsInjective(items_)
    /\ cell \in [ToSet(items_) -> [key : Keys, value : Values]]
    /\ map_ \in [Cached -> Nodes] /\ Cached \subseteq Keys
    /\ \A k \in Cached : map_[k] \in DOMAIN cell /\ cell[map_[k]].key = k
    /\ \A n \in DOMAIN cell : cell[n].key \in Cached /\ map_[cell[n].key] = n
    /\ last \in [Keys -> Values \cup {NoValue}]
    /\ \A k \in Cached : cell[map_[k]].value = last[k]
    /\ refreshed \in Seq(Keys) /\ Len(items_) <= Len(refreshed)
    /\ \A i \in 1 .. Len(items_) : cell[items_[i]].key = refreshed[i]
    /\ Len(items_) < capacity_ => Len(refreshed) = Len(items_)

(* A cached key has its node in the list at the place that it has among    *)
(* the keys in the order of their last use.                                *)
LEMMA ListOrder ==
    ASSUME LruInv, NEW k \in Cached
    PROVE  \E j \in 1 .. Len(items_) :
               /\ items_[j] = map_[k] /\ refreshed[j] = k
               /\ \A i \in 1 .. j - 1 : items_[i] # map_[k] /\ refreshed[i] # k
<1>1. Len(items_) \in Nat /\ DOMAIN items_ = 1 .. Len(items_) BY DEF LruInv
<1>2. PICK j \in 1 .. Len(items_) : items_[j] = map_[k]
  BY <1>1 DEF LruInv, ToSet
<1>3. \A i \in 1 .. j - 1 : items_[i] # map_[k]
  BY <1>1, <1>2 DEF LruInv, IsInjective
<1>4. refreshed[j] = k BY <1>2 DEF LruInv
<1>5. \A i \in 1 .. j - 1 : refreshed[i] # k
  <2> SUFFICES ASSUME NEW i \in 1 .. j - 1, refreshed[i] = k PROVE FALSE
    OBVIOUS
  <2>0. i \in DOMAIN items_ BY <1>1
  <2>1. i \in 1 .. Len(items_) /\ items_[i] \in DOMAIN cell BY <1>1, <2>0 DEF LruInv, ToSet
  <2>2. cell[items_[i]].key = k BY <2>1 DEF LruInv
  <2>3. map_[k] = items_[i] BY <2>1, <2>2 DEF LruInv
  <2> QED BY <1>3, <2>3
<1> QED BY <1>2, <1>3, <1>4, <1>5

(* Moving one to the front changes neither the nodes nor that they are     *)
(* there once each.                                                        *)
LEMMA FrontKeeps ==
    ASSUME NEW S, NEW s \in Seq(S), IsInjective(s), NEW x \in S, NEW j \in 1 .. Len(s), s[j] = x
    PROVE  ToSet(ToFront(x, s)) = ToSet(s) /\ IsInjective(ToFront(x, s))
<1> DEFINE t == ToFront(x, s)
<1>0. Len(s) \in Nat /\ DOMAIN s = 1 .. Len(s) OBVIOUS
<1>1. \A i \in 1 .. j - 1 : s[i] # x BY <1>0 DEF IsInjective
<1>2. /\ t \in Seq(S) /\ Len(t) = Len(s)
      /\ \A i \in 1 .. Len(s) : t[i] = IF i = 1 THEN x ELSE IF i <= j THEN s[i - 1] ELSE s[i]
  <2>1. FirstAt(s, x, j) BY <1>1 DEF FirstAt
  <2> QED BY <2>1, FrontOfThere DEF MovedUp
<1> HIDE DEF t
<1>3. DOMAIN t = 1 .. Len(s) BY <1>2
<1>4. IsInjective(t) BY <1>0, <1>2, <1>3 DEF IsInjective
<1>5. ASSUME NEW i \in 1 .. Len(s) PROVE t[i] \in ToSet(s)
  <2> DEFINE p == IF i = 1 THEN j ELSE IF i <= j THEN i - 1 ELSE i
  <2>1. p \in 1 .. Len(s) /\ t[i] = s[p]
    <3>1. t[i] = IF i = 1 THEN x ELSE IF i <= j THEN s[i - 1] ELSE s[i] BY <1>2
    <3>2. CASE i = 1 BY <3>1, <3>2
    <3>3. CASE i # 1 /\ i <= j BY <1>0, <3>1, <3>3
    <3>4. CASE i # 1 /\ ~ (i <= j) BY <1>0, <3>1, <3>4
    <3> QED BY <3>2, <3>3, <3>4
  <2> QED BY <1>0, <2>1 DEF ToSet
<1>6. ASSUME NEW i \in 1 .. Len(s) PROVE s[i] \in ToSet(t)
  <2> DEFINE p == IF i = j THEN 1 ELSE IF i < j THEN i + 1 ELSE i
  <2>1. p \in 1 .. Len(s) /\ t[p] = s[i] BY <1>0, <1>2
  <2> QED BY <1>3, <2>1 DEF ToSet
<1>7. ToSet(t) = ToSet(s) BY <1>0, <1>3, <1>5, <1>6 DEF ToSet
<1> QED BY <1>4, <1>7 DEF t

(* There are as many keys in the map as nodes in the list.                 *)
LEMMA CachedCount ==
    ASSUME LruInv
    PROVE  IsFiniteSet(Cached) /\ Cardinality(Cached) = Len(items_)
<1>0. Len(items_) \in Nat /\ DOMAIN items_ = 1 .. Len(items_) BY DEF LruInv
<1> DEFINE keys == [i \in 1 .. Len(items_) |-> cell[items_[i]].key]
<1>1. \A i \in 1 .. Len(items_) : items_[i] \in DOMAIN cell BY <1>0 DEF LruInv, ToSet
<1>2. \A i \in 1 .. Len(items_) : keys[i] \in Cached /\ map_[keys[i]] = items_[i]
  BY <1>1 DEF LruInv
<1>3. \A i, j \in 1 .. Len(items_) : keys[i] = keys[j] => i = j
  BY <1>0, <1>2 DEF LruInv, IsInjective
<1>4. \A k \in Cached : \E i \in 1 .. Len(items_) : keys[i] = k
  <2> SUFFICES ASSUME NEW k \in Cached PROVE \E i \in 1 .. Len(items_) : keys[i] = k
    OBVIOUS
  <2>1. PICK j \in 1 .. Len(items_) : items_[j] = map_[k] BY ListOrder
  <2>2. cell[map_[k]].key = k BY DEF LruInv
  <2> QED BY <2>1, <2>2
<1>5. keys \in [1 .. Len(items_) -> Cached] BY <1>2
<1> HIDE DEF keys
<1>6. keys \in Bijection(1 .. Len(items_), Cached)
  BY <1>3, <1>4, <1>5 DEF Bijection, Injection, Surjection, IsInjective
<1>7. IsFiniteSet(1 .. Len(items_)) /\ Cardinality(1 .. Len(items_)) = Len(items_)
  BY <1>0, Segment
<1> QED BY <1>6, <1>7, FS_Bijection DEF ExistsBijection

(* There is always a node for one more key.                                *)
LEMMA NodeLeft ==
    ASSUME LruInv
    PROVE  FreshNode \in Nodes \ DOMAIN cell
<1>0. Len(items_) \in Nat /\ DOMAIN items_ = 1 .. Len(items_) /\ Len(items_) < capacity_ + 1
      /\ capacity_ + 1 \in Nat
  BY DEF LruInv
<1>1. \E n \in Nodes : n \notin DOMAIN cell
  <2> SUFFICES ASSUME \A n \in Nodes : n \in DOMAIN cell PROVE FALSE
    OBVIOUS
  <2>1. \A n \in Nodes : \E i \in 1 .. Len(items_) : items_[i] = n
    BY <1>0 DEF LruInv, ToSet
  <2>2. items_ \in Surjection(1 .. Len(items_), Nodes)
    BY <1>0, <2>1 DEF LruInv, Surjection
  <2>3. /\ IsFiniteSet(1 .. Len(items_)) /\ Cardinality(1 .. Len(items_)) = Len(items_)
        /\ Cardinality(Nodes) = capacity_ + 1
    BY <1>0, Segment DEF Nodes
  <2>4. Cardinality(Nodes) <= Len(items_) BY <2>2, <2>3, FS_Surjection
  <2> QED BY <1>0, <2>3, <2>4
<1> QED BY <1>1 DEF FreshNode, Nodes

(* The invariant says what the cache promises.                             *)
LEMMA InvGives == LruInv => KeepsMostRecent
<1> SUFFICES ASSUME LruInv PROVE KeepsMostRecent
  OBVIOUS
<1>0. /\ Len(items_) \in Nat /\ DOMAIN items_ = 1 .. Len(items_) /\ Len(refreshed) \in Nat
      /\ Len(items_) <= Len(refreshed)
  BY DEF LruInv
<1>1. MapMatchesList BY CachedCount DEF MapMatchesList, LruInv
<1>2. KeysOf(items_) = SubSeq(refreshed, 1, Len(items_))
  <2>1. \A i \in 1 .. Len(items_) : refreshed[i] \in Keys BY <1>0 DEF LruInv
  <2>2. KeysOf(items_) = [i \in 1 .. Len(items_) |-> refreshed[i]]
    BY <1>0 DEF KeysOf, LruInv
  <2>3. SubSeq(refreshed, 1, Len(items_)) = [i \in 1 .. Len(items_) |-> refreshed[i]]
    BY <1>0
  <2> QED BY <2>2, <2>3
<1> QED BY <1>1, <1>2 DEF KeepsMostRecent, LruInv

-----------------------------------------------------------------------------
(* An empty cache has the invariant.                                       *)
LEMMA LruStart == Init => LruInv
<1> SUFFICES ASSUME Init PROVE LruInv
  OBVIOUS
<1>1. capacity_ \in Nat \ {0} BY CapacitiesAssumption DEF Init
<1>2. /\ items_ = <<>> /\ Len(items_) = 0 /\ DOMAIN items_ = {} /\ items_ \in Seq(Nodes)
      /\ refreshed = <<>> /\ Len(refreshed) = 0 /\ refreshed \in Seq(Keys)
      /\ ToSet(items_) = {} /\ DOMAIN cell = {} /\ Cached = {}
      /\ cell = [n \in {} |-> n] /\ map_ = [n \in {} |-> n]
      /\ last = [k \in Keys |-> NoValue]
  BY DEF Init, Cached, ToSet
<1>3. cell \in [ToSet(items_) -> [key : Keys, value : Values]] /\ map_ \in [Cached -> Nodes]
  BY <1>2
<1>4. last \in [Keys -> Values \cup {NoValue}] BY <1>2
<1>5. IsInjective(items_) BY <1>2 DEF IsInjective
<1>6. Len(items_) <= capacity_ BY <1>1, <1>2
<1>7. 1 .. Len(items_) = {} BY <1>2
<1> QED BY <1>1, <1>2, <1>3, <1>4, <1>5, <1>6, <1>7 DEF LruInv

(* Both lists after a key of the cache came to their front.                *)
LEMMA HitFront ==
    ASSUME LruInv, NEW k \in Cached
    PROVE  LET t == ToFront(map_[k], items_)
               r == ToFront(k, refreshed) IN
           /\ t \in Seq(Nodes) /\ Len(t) = Len(items_) /\ IsInjective(t) /\ ToSet(t) = ToSet(items_)
           /\ r \in Seq(Keys) /\ Len(r) = Len(refreshed)
           /\ \A i \in 1 .. Len(items_) : cell[t[i]].key = r[i]
<1> DEFINE t == ToFront(map_[k], items_)
           r == ToFront(k, refreshed)
<1>0. /\ Len(items_) \in Nat /\ DOMAIN items_ = 1 .. Len(items_) /\ Len(refreshed) \in Nat
      /\ Len(items_) <= Len(refreshed) /\ map_[k] \in Nodes /\ k \in Keys
      /\ items_ \in Seq(Nodes) /\ refreshed \in Seq(Keys)
  BY DEF LruInv
<1>1. PICK j \in 1 .. Len(items_) :
         /\ items_[j] = map_[k] /\ refreshed[j] = k
         /\ \A i \in 1 .. j - 1 : items_[i] # map_[k] /\ refreshed[i] # k
  BY ListOrder
<1>2. /\ t \in Seq(Nodes) /\ Len(t) = Len(items_)
      /\ \A i \in 1 .. Len(items_) :
            t[i] = IF i = 1 THEN map_[k] ELSE IF i <= j THEN items_[i - 1] ELSE items_[i]
  <2>1. PICK n \in Nodes : n = map_[k] BY <1>0
  <2>2. FirstAt(items_, n, j) BY <1>1, <2>1 DEF FirstAt
  <2>3. ToFront(n, items_) \in Seq(Nodes) /\ MovedUp(ToFront(n, items_), items_, n, j)
    BY <1>0, <2>2, FrontOfThere
  <2> QED BY <2>1, <2>3 DEF MovedUp
<1>3. /\ j \in 1 .. Len(refreshed) /\ refreshed[j] = k
      /\ \A i \in 1 .. j - 1 : refreshed[i] # k
  BY <1>0, <1>1
<1>4. /\ r \in Seq(Keys) /\ Len(r) = Len(refreshed)
      /\ \A i \in 1 .. Len(refreshed) :
            r[i] = IF i = 1 THEN k ELSE IF i <= j THEN refreshed[i - 1] ELSE refreshed[i]
  <2>1. FirstAt(refreshed, k, j) BY <1>3 DEF FirstAt
  <2>2. r \in Seq(Keys) /\ MovedUp(r, refreshed, k, j) BY <1>0, <2>1, FrontOfThere
  <2> QED BY <2>2 DEF MovedUp
<1>5. ToSet(t) = ToSet(items_) /\ IsInjective(t) BY <1>0, <1>1, FrontKeeps DEF LruInv
<1> HIDE DEF t, r
<1>6. cell[map_[k]].key = k /\ \A i \in 1 .. Len(items_) : cell[items_[i]].key = refreshed[i]
  BY DEF LruInv
<1>7. ASSUME NEW i \in 1 .. Len(items_) PROVE cell[t[i]].key = r[i]
  <2>1. i \in 1 .. Len(refreshed) BY <1>0
  <2>2. CASE i = 1
    <3>1. t[i] = map_[k] /\ r[i] = k BY <1>2, <1>4, <2>1, <2>2
    <3> QED BY <1>6, <3>1
  <2>3. CASE i # 1 /\ i <= j
    <3>1. t[i] = items_[i - 1] /\ r[i] = refreshed[i - 1] BY <1>2, <1>4, <2>1, <2>3
    <3>2. i - 1 \in 1 .. Len(items_) BY <1>0, <2>3
    <3> QED BY <1>6, <3>1, <3>2
  <2>4. CASE i # 1 /\ ~ (i <= j)
    <3>1. t[i] = items_[i] /\ r[i] = refreshed[i] BY <1>2, <1>4, <2>1, <2>4
    <3> QED BY <1>6, <3>1
  <2> QED BY <2>2, <2>3, <2>4
<1> QED BY <1>2, <1>4, <1>5, <1>7 DEF t, r

(* A step that leaves the cell's keys and the map alone.                   *)
LEMMA HitKeeps ==
    ASSUME LruInv, NEW k \in Cached, NEW v \in Values, EmplaceHit(k, v)
    PROVE  LruInv'
<1> DEFINE n == map_[k]
<1>0. /\ items_' = ToFront(n, items_) /\ refreshed' = ToFront(k, refreshed)
      /\ cell' = [cell EXCEPT ![n].value = v] /\ last' = [last EXCEPT ![k] = v]
      /\ UNCHANGED <<capacity_, map_>>
  BY DEF EmplaceHit, Refresh
<1>1. /\ items_' \in Seq(Nodes) /\ Len(items_') = Len(items_)
      /\ IsInjective(items_') /\ ToSet(items_') = ToSet(items_)
      /\ refreshed' \in Seq(Keys) /\ Len(refreshed') = Len(refreshed)
      /\ \A i \in 1 .. Len(items_) : cell[items_'[i]].key = refreshed'[i]
  BY <1>0, HitFront
<1>2. /\ n \in DOMAIN cell /\ cell[n].key = k /\ k \in Keys /\ Cached' = Cached /\ Nodes' = Nodes
      /\ cell \in [ToSet(items_) -> [key : Keys, value : Values]]
      /\ last \in [Keys -> Values \cup {NoValue}]
  BY <1>0 DEF LruInv, Cached, Nodes
<1>3. /\ cell' \in [ToSet(items_) -> [key : Keys, value : Values]]
      /\ \A m \in DOMAIN cell : cell'[m].key = cell[m].key
      /\ \A m \in DOMAIN cell : cell'[m].value = IF m = n THEN v ELSE cell[m].value
      /\ DOMAIN cell' = DOMAIN cell
  <2>1. cell[n] \in [key : Keys, value : Values] BY <1>2
  <2>2. [cell[n] EXCEPT !.value = v] \in [key : Keys, value : Values] BY <2>1
  <2>3. cell' = [cell EXCEPT ![n] = [cell[n] EXCEPT !.value = v]] BY <1>0
  <2> QED BY <1>2, <2>1, <2>2, <2>3
<1>4. /\ last' \in [Keys -> Values \cup {NoValue}]
      /\ \A x \in Keys : last'[x] = IF x = k THEN v ELSE last[x]
  BY <1>0, <1>2
<1> HIDE DEF n
<1>5. \A x \in Cached : cell'[map_[x]].value = last'[x]
  <2> SUFFICES ASSUME NEW x \in Cached PROVE cell'[map_[x]].value = last'[x]
    OBVIOUS
  <2>1. x \in Keys /\ map_[x] \in DOMAIN cell /\ cell[map_[x]].key = x
        /\ cell[map_[x]].value = last[x]
    BY DEF LruInv
  <2> QED BY <1>2, <1>3, <1>4, <2>1 DEF n
<1>6. \A i \in 1 .. Len(items_) : cell'[items_'[i]].key = refreshed'[i]
  <2>1. \A i \in 1 .. Len(items_) : items_'[i] \in DOMAIN cell
    <3>1. DOMAIN items_' = 1 .. Len(items_) BY <1>1
    <3> QED BY <1>1, <1>2, <3>1 DEF ToSet
  <2> QED BY <1>1, <1>3, <2>1
<1>7. /\ capacity_ \in Nat \ {0} /\ Len(items_) <= capacity_
      /\ map_ \in [Cached -> Nodes] /\ Cached \subseteq Keys
      /\ Len(items_) <= Len(refreshed)
      /\ (Len(items_) < capacity_ => Len(refreshed) = Len(items_))
  BY DEF LruInv
<1>8. /\ \A x \in Cached : map_[x] \in DOMAIN cell' /\ cell'[map_[x]].key = x
      /\ \A m \in DOMAIN cell' : cell'[m].key \in Cached /\ map_[cell'[m].key] = m
  BY <1>3 DEF LruInv
<1> QED BY <1>0, <1>1, <1>2, <1>3, <1>4, <1>5, <1>6, <1>7, <1>8 DEF LruInv

(* at() refreshes a cached key and leaves the rest, and changes nothing    *)
(* for one that is not.                                                    *)
LEMMA AtKeeps ==
    ASSUME LruInv, NEW k \in Keys, At(k)
    PROVE  LruInv'
<1>0. UNCHANGED <<capacity_, cell, map_, last>> BY DEF At
<1>1. CASE k \in Cached
  <2>0. items_' = ToFront(map_[k], items_) /\ refreshed' = ToFront(k, refreshed)
    BY <1>1 DEF At, Refresh
  <2>1. /\ items_' \in Seq(Nodes) /\ Len(items_') = Len(items_)
        /\ IsInjective(items_') /\ ToSet(items_') = ToSet(items_)
        /\ refreshed' \in Seq(Keys) /\ Len(refreshed') = Len(refreshed)
        /\ \A i \in 1 .. Len(items_) : cell[items_'[i]].key = refreshed'[i]
    BY <1>1, <2>0, HitFront
  <2>2. Cached' = Cached /\ Nodes' = Nodes BY <1>0 DEF Cached, Nodes
  <2> QED BY <1>0, <2>1, <2>2 DEF LruInv
<1>2. CASE k \notin Cached
  <2>1. UNCHANGED <<items_, refreshed>> BY <1>2 DEF At
  <2> QED BY <1>0, <2>1 DEF LruInv, Cached, Nodes
<1> QED BY <1>1, <1>2

(* What is kept when one more comes: a front part of the list.             *)
LEMMA KeptIs ==
    ASSUME LruInv
    PROVE  \E n \in 0 .. Len(items_) :
              /\ n < capacity_ /\ n >= Len(items_) - 1
              /\ Len(items_) < capacity_ => n = Len(items_)
              /\ Kept.items \in Seq(Nodes) /\ Len(Kept.items) = n
              /\ \A i \in 1 .. n : Kept.items[i] = items_[i]
              /\ Kept.cell \in [ToSet(Kept.items) -> [key : Keys, value : Values]]
              /\ \A m \in ToSet(Kept.items) : m \in DOMAIN cell /\ Kept.cell[m] = cell[m]
              /\ DOMAIN Kept.map = {cell[m].key : m \in ToSet(Kept.items)}
              /\ \A x \in DOMAIN Kept.map : x \in Cached /\ Kept.map[x] = map_[x]
                                            /\ map_[x] \in ToSet(Kept.items)
<1>0. /\ Len(items_) \in Nat /\ DOMAIN items_ = 1 .. Len(items_) /\ capacity_ \in Nat \ {0}
      /\ Len(items_) <= capacity_ /\ items_ \in Seq(Nodes)
  BY DEF LruInv
<1>1. CASE ~ Evicting
  <2>1. Kept.items = items_ /\ Kept.cell = cell /\ Kept.map = map_ BY <1>1 DEF Kept
  <2>2. \A m \in ToSet(items_) : cell[m].key \in Cached BY DEF LruInv
  <2>3. \A x \in Cached : map_[x] \in ToSet(items_) /\ cell[map_[x]].key = x BY DEF LruInv
  <2>4. DOMAIN map_ = {cell[m].key : m \in ToSet(items_)}
    BY <2>2, <2>3 DEF Cached
  <2>5. Len(items_) < capacity_ BY <1>0, <1>1 DEF Evicting
  <2>6. \A x \in DOMAIN map_ : x \in Cached BY DEF Cached
  <2>7. cell \in [ToSet(items_) -> [key : Keys, value : Values]] BY DEF LruInv
  <2>8. /\ \A m \in ToSet(Kept.items) : m \in DOMAIN cell /\ Kept.cell[m] = cell[m]
        /\ Kept.cell \in [ToSet(Kept.items) -> [key : Keys, value : Values]]
        /\ DOMAIN Kept.map = {cell[m].key : m \in ToSet(Kept.items)}
        /\ \A x \in DOMAIN Kept.map : x \in Cached /\ Kept.map[x] = map_[x]
                                      /\ map_[x] \in ToSet(Kept.items)
    BY <2>1, <2>3, <2>4, <2>6, <2>7
  <2> SUFFICES \E n \in 0 .. Len(items_) :
                  /\ n < capacity_ /\ n >= Len(items_) - 1
                  /\ Len(items_) < capacity_ => n = Len(items_)
                  /\ Kept.items \in Seq(Nodes) /\ Len(Kept.items) = n
                  /\ \A i \in 1 .. n : Kept.items[i] = items_[i]
    BY <2>8
  <2> WITNESS Len(items_) \in 0 .. Len(items_)
  <2> QED BY <1>0, <2>1, <2>5
<1>2. CASE Evicting
  <2> DEFINE n == Len(items_) - 1
             victim == items_[Len(items_)]
             rest == SubSeq(items_, 1, n)
  <2>0. Len(items_) = capacity_ /\ n \in Nat /\ Len(items_) \in DOMAIN items_
    <3>1. Len(items_) >= capacity_ BY <1>2 DEF Evicting
    <3>2. Len(items_) \in Nat /\ capacity_ \in Nat /\ Len(items_) <= capacity_ BY <1>0
    <3>3. Len(items_) = capacity_ BY <3>1, <3>2
    <3> QED BY <1>0, <3>3
  <2>1. /\ Kept.items = rest /\ Kept.cell = Without(cell, victim)
        /\ Kept.map = Without(map_, cell[victim].key)
    BY <1>2 DEF Kept, Front, Last
  <2>2. rest \in Seq(Nodes) /\ Len(rest) = n /\ \A i \in 1 .. n : rest[i] = items_[i]
    BY <1>0, <2>0, SubSeqProperties
  <2> HIDE DEF rest
  <2>3. DOMAIN rest = 1 .. n BY <2>2
  <2>4. ToSet(rest) = ToSet(items_) \ {victim}
    <3>1. \A i \in 1 .. n : items_[i] # victim BY <1>0, <2>0 DEF LruInv, IsInjective
    <3> QED BY <1>0, <2>0, <2>2, <2>3, <3>1 DEF ToSet
  <2>5. cell \in [ToSet(items_) -> [key : Keys, value : Values]] /\ victim \in ToSet(items_)
    BY <2>0 DEF LruInv, ToSet
  <2> HIDE DEF victim
  <2>6. /\ Kept.cell \in [ToSet(rest) -> [key : Keys, value : Values]]
        /\ \A m \in ToSet(rest) : m \in DOMAIN cell /\ Kept.cell[m] = cell[m]
    BY <2>1, <2>4, <2>5 DEF Without
  <2>7. /\ \A x \in Cached : map_[x] \in ToSet(items_) /\ cell[map_[x]].key = x
        /\ \A m \in ToSet(items_) : cell[m].key \in Cached /\ map_[cell[m].key] = m
    BY DEF LruInv
  <2>8. /\ DOMAIN Kept.map = Cached \ {cell[victim].key}
        /\ \A x \in DOMAIN Kept.map : Kept.map[x] = map_[x]
    BY <2>1 DEF Without, Cached
  <2>9. \A x \in DOMAIN Kept.map : x \in Cached /\ map_[x] \in ToSet(rest)
    BY <2>4, <2>7, <2>8
  <2>10. DOMAIN Kept.map = {cell[m].key : m \in ToSet(rest)}
    <3>1. \A m \in ToSet(rest) : cell[m].key \in DOMAIN Kept.map
      BY <2>4, <2>5, <2>7, <2>8
    <3>2. \A x \in DOMAIN Kept.map : \E m \in ToSet(rest) : x = cell[m].key
      BY <2>7, <2>9
    <3> QED BY <3>1, <3>2
  <2>11. n \in 0 .. Len(items_) /\ n < capacity_ /\ n >= Len(items_) - 1
        /\ (Len(items_) < capacity_ => n = Len(items_))
    BY <1>0, <2>0
  <2> SUFFICES \E m \in 0 .. Len(items_) :
                  /\ m < capacity_ /\ m >= Len(items_) - 1
                  /\ Len(items_) < capacity_ => m = Len(items_)
                  /\ Kept.items \in Seq(Nodes) /\ Len(Kept.items) = m
                  /\ \A i \in 1 .. m : Kept.items[i] = items_[i]
    BY <2>1, <2>6, <2>8, <2>9, <2>10
  <2> HIDE DEF n
  <2> QED BY <2>1, <2>2, <2>11
<1> QED BY <1>1, <1>2

(* refreshed after a key that is not cached.                               *)
LEMMA MissRefreshes ==
    ASSUME LruInv, NEW k \in Keys \ Cached
    PROVE  LET r == ToFront(k, refreshed) IN
           /\ r \in Seq(Keys) /\ Len(r) \in Nat /\ Len(r) > 0 /\ r[1] = k
           /\ \A i \in 1 .. Len(items_) : i + 1 <= Len(r) => r[i + 1] = refreshed[i]
           /\ Len(r) >= Len(items_) /\ Len(r) >= Len(refreshed)
           /\ Len(refreshed) = Len(items_) => Len(r) = Len(items_) + 1
<1> DEFINE r == ToFront(k, refreshed)
<1>0. /\ Len(items_) \in Nat /\ DOMAIN items_ = 1 .. Len(items_) /\ Len(refreshed) \in Nat
      /\ Len(items_) <= Len(refreshed) /\ refreshed \in Seq(Keys)
  BY DEF LruInv
<1>1. \A i \in 1 .. Len(items_) : refreshed[i] # k
  <2>1. \A i \in 1 .. Len(items_) : items_[i] \in DOMAIN cell BY <1>0 DEF LruInv, ToSet
  <2>2. \A m \in DOMAIN cell : cell[m].key \in Cached BY DEF LruInv
  <2>3. \A i \in 1 .. Len(items_) : cell[items_[i]].key = refreshed[i] BY DEF LruInv
  <2> QED BY <2>1, <2>2, <2>3
<1>2. CASE \A i \in 1 .. Len(refreshed) : refreshed[i] # k
  <2>1. /\ r \in Seq(Keys) /\ Len(r) = Len(refreshed) + 1
        /\ \A i \in 1 .. Len(refreshed) + 1 : r[i] = IF i = 1 THEN k ELSE refreshed[i - 1]
    BY <1>0, <1>2, FrontOfNew
  <2> HIDE DEF r
  <2>2. \A i \in 1 .. Len(items_) : r[i + 1] = refreshed[i] BY <1>0, <2>1
  <2>3. r \in Seq(Keys) /\ Len(r) \in Nat /\ Len(r) > 0 /\ r[1] = k BY <1>0, <2>1
  <2>4. Len(r) >= Len(items_) /\ Len(r) >= Len(refreshed)
        /\ (Len(refreshed) = Len(items_) => Len(r) = Len(items_) + 1)
    BY <1>0, <2>1
  <2> QED BY <2>2, <2>3, <2>4 DEF r
<1>3. CASE \E i \in 1 .. Len(refreshed) : refreshed[i] = k
  <2> DEFINE J == {i \in 1 .. Len(refreshed) : refreshed[i] = k}
  <2>1. J \in SUBSET Nat /\ J # {} BY <1>3
  <2>2. PICK j \in J : \A i \in J : j <= i BY <2>1, LeastNumber
  <2>3. /\ j \in 1 .. Len(refreshed) /\ refreshed[j] = k
        /\ \A i \in 1 .. j - 1 : refreshed[i] # k
    BY <1>0, <2>2
  <2>4. j > Len(items_) BY <1>0, <1>1, <2>3
  <2>5. /\ r \in Seq(Keys) /\ Len(r) = Len(refreshed)
        /\ \A i \in 1 .. Len(refreshed) :
              r[i] = IF i = 1 THEN k ELSE IF i <= j THEN refreshed[i - 1] ELSE refreshed[i]
    <3>1. FirstAt(refreshed, k, j) BY <2>3 DEF FirstAt
    <3>2. r \in Seq(Keys) /\ MovedUp(r, refreshed, k, j) BY <1>0, <3>1, FrontOfThere
    <3> QED BY <3>2 DEF MovedUp
  <2> HIDE DEF r
  <2>6. \A i \in 1 .. Len(items_) : i + 1 <= Len(r) => r[i + 1] = refreshed[i]
    BY <1>0, <2>3, <2>4, <2>5
  <2>7. r \in Seq(Keys) /\ Len(r) \in Nat /\ Len(r) > 0 /\ r[1] = k
    BY <1>0, <2>3, <2>5
  <2>8. Len(r) >= Len(items_) /\ Len(r) >= Len(refreshed) /\ Len(refreshed) # Len(items_)
    BY <1>0, <2>3, <2>4, <2>5
  <2> QED BY <2>6, <2>7, <2>8 DEF r
<1> QED BY <1>2, <1>3

FrontPart(t, s) == Len(t) <= Len(s) /\ \A i \in 1 .. Len(t) : t[i] = s[i]

(* A new node in front of a front part of the list.                        *)
LEMMA PushedFront ==
    \A S : \A s \in Seq(S), f \in S, t \in Seq(S) :
        IsInjective(s) /\ f \notin ToSet(s) /\ FrontPart(t, s) =>
           LET u == <<f>> \o t IN
           /\ u \in Seq(S) /\ Len(u) = Len(t) + 1
           /\ u[1] = f /\ \A i \in 1 .. Len(t) : u[i + 1] = t[i]
           /\ IsInjective(u) /\ ToSet(u) = ToSet(t) \cup {f}
<1> TAKE S
<1> TAKE s \in Seq(S), f \in S, t \in Seq(S)
<1> HAVE IsInjective(s) /\ f \notin ToSet(s) /\ FrontPart(t, s)
<1> DEFINE u == <<f>> \o t
<1>0. /\ Len(s) \in Nat /\ Len(t) \in Nat /\ DOMAIN s = 1 .. Len(s) /\ DOMAIN t = 1 .. Len(t)
      /\ <<f>> \in Seq(S) /\ Len(<<f>>) = 1 /\ <<f>>[1] = f
      /\ Len(t) <= Len(s) /\ \A i \in 1 .. Len(t) : t[i] = s[i]
  BY DEF FrontPart
<1>1. /\ u \in Seq(S) /\ Len(u) = Len(<<f>>) + Len(t)
      /\ \A i \in 1 .. Len(<<f>>) + Len(t) :
             u[i] = IF i <= Len(<<f>>) THEN <<f>>[i] ELSE t[i - Len(<<f>>)]
  BY <1>0, ConcatProperties
<1> HIDE DEF u
<1>2. /\ Len(u) = Len(t) + 1 /\ DOMAIN u = 1 .. Len(t) + 1 /\ u[1] = f
      /\ \A i \in 1 .. Len(t) : u[i + 1] = t[i]
      /\ \A i \in 1 .. Len(t) + 1 : u[i] = IF i = 1 THEN f ELSE t[i - 1]
  BY <1>0, <1>1
<1>3. \A i \in 1 .. Len(t) : t[i] # f BY <1>0 DEF ToSet
<1>4. ASSUME NEW i \in 1 .. Len(t), NEW j \in 1 .. Len(t), t[i] = t[j] PROVE i = j
  <2>1. i \in DOMAIN s /\ j \in DOMAIN s BY <1>0
  <2>2. s[i] = s[j] BY <1>0, <1>4
  <2> QED BY <2>1, <2>2 DEF IsInjective
<1>5. IsInjective(u)
  <2> SUFFICES ASSUME NEW i \in 1 .. Len(t) + 1, NEW j \in 1 .. Len(t) + 1, u[i] = u[j]
               PROVE  i = j
    BY <1>2 DEF IsInjective
  <2>1. CASE i = 1 /\ j # 1
    <3>1. u[j] = t[j - 1] /\ j - 1 \in 1 .. Len(t) BY <1>0, <1>2, <2>1
    <3> QED BY <1>2, <1>3, <2>1, <3>1
  <2>2. CASE i # 1 /\ j = 1
    <3>1. u[i] = t[i - 1] /\ i - 1 \in 1 .. Len(t) BY <1>0, <1>2, <2>2
    <3> QED BY <1>2, <1>3, <2>2, <3>1
  <2>3. CASE i # 1 /\ j # 1
    <3>1. u[i] = t[i - 1] /\ i - 1 \in 1 .. Len(t) /\ u[j] = t[j - 1] /\ j - 1 \in 1 .. Len(t)
      BY <1>0, <1>2, <2>3
    <3>2. i - 1 = j - 1 BY <1>4, <3>1
    <3> QED BY <3>2
  <2> QED BY <2>1, <2>2, <2>3
<1>6. \A i \in DOMAIN u : u[i] \in ToSet(t) \cup {f}
  <2>1. ASSUME NEW i \in 1 .. Len(t) + 1 PROVE u[i] \in ToSet(t) \cup {f}
    <3>1. i = 1 \/ (i - 1 \in DOMAIN t /\ u[i] = t[i - 1]) BY <1>0, <1>2
    <3> QED BY <1>2, <3>1 DEF ToSet
  <2> QED BY <1>2, <2>1
<1>7. f \in ToSet(u)
  <2>1. 1 \in DOMAIN u BY <1>0, <1>2
  <2> QED BY <1>2, <2>1 DEF ToSet
<1>8. \A i \in DOMAIN t : t[i] \in ToSet(u)
  <2>1. \A i \in DOMAIN t : i + 1 \in DOMAIN u /\ u[i + 1] = t[i] BY <1>0, <1>2
  <2> QED BY <2>1 DEF ToSet
<1>9. ToSet(u) \subseteq ToSet(t) \cup {f} BY <1>6 DEF ToSet
<1>10. ToSet(t) \cup {f} \subseteq ToSet(u) BY <1>7, <1>8 DEF ToSet
<1>11. ToSet(u) = ToSet(t) \cup {f} BY <1>9, <1>10
<1> QED BY <1>1, <1>2, <1>5, <1>11 DEF u

(* emplace() of a new key evicts the last node if the cache is full, and   *)
(* puts the new one in front.                                              *)
LEMMA MissKeeps ==
    ASSUME LruInv, NEW k \in Keys, NEW v \in Values, EmplaceMiss(k, v)
    PROVE  LruInv'
<1>0. /\ k \notin Cached /\ items_' = <<FreshNode>> \o Kept.items
      /\ cell' = With(Kept.cell, FreshNode, [key |-> k, value |-> v])
      /\ map_' = With(Kept.map, k, FreshNode)
      /\ last' = [last EXCEPT ![k] = v] /\ refreshed' = ToFront(k, refreshed)
      /\ UNCHANGED capacity_
  BY DEF EmplaceMiss, Refresh
<1>1. PICK f \in Nodes : f = FreshNode /\ f \notin DOMAIN cell BY NodeLeft
<1>2. PICK n \in 0 .. Len(items_) :
         /\ n < capacity_ /\ n >= Len(items_) - 1
         /\ Len(items_) < capacity_ => n = Len(items_)
         /\ Kept.items \in Seq(Nodes) /\ Len(Kept.items) = n
         /\ \A i \in 1 .. n : Kept.items[i] = items_[i]
         /\ Kept.cell \in [ToSet(Kept.items) -> [key : Keys, value : Values]]
         /\ \A m \in ToSet(Kept.items) : m \in DOMAIN cell /\ Kept.cell[m] = cell[m]
         /\ DOMAIN Kept.map = {cell[m].key : m \in ToSet(Kept.items)}
         /\ \A x \in DOMAIN Kept.map : x \in Cached /\ Kept.map[x] = map_[x]
                                       /\ map_[x] \in ToSet(Kept.items)
  BY KeptIs
<1>3. PICK kept : kept = Kept OBVIOUS
<1> DEFINE old == ToSet(kept.items)
<1>4. /\ n \in Nat /\ n < capacity_ /\ n >= Len(items_) - 1 /\ n <= Len(items_)
      /\ Len(items_) \in Nat /\ DOMAIN items_ = 1 .. Len(items_)
      /\ capacity_ \in Nat \ {0} /\ Len(items_) <= capacity_
      /\ Len(items_) < capacity_ => n = Len(items_)
  BY <1>2 DEF LruInv
<1>4n. n \in Nat /\ Len(items_) \in Nat /\ n <= Len(items_) BY <1>4
<1>5. /\ kept.items \in Seq(Nodes) /\ Len(kept.items) = n /\ DOMAIN kept.items = 1 .. n
      /\ \A i \in 1 .. n : kept.items[i] = items_[i]
  BY <1>2, <1>3
<1>6. /\ old \subseteq DOMAIN cell /\ f \notin old
      /\ kept.cell \in [old -> [key : Keys, value : Values]]
      /\ \A m \in old : kept.cell[m] = cell[m]
  BY <1>1, <1>2, <1>3
<1>7. /\ DOMAIN kept.map = {cell[m].key : m \in old}
      /\ \A x \in DOMAIN kept.map : x \in Cached /\ kept.map[x] = map_[x] /\ map_[x] \in old
  BY <1>2, <1>3
<1>8. /\ items_' \in Seq(Nodes) /\ Len(items_') = n + 1
      /\ items_'[1] = f /\ \A i \in 1 .. n : items_'[i + 1] = items_[i]
      /\ IsInjective(items_') /\ ToSet(items_') = old \cup {f}
  <2>1. items_ \in Seq(Nodes) /\ IsInjective(items_) /\ f \notin ToSet(items_)
    BY <1>1 DEF LruInv
  <2>2. items_' = <<f>> \o kept.items BY <1>0, <1>1, <1>3
  <2>3. PICK t \in Seq(Nodes) : t = kept.items BY <1>5
  <2>4. PICK u : u = items_' OBVIOUS
  <2>5. Len(t) <= Len(items_) /\ (\A i \in 1 .. Len(t) : t[i] = items_[i]) /\ u = <<f>> \o t
    BY <1>4, <1>5, <2>2, <2>3, <2>4
  <2>7. FrontPart(t, items_) BY <2>5 DEF FrontPart
  <2>6. /\ u \in Seq(Nodes) /\ Len(u) = Len(t) + 1
        /\ u[1] = f /\ \A i \in 1 .. Len(t) : u[i + 1] = t[i]
        /\ IsInjective(u) /\ ToSet(u) = ToSet(t) \cup {f}
    <3>1. u = <<f>> \o t BY <2>5
    <3> QED BY <2>1, <2>7, <3>1, PushedFront
  <2> QED BY <1>5, <2>3, <2>4, <2>6
<1>9. \A i \in 1 .. n : items_[i] \in old BY <1>5 DEF ToSet
<1> DEFINE entry == [key |-> k, value |-> v]
<1>12. /\ cell' \in [ToSet(items_') -> [key : Keys, value : Values]]
       /\ cell'[f] = entry /\ (\A m \in old : cell'[m] = cell[m]) /\ DOMAIN cell' = old \cup {f}
  <2>1. cell' = With(kept.cell, f, entry) BY <1>0, <1>1, <1>3
  <2> HIDE DEF old
  <2>2. entry \in [key : Keys, value : Values] OBVIOUS
  <2> HIDE DEF entry
  <2> QED BY <1>6, <1>8, <2>1, <2>2 DEF With
<1> HIDE DEF old
<1>13. entry.key = k /\ entry.value = v OBVIOUS
<1> HIDE DEF entry
<1>14. /\ \A m \in DOMAIN cell : cell[m].key \in Cached /\ map_[cell[m].key] = m
       /\ \A x \in Cached : map_[x] \in DOMAIN cell /\ cell[map_[x]].key = x
                          /\ cell[map_[x]].value = last[x]
       /\ map_ \in [Cached -> Nodes] /\ Cached \subseteq Keys
  BY DEF LruInv
<1>15. /\ Cached' = DOMAIN kept.map \cup {k} /\ k \notin DOMAIN kept.map
       /\ map_'[k] = f /\ (\A x \in DOMAIN kept.map : map_'[x] = map_[x])
       /\ map_' = [x \in Cached' |-> map_'[x]]
  <2>1. map_' = With(kept.map, k, f) BY <1>0, <1>1, <1>3
  <2>2. k \notin DOMAIN kept.map BY <1>0, <1>7
  <2> QED BY <1>7, <2>1, <2>2 DEF With, Cached
<1>16. map_' \in [Cached' -> Nodes'] /\ Cached' \subseteq Keys
  <2>1. Nodes' = Nodes BY <1>0 DEF Nodes
  <2>2. \A x \in Cached' : map_'[x] \in Nodes BY <1>1, <1>7, <1>14, <1>15
  <2>3. Cached' \subseteq Keys BY <1>7, <1>14, <1>15
  <2> QED BY <1>15, <2>1, <2>2, <2>3
<1>17. \A x \in Cached' : map_'[x] \in DOMAIN cell' /\ cell'[map_'[x]].key = x
  <2>1. map_'[k] \in DOMAIN cell' /\ cell'[map_'[k]].key = k BY <1>12, <1>13, <1>15
  <2>2. \A x \in DOMAIN kept.map : map_'[x] \in DOMAIN cell' /\ cell'[map_'[x]].key = x
    BY <1>7, <1>12, <1>14, <1>15
  <2> QED BY <1>15, <2>1, <2>2
<1>18. \A m \in DOMAIN cell' : cell'[m].key \in Cached' /\ map_'[cell'[m].key] = m
  <2>1. cell'[f].key \in Cached' /\ map_'[cell'[f].key] = f BY <1>12, <1>13, <1>15
  <2>2. \A m \in old : cell'[m].key \in Cached' /\ map_'[cell'[m].key] = m
    BY <1>6, <1>7, <1>12, <1>14, <1>15
  <2> QED BY <1>12, <2>1, <2>2
<1>19. /\ last' \in [Keys -> Values \cup {NoValue}]
       /\ last'[k] = v /\ \A x \in Keys : x # k => last'[x] = last[x]
  BY <1>0 DEF LruInv
<1>20. \A x \in Cached' : cell'[map_'[x]].value = last'[x]
  <2>1. cell'[map_'[k]].value = last'[k] BY <1>12, <1>13, <1>15, <1>19
  <2>2. \A x \in DOMAIN kept.map : cell'[map_'[x]].value = last'[x]
    BY <1>7, <1>12, <1>14, <1>15, <1>19
  <2> QED BY <1>15, <2>1, <2>2
<1>21. /\ refreshed' \in Seq(Keys) /\ Len(refreshed') \in Nat /\ Len(refreshed') > 0
       /\ refreshed'[1] = k
       /\ \A i \in 1 .. Len(items_) : i + 1 <= Len(refreshed') => refreshed'[i + 1] = refreshed[i]
       /\ Len(refreshed') >= Len(items_) /\ Len(refreshed') >= Len(refreshed)
       /\ Len(refreshed) = Len(items_) => Len(refreshed') = Len(items_) + 1
  BY <1>0, MissRefreshes
<1>22. /\ Len(refreshed) \in Nat /\ Len(items_) <= Len(refreshed)
       /\ Len(items_) < capacity_ => Len(refreshed) = Len(items_)
       /\ \A i \in 1 .. Len(items_) : cell[items_[i]].key = refreshed[i]
  BY DEF LruInv
<1>23. Len(items_') <= Len(refreshed')
       /\ (Len(items_') < capacity_' => Len(refreshed') = Len(items_'))
  BY <1>0, <1>4, <1>8, <1>21, <1>22
<1>24. \A i \in 1 .. Len(items_') : cell'[items_'[i]].key = refreshed'[i]
  <2>1. cell'[items_'[1]].key = refreshed'[1] BY <1>8, <1>12, <1>13, <1>21
  <2>2. ASSUME NEW j \in 1 .. n PROVE cell'[items_'[j + 1]].key = refreshed'[j + 1]
    <3>0. Len(refreshed') \in Nat /\ Len(refreshed') >= n + 1 BY <1>8, <1>21, <1>23
    <3>1. j \in 1 .. Len(items_) /\ j + 1 <= Len(refreshed') BY <1>4n, <3>0
    <3>2. cell'[items_'[j + 1]].key = cell[items_[j]].key BY <1>8, <1>9, <1>12
    <3> QED BY <1>21, <1>22, <3>1, <3>2
  <2>3. \A i \in 1 .. n + 1 : i = 1 \/ \E j \in 1 .. n : i = j + 1
    <3> SUFFICES ASSUME NEW i \in 1 .. n + 1, i # 1 PROVE i - 1 \in 1 .. n /\ i = (i - 1) + 1
      OBVIOUS
    <3> QED BY <1>4n
  <2> QED BY <1>8, <2>1, <2>2, <2>3
<1>25. capacity_' \in Nat \ {0} /\ Len(items_') <= capacity_' BY <1>0, <1>4, <1>8
<1>26. items_' \in Seq(Nodes') BY <1>0, <1>8 DEF Nodes
<1> QED BY <1>8, <1>12, <1>16, <1>17, <1>18, <1>19, <1>20, <1>21, <1>23, <1>24, <1>25, <1>26
    DEF LruInv

(* clear() leaves an empty cache.                                          *)
LEMMA EmptyKeeps ==
    ASSUME LruInv, Clear
    PROVE  LruInv'
<1>1. /\ items_' = <<>> /\ Len(items_') = 0 /\ DOMAIN items_' = {} /\ items_' \in Seq(Nodes')
      /\ refreshed' = <<>> /\ Len(refreshed') = 0 /\ refreshed' \in Seq(Keys)
      /\ ToSet(items_') = {} /\ DOMAIN cell' = {} /\ Cached' = {}
      /\ cell' = [n \in {} |-> n] /\ map_' = [n \in {} |-> n]
      /\ UNCHANGED <<capacity_, last>>
  BY DEF Clear, Cached, ToSet
<1>2. cell' \in [ToSet(items_') -> [key : Keys, value : Values]] /\ map_' \in [Cached' -> Nodes']
  BY <1>1
<1>3. IsInjective(items_') BY <1>1 DEF IsInjective
<1>4. capacity_' \in Nat \ {0} /\ Len(items_') <= capacity_' BY <1>1 DEF LruInv
<1>5. 1 .. Len(items_') = {} BY <1>1
<1> QED BY <1>1, <1>2, <1>3, <1>4, <1>5 DEF LruInv

(* Nothing of the cache itself changes.                                    *)
LEMMA SameKeeps ==
    LruInv /\ UNCHANGED <<capacity_, items_, cell, map_, last, refreshed>> => LruInv'
BY DEF LruInv, Cached, Nodes

(* Every call keeps the invariant.                                         *)
LEMMA LruStep == LruInv /\ [Next]_vars => LruInv'
<1> SUFFICES ASSUME LruInv, [Next]_vars PROVE LruInv'
  OBVIOUS
<1>1. ASSUME NEW k \in Keys, Find(k) PROVE LruInv'
  BY <1>1, SameKeeps DEF Find, cache
<1>2. ASSUME NEW k \in Keys, NEW v \in Values, Emplace(k, v) PROVE LruInv'
  <2>1. CASE EmplaceHit(k, v) BY <2>1, HitKeeps DEF EmplaceHit
  <2>2. CASE EmplaceMiss(k, v) BY <2>2, MissKeeps
  <2> QED BY <1>2, <2>1, <2>2 DEF Emplace
<1>3. CASE UNCHANGED vars BY <1>3, SameKeeps DEF vars, cache
<1> QED BY <1>1, <1>2, <1>3, AtKeeps, EmptyKeeps DEF Next

(* Map and list agree, the cache holds the most recently used keys, as     *)
(* many as its capacity allows, in the order of their use, and each with   *)
(* the value it was last given: for every capacity, every set of keys and  *)
(* every sequence of calls.                                                *)
THEOREM KeepsMostRecentHolds == Spec => []KeepsMostRecent
<1>1. Spec => []LruInv BY LruStart, LruStep, PTL DEF Spec
<1> QED BY <1>1, InvGives, PTL

-----------------------------------------------------------------------------
(* A pattern is cached as invalid for a reason.                            *)
InvalidForAReason ==
    \A p \in Cached : cell[map_[p]].value = "invalid" =>
        p \in Malformed \/ \E i \in Inputs : <<i, p>> \in Exploding

RegexInv == LruInv /\ InvalidForAReason /\ AnswersAreMatches

(* What emplace() of a new key leaves of the others.                       *)
LEMMA MissLeaves ==
    ASSUME LruInv, NEW p \in Keys, NEW v \in Values, EmplaceMiss(p, v), LruInv'
    PROVE  /\ p \in Cached' /\ cell'[map_'[p]].value = v
           /\ \A x \in Cached' \ {p} : x \in Cached /\ cell'[map_'[x]].value = cell[map_[x]].value
<1>1. /\ map_' = With(Kept.map, p, FreshNode) /\ last' = [last EXCEPT ![p] = v]
  BY DEF EmplaceMiss
<1>2. \A x \in DOMAIN Kept.map : x \in Cached BY KeptIs
<1>3. p \in Cached' /\ \A x \in Cached' \ {p} : x \in Cached
  BY <1>1, <1>2 DEF With, Cached
<1>4. last'[p] = v /\ \A x \in Keys \ {p} : last'[x] = last[x] BY <1>1 DEF LruInv
<1>5. \A x \in Cached : x \in Keys /\ cell[map_[x]].value = last[x] BY DEF LruInv
<1>6. \A x \in Cached' : x \in Keys /\ cell'[map_'[x]].value = last'[x] BY DEF LruInv
<1> QED BY <1>3, <1>4, <1>5, <1>6

(* Every answer, from the cache or not, keeps the invariant.               *)
LEMMA RegexStep == RegexInv /\ [RegexNext]_regexVars => RegexInv'
<1> SUFFICES ASSUME RegexInv, [RegexNext]_regexVars PROVE RegexInv'
  OBVIOUS
<1>0. LruInv /\ InvalidForAReason /\ AnswersAreMatches BY DEF RegexInv
<1>1. ASSUME NEW i \in Inputs, NEW p \in Keys, p \in Cached, Find(p), Called(i, p),
             \/ answer' = RegexMatch(<<i, p>>)
             \/ cell[map_[p]].value = "invalid" /\ answer' = "false"
      PROVE  RegexInv'
  <2>1. UNCHANGED <<capacity_, items_, cell, map_, last, refreshed>> BY <1>1 DEF Find, cache
  <2>2. LruInv' /\ Cached' = Cached BY <1>0, <2>1, SameKeeps DEF Cached
  <2>3. InvalidForAReason' BY <1>0, <2>1, <2>2 DEF InvalidForAReason
  <2>4. query' = <<i, p>> /\ query'[2] = p BY <1>1 DEF Called
  <2>5. CASE answer' = RegexMatch(<<i, p>>)
    <3>1. AnswersAreMatches' BY <2>4, <2>5 DEF AnswersAreMatches, RegexMatch
    <3> QED BY <2>2, <2>3, <3>1 DEF RegexInv
  <2>6. CASE cell[map_[p]].value = "invalid"
    <3>1. p \in Malformed \/ \E x \in Inputs : <<x, p>> \in Exploding
      BY <1>0, <1>1, <2>6 DEF InvalidForAReason
    <3>2. AnswersAreMatches'
      BY <1>1, <2>1, <2>2, <2>4, <2>6, <3>1 DEF AnswersAreMatches
    <3> QED BY <2>2, <2>3, <3>2 DEF RegexInv
  <2> QED BY <1>1, <2>5, <2>6
<1>2. ASSUME NEW i \in Inputs, NEW p \in Keys, CompileAndMatch(i, p) PROVE RegexInv'
  <2> DEFINE good == p \notin Malformed /\ <<i, p>> \notin Exploding
             v == IF good THEN "valid" ELSE "invalid"
  <2>1. EmplaceMiss(p, v) /\ answer' = (IF good THEN RegexMatch(<<i, p>>) ELSE "false")
        /\ query' = <<i, p>> /\ query'[2] = p
    BY <1>2 DEF CompileAndMatch, Called
  <2>2. v \in Values BY PatternsAssumption
  <2>3. v = "invalid" => p \in Malformed \/ <<i, p>> \in Exploding OBVIOUS
  <2>4. ~ good => v = "invalid" OBVIOUS
  <2> HIDE DEF v
  <2>5. LruInv' BY <1>0, <2>1, <2>2, MissKeeps
  <2>6. /\ p \in Cached' /\ cell'[map_'[p]].value = v
        /\ \A x \in Cached' \ {p} : x \in Cached /\ cell'[map_'[x]].value = cell[map_[x]].value
    BY <1>0, <2>1, <2>2, <2>5, MissLeaves
  <2>7. InvalidForAReason' BY <1>0, <2>3, <2>6 DEF InvalidForAReason
  <2>8. AnswersAreMatches'
    <3>1. CASE good BY <2>1, <3>1 DEF AnswersAreMatches, RegexMatch
    <3>2. CASE ~ good
      <4>1. p \in Malformed \/ <<i, p>> \in Exploding BY <3>2
      <4>2. cell'[map_'[p]].value = "invalid" BY <2>4, <2>6, <3>2
      <4> QED BY <2>1, <2>6, <4>1, <4>2 DEF AnswersAreMatches
    <3> QED BY <3>1, <3>2
  <2> QED BY <2>5, <2>7, <2>8 DEF RegexInv
<1>3. CASE UNCHANGED regexVars
  <2>1. UNCHANGED <<capacity_, items_, cell, map_, last, refreshed, query, answer>>
    BY <1>3 DEF regexVars, vars, cache
  <2>2. LruInv' /\ Cached' = Cached BY <1>0, <2>1, SameKeeps DEF Cached
  <2> QED BY <1>0, <2>1, <2>2 DEF RegexInv, InvalidForAReason, AnswersAreMatches, RegexMatch
<1>4. ASSUME NEW i \in Inputs, NEW p \in Keys, FoundInvalid(i, p) PROVE RegexInv'
  BY <1>1, <1>4 DEF FoundInvalid
<1>5. ASSUME NEW i \in Inputs, NEW p \in Keys, FoundValid(i, p) PROVE RegexInv'
  <2>1. p \in Cached /\ Find(p) /\ Called(i, p) /\ answer' = RegexMatch(<<i, p>>)
    BY <1>5 DEF FoundValid
  <2> QED BY <1>1, <2>1
<1> QED BY <1>2, <1>3, <1>4, <1>5 DEF RegexNext

(* The answer is that of the regular expression, whatever was asked        *)
(* before, kept and evicted, unless the pattern is malformed or a match of *)
(* it has thrown on the call that compiled it and the pattern is still     *)
(* cached.                                                                 *)
THEOREM AnswersAreMatchesHolds == RegexSpec => []AnswersAreMatches
<1>1. RegexInit => RegexInv
  <2> SUFFICES ASSUME RegexInit PROVE RegexInv
    OBVIOUS
  <2>1. LruInv /\ Cached = {} /\ query = <<>> BY LruStart DEF RegexInit, Init, Cached
  <2> QED BY <2>1 DEF RegexInv, InvalidForAReason, AnswersAreMatches
<1>2. RegexSpec => []RegexInv BY <1>1, RegexStep, PTL DEF RegexSpec
<1>3. RegexInv => AnswersAreMatches BY DEF RegexInv
<1> QED BY <1>2, <1>3, PTL

-----------------------------------------------------------------------------
(* UidAllocator.  The static_assert of the code, MIN_UID < MAX_UID, asks   *)
(* for less than Room, and without Room neither theorem holds.             *)

(* UID_SLOTS is computed without an overflow; and if the last word has     *)
(* unused bits, the number that the first of them stands for does not wrap *)
(* around: get() may wrap for those behind it, which are out of reach, as  *)
(* both searches stop at the first.                                        *)
Room ==
    /\ MAX_UID - MIN_UID + WordBits < UintMod
    /\ UID_COUNT = UID_SLOTS * WordBits \/ MAX_UID + 1 < UintMod

\* The positions that stand for ids.
Used == 0 .. UID_COUNT - 1

-----------------------------------------------------------------------------
(* Lemmas about numbers and about the operators of the allocator.          *)

(* Every set of natural numbers but the empty one has a least element,     *)
(* which Least() returns: the first clear bit that find() looks for.       *)
LEMMA LeastIs ==
    ASSUME NEW S \in SUBSET Nat, S # {}
    PROVE  Least(S) \in S /\ \A q \in S : Least(S) <= q
<1>1. PICK x \in S : \A y \in S : x <= y BY LeastNumber
<1> QED BY <1>1 DEF Least

(* Division with remainder in the natural numbers.                         *)
LEMMA NatDivMod ==
    ASSUME NEW a \in Nat, NEW m \in Nat \ {0}
    PROVE  \E d \in Nat, r \in 0 .. m - 1 : d = a \div m /\ a = m * d + r
<1>1. PICK d \in Int, r \in 0 .. m - 1 : r = a % m /\ d = a \div m /\ a = m * d + r
  <2>1. a % m \in 0 .. m - 1 /\ a \div m \in Int /\ a = m * (a \div m) + (a % m)
    OBVIOUS
  <2> QED BY <2>1
<1>2. d >= 0
  <2>1. CASE d <= -1
    <3>1. m * d <= -m BY <2>1
    <3> QED BY <3>1, <1>1
  <2> QED BY <2>1
<1> QED BY <1>1, <1>2

(* Neither UID_COUNT nor UID_SLOTS overflows if there is room, and the     *)
(* words are enough for the range, with less than one word to spare.       *)
LEMMA RangeFacts ==
    ASSUME Room
    PROVE  /\ MIN_UID \in Nat /\ MAX_UID \in Nat /\ UintMod \in Nat
           /\ WordBits \in Nat \ {0} /\ MIN_UID < MAX_UID /\ MAX_UID < UintMod
           /\ UID_COUNT = MAX_UID - MIN_UID + 1 /\ UID_COUNT \in Nat
           /\ UID_SLOTS \in Nat \ {0}
           /\ UID_COUNT <= WordBits * UID_SLOTS
           /\ WordBits * UID_SLOTS < UID_COUNT + WordBits
<1>1. /\ MIN_UID \in Nat /\ MAX_UID \in Nat /\ UintMod \in Nat
      /\ WordBits \in Nat \ {0} /\ MIN_UID < MAX_UID /\ MAX_UID < UintMod
  BY RangeAssumption, WordAssumption
<1>2. MAX_UID - MIN_UID + WordBits < UintMod BY DEF Room
<1>3. PICK n \in Nat : n = MAX_UID - MIN_UID + 1 BY <1>1
<1>4. n = UintMod * 0 + n /\ n \in 0 .. UintMod - 1 /\ UintMod \in Nat \ {0}
  BY <1>1, <1>2, <1>3
<1>5. n % UintMod = n BY <1>4, 0 \in Int, ModUnique
<1>6. UID_COUNT = n BY <1>5, <1>3 DEF UID_COUNT
<1>7. PICK k \in Nat : k = n + WordBits - 1 BY <1>1
<1>8. k = UintMod * 0 + k /\ k \in 0 .. UintMod - 1
  BY <1>1, <1>2, <1>3, <1>7
<1>9. k % UintMod = k BY <1>8, <1>4, 0 \in Int, ModUnique
<1>10. UID_SLOTS = k \div WordBits BY <1>6, <1>7, <1>9 DEF UID_SLOTS
<1>11. PICK d \in Nat, r \in 0 .. WordBits - 1 : d = k \div WordBits /\ k = WordBits * d + r
  BY <1>1, NatDivMod
<1>12. d # 0
  <2>1. CASE d = 0
    <3>1. WordBits * d = 0 BY <2>1, <1>1
    <3> QED BY <3>1, <1>1, <1>3, <1>7, <1>11
  <2> QED BY <2>1
<1>13. PICK t \in Nat : t = WordBits * d BY <1>1
<1>14. n <= t /\ t < n + WordBits BY <1>1, <1>7, <1>11, <1>13
<1>15. UID_SLOTS = d /\ d \in Nat \ {0} BY <1>10, <1>11, <1>12
<1>16. UID_COUNT <= WordBits * UID_SLOTS /\ WordBits * UID_SLOTS < UID_COUNT + WordBits
  BY <1>6, <1>13, <1>14, <1>15
<1>17. UID_COUNT = MAX_UID - MIN_UID + 1 /\ UID_COUNT \in Nat BY <1>3, <1>6
<1> QED BY <1>1, <1>15, <1>16, <1>17

(* Where the words lie: their starts are multiples of WordBits, words of   *)
(* higher index come later, and every word is within the positions.        *)
LEMMA WordsApart ==
    ASSUME Room, NEW v \in Words, NEW w \in Words
    PROVE  /\ v \in Nat /\ WordStart(v) \in Nat /\ WordStart(w) \in Nat
           /\ v < w => WordStart(v) + WordBits <= WordStart(w)
           /\ WordStart(v) + WordBits <= UID_SLOTS * WordBits
           /\ Word(v) \subseteq Positions
<1>1. /\ UID_SLOTS \in Nat \ {0} /\ WordBits \in Nat \ {0}
      /\ v \in Nat /\ w \in Nat /\ v + 1 <= UID_SLOTS
  BY RangeFacts DEF Words
<1>2. \A x, y \in Nat : x <= y => x * WordBits <= y * WordBits
  BY <1>1
<1>3. \A x \in Nat : (x + 1) * WordBits = x * WordBits + WordBits /\ x * WordBits \in Nat
  BY <1>1
<1>4. PICK sv \in Nat : sv = v * WordBits BY <1>3, <1>1
<1>5. PICK sw \in Nat : sw = w * WordBits BY <1>3, <1>1
<1>6. PICK e \in Nat : e = UID_SLOTS * WordBits BY <1>3, <1>1
<1>7. sv + WordBits <= e BY <1>1, <1>2, <1>3, <1>4, <1>6
<1>8. v < w => sv + WordBits <= sw
  <2>1. v < w => v + 1 <= w BY <1>1
  <2> QED BY <2>1, <1>1, <1>2, <1>3, <1>4, <1>5
<1>9. Word(v) \subseteq Positions
  BY <1>1, <1>4, <1>6, <1>7 DEF Word, Positions, WordStart
<1> QED BY <1>1, <1>4, <1>5, <1>6, <1>7, <1>8, <1>9 DEF WordStart

(* Every position lies in a word.                                          *)
LEMMA InSomeWord ==
    ASSUME Room, NEW p \in Positions
    PROVE  \E w \in Words : p \in Word(w)
<1>1. WordBits \in Nat \ {0} /\ UID_SLOTS \in Nat \ {0} BY RangeFacts
<1>2. PICK e \in Nat : e = UID_SLOTS * WordBits BY <1>1
<1>3. p \in Nat /\ p < e BY <1>2 DEF Positions
<1>4. PICK d \in Nat, r \in 0 .. WordBits - 1 : d = p \div WordBits /\ p = WordBits * d + r
  BY <1>1, <1>3, NatDivMod
<1>5. PICK s \in Nat : s = d * WordBits BY <1>1
<1>6. WordBits * d = s BY <1>1, <1>5
<1>7. p = s + r BY <1>4, <1>6
<1>8. d < UID_SLOTS
  <2>1. CASE d >= UID_SLOTS
    <3>1. d * WordBits >= UID_SLOTS * WordBits BY <2>1, <1>1
    <3>2. s >= e BY <3>1, <1>2, <1>5
    <3> QED BY <3>2, <1>3, <1>7
  <2> QED BY <2>1, <1>1
<1>9. d \in Words BY <1>8, <1>1 DEF Words
<1>10. p \in s .. s + WordBits - 1 BY <1>7, <1>1
<1> QED BY <1>9, <1>10, <1>5 DEF Word, WordStart

(* get() is exact on the bits of the range, and its comparison with        *)
(* MAX_UID tells them from the first unused one.                           *)
LEMMA GetExact ==
    ASSUME Room, NEW p \in Positions
    PROVE  /\ p \in Nat /\ Get(p) \in 0 .. UintMod - 1
           /\ p \in Used => Get(p) = p + MIN_UID /\ Get(p) <= MAX_UID
           /\ p = UID_COUNT => Get(p) > MAX_UID
<1>1. PICK e \in Nat : e = UID_SLOTS * WordBits BY RangeFacts
<1>2. p \in Nat /\ p < e BY <1>1 DEF Positions
<1>3. PICK g \in Nat : g = p + MIN_UID BY <1>2, RangeFacts
<1>4. UintMod \in Nat \ {0} BY RangeFacts
<1>5. Get(p) = g % UintMod BY <1>3 DEF Get
<1>6. Get(p) \in 0 .. UintMod - 1 BY <1>4, <1>5, DivMod
<1>7. ASSUME g < UintMod PROVE Get(p) = g
  <2>1. g = UintMod * 0 + g /\ g \in 0 .. UintMod - 1 BY <1>4, <1>7
  <2> QED BY <2>1, <1>4, <1>5, 0 \in Int, ModUnique
<1>8. p \in Used => g <= MAX_UID BY <1>2, <1>3, RangeFacts DEF Used
<1>9. p = UID_COUNT => g = MAX_UID + 1 /\ g < UintMod
  BY <1>1, <1>2, <1>3, RangeFacts DEF Room
<1> QED BY <1>2, <1>3, <1>6, <1>7, <1>8, <1>9, RangeFacts

(* The bits of the range are all within the array.                         *)
LEMMA UsedArePositions ==
    ASSUME Room
    PROVE  /\ Used \subseteq Positions /\ IsFiniteSet(Used)
           /\ Cardinality(Used) = UID_COUNT
<1>1. PICK e \in Nat : e = UID_SLOTS * WordBits BY RangeFacts
<1>2. UID_COUNT <= e BY <1>1, RangeFacts
<1>3. IsFiniteSet(Used) /\ Cardinality(Used) = UID_COUNT
  <2>1. PICK n \in Nat : n = UID_COUNT - 1 BY RangeFacts
  <2>2. IsFiniteSet(0 .. n) /\ Cardinality(0 .. n) = IF 0 > n THEN 0 ELSE n - 0 + 1
    BY FS_Interval
  <2> QED BY <2>1, <2>2, RangeFacts DEF Used
<1> QED BY <1>1, <1>2, <1>3, RangeFacts DEF Used, Positions

-----------------------------------------------------------------------------
(* The inductive invariant.                                                *)

\* The cursor is never more than one past the last id.
CursorInRange == WordStart(index_) + bit_ <= UID_COUNT

UidInv ==
    /\ UidTypeOK
    /\ bitmap_ \subseteq Used
    /\ count_ = Cardinality(bitmap_)
    /\ CursorInRange

(* An id is free exactly as long as fewer than UID_COUNT are held.         *)
LEMMA FreeExists ==
    ASSUME Room, UidInv
    PROVE  /\ count_ >= UID_COUNT => bitmap_ = Used
           /\ count_ < UID_COUNT => Used \ bitmap_ # {}
<1>1. IsFiniteSet(Used) /\ Cardinality(Used) = UID_COUNT BY UsedArePositions
<1>2. bitmap_ \in SUBSET Used /\ count_ = Cardinality(bitmap_) BY DEF UidInv
<1>3. /\ Cardinality(bitmap_) <= Cardinality(Used)
      /\ Cardinality(Used) = Cardinality(bitmap_) => Used = bitmap_
  BY <1>1, <1>2, FS_Subset
<1>4. count_ \in Nat /\ UID_COUNT \in Nat BY RangeFacts DEF UidInv, UidTypeOK
<1>5. count_ >= UID_COUNT => bitmap_ = Used BY <1>1, <1>2, <1>3, <1>4
<1>6. Used \ bitmap_ = {} => bitmap_ = Used BY <1>2
<1>7. bitmap_ = Used => count_ = UID_COUNT BY <1>1, <1>2
<1> QED BY <1>4, <1>5, <1>6, <1>7

(* A word with a free id is one the second loop stops at.                  *)
LEMMA FreeIsUsable ==
    ASSUME Room, UidInv, NEW w \in Words, NEW q \in Used \ bitmap_, q \in Word(w)
    PROVE  w \in UsableWords
<1>1. q \in Unset(w) BY DEF Unset
<1>2. Unset(w) \in SUBSET Nat /\ Unset(w) \subseteq Positions
  BY WordsApart, GetExact DEF Unset
<1>3. Least(Unset(w)) \in Unset(w) /\ Least(Unset(w)) <= q BY <1>1, <1>2, LeastIs
<1>4. PICK p \in Positions : p = Least(Unset(w)) /\ p \in Nat BY <1>2, <1>3
<1>5. p \in Used BY <1>3, <1>4, RangeFacts DEF Used
<1> QED BY <1>1, <1>4, <1>5, GetExact DEF UsableWords

(* What the first loop finds: the first free bit of the range from the     *)
(* cursor on, in the current word.                                         *)
LEMMA SearchInWord ==
    ASSUME Room, UidInv, RestOfWord # {}
    PROVE  /\ Least(RestOfWord) \in Word(index_) \cap (Used \ bitmap_)
           /\ Least(RestOfWord) >= WordStart(index_) + bit_
           /\ \A q \in RestOfWord : Least(RestOfWord) <= q
<1>1. index_ \in Words /\ bit_ \in Nat BY DEF UidInv, UidTypeOK
<1>2. Word(index_) \subseteq Positions /\ WordStart(index_) \in Nat BY <1>1, WordsApart
<1>3. RestOfWord \subseteq Word(index_) BY DEF RestOfWord, Unset
<1>4. RestOfWord \in SUBSET Nat BY <1>2, <1>3, GetExact
<1>5. PICK p \in RestOfWord : p = Least(RestOfWord) /\ \A q \in RestOfWord : p <= q
  BY <1>4, LeastIs
<1>6. p \in Unset(index_) /\ p >= WordStart(index_) + bit_ BY <1>5 DEF RestOfWord
<1>7. p \in WordStart(index_) + bit_ .. p BY <1>1, <1>2, <1>4, <1>6
<1>8. Get(p) <= MAX_UID BY <1>5, <1>7 DEF RestOfWord
<1>9. p \in Used
  <2>1. p \in Positions /\ p \in Nat /\ UID_COUNT \in Nat BY <1>2, <1>3, <1>4, RangeFacts
  <2>2. CASE p >= UID_COUNT
    <3>1. UID_COUNT \in WordStart(index_) + bit_ .. p
      BY <1>1, <1>2, <2>1, <2>2, RangeFacts DEF UidInv, CursorInRange
    <3>2. UID_COUNT \in Positions BY <2>1, <2>2, RangeFacts DEF Positions
    <3> QED BY <1>5, <3>1, <3>2, GetExact, RangeFacts DEF RestOfWord
  <2> QED BY <2>1, <2>2, RangeFacts DEF Used
<1> QED BY <1>3, <1>5, <1>6, <1>9 DEF Unset

(* What the first loop does not find: it misses no free id from the cursor *)
(* on in the current word.                                                 *)
LEMMA MissesNothing ==
    ASSUME Room, UidInv, NEW q \in Used \ bitmap_, q \in Word(index_),
           q >= WordStart(index_) + bit_
    PROVE  q \in RestOfWord
<1>1. index_ \in Words /\ bit_ \in Nat BY DEF UidInv, UidTypeOK
<1>2. WordStart(index_) \in Nat BY <1>1, WordsApart
<1>3. q \in Nat /\ q < UID_COUNT BY RangeFacts DEF Used
<1>4. ASSUME NEW r \in WordStart(index_) + bit_ .. q PROVE Get(r) <= MAX_UID
  <2>1. r \in Used BY <1>1, <1>2, <1>3, RangeFacts DEF Used
  <2> QED BY <2>1, UsedArePositions, GetExact
<1> QED BY <1>4 DEF RestOfWord, Unset

(* The distances of the scan are numbers, so one usable word comes first.  *)
LEMMA ScanFinds ==
    ASSUME Room, UidInv, UsableWords # {}
    PROVE  /\ FirstUsable \in UsableWords
           /\ \A v \in UsableWords : ScanDistance(FirstUsable) <= ScanDistance(v)
<1>1. index_ \in Words /\ UID_SLOTS \in Nat \ {0} BY RangeFacts DEF UidInv, UidTypeOK
<1>2. index_ \in Nat BY <1>1 DEF Words
<1>3. ScanStart \in Int BY <1>1, <1>2, DivMod DEF ScanStart
<1>4. ASSUME NEW w \in Words PROVE ScanDistance(w) \in Nat
  <2>1. w \in Int BY <1>1 DEF Words
  <2>2. PICK x \in Int : x = w - ScanStart BY <1>3, <2>1
  <2>3. x % UID_SLOTS \in 0 .. UID_SLOTS - 1 BY <1>1, DivMod
  <2> QED BY <2>2, <2>3, <1>1 DEF ScanDistance
<1> DEFINE D == {ScanDistance(w) : w \in UsableWords}
<1>5. UsableWords \subseteq Words BY DEF UsableWords
<1>6. D \in SUBSET Nat /\ D # {} BY <1>4, <1>5
<1>7. Least(D) \in D /\ \A d \in D : Least(D) <= d
  <2> HIDE DEF D
  <2> QED BY <1>6, LeastIs
<1>8. PICK f \in UsableWords : \A v \in UsableWords : ScanDistance(f) <= ScanDistance(v)
  BY <1>7
<1> QED BY <1>8 DEF FirstUsable

(* What the second loop takes: the first free bit of that word.            *)
LEMMA SearchByScan ==
    ASSUME Room, UidInv, NEW w \in UsableWords
    PROVE  /\ w \in Words
           /\ Least(Unset(w)) \in Word(w) \cap (Used \ bitmap_)
           /\ \A q \in Unset(w) : Least(Unset(w)) <= q
<1>1. w \in Words /\ Unset(w) # {} /\ Get(Least(Unset(w))) <= MAX_UID BY DEF UsableWords
<1>2. Unset(w) \in SUBSET Nat /\ Unset(w) \subseteq Positions
  BY <1>1, WordsApart, GetExact DEF Unset
<1>3. Least(Unset(w)) \in Unset(w) /\ \A q \in Unset(w) : Least(Unset(w)) <= q
  BY <1>1, <1>2, LeastIs
<1>4. Least(Unset(w)) \in Used
  <2>1. PICK p \in Positions : p = Least(Unset(w)) /\ p \in Nat BY <1>2, <1>3
  <2>2. PICK s \in Nat : s = WordStart(w) BY <1>1, WordsApart
  <2>3. /\ UID_COUNT \in Nat /\ WordBits \in Nat \ {0} /\ UID_SLOTS \in Nat
        /\ WordBits * UID_SLOTS < UID_COUNT + WordBits
    BY RangeFacts
  <2>4. s < UID_COUNT
    <3>1. s + WordBits <= UID_SLOTS * WordBits BY <1>1, <2>2, WordsApart
    <3>2. PICK e \in Nat : e = UID_SLOTS * WordBits /\ e = WordBits * UID_SLOTS BY <2>3
    <3> QED BY <2>3, <3>1, <3>2
  <2>5. p \in s .. s + WordBits - 1 BY <1>3, <2>1, <2>2 DEF Unset, Word
  <2>6. CASE p >= UID_COUNT
    <3>1. UID_COUNT \in Word(w) BY <2>2, <2>3, <2>4, <2>5, <2>6 DEF Word
    <3>2. UID_COUNT \notin bitmap_ BY <2>3 DEF UidInv, Used
    <3>5. UID_COUNT \in Unset(w) BY <3>1, <3>2 DEF Unset
    <3>6. p <= UID_COUNT BY <1>3, <2>1, <3>5
    <3>3. p = UID_COUNT BY <2>1, <2>3, <2>6, <3>6
    <3>4. Get(p) > MAX_UID /\ Get(p) \in 0 .. UintMod - 1 BY <2>1, <3>3, GetExact
    <3> QED BY <1>1, <2>1, <3>4, RangeFacts
  <2> QED BY <2>1, <2>3, <2>6 DEF Used
<1> QED BY <1>1, <1>3, <1>4 DEF Unset

(* Handing out a free id of the range keeps the invariant.                 *)
LEMMA TakeStep ==
    ASSUME Room, UidInv, count_ < UID_COUNT, NEW index \in Words,
           NEW position \in Word(index) \cap (Used \ bitmap_), Take(index, position)
    PROVE  UidInv'
<1>1. WordStart(index) \in Nat /\ WordBits \in Nat \ {0} /\ position \in Nat
      /\ UID_COUNT \in Nat
  BY WordsApart, RangeFacts DEF Used
<1>2. /\ WordStart(index) <= position /\ position <= WordStart(index) + WordBits - 1
      /\ position <= UID_COUNT - 1
  BY <1>1 DEF Word, Used
<1>3. position \in Positions BY UsedArePositions
<1>4. /\ bitmap_' = bitmap_ \cup {position}
      /\ bit_' = position - WordStart(index) + 1 /\ index_' = index
      /\ count_' = count_ + 1 /\ uid' = Get(position) /\ CYCLIC' = CYCLIC
  BY DEF Take
<1>5. bit_' \in 0 .. WordBits BY <1>1, <1>2, <1>4
<1>6. count_' \in 0 .. UID_COUNT BY <1>1, <1>4 DEF UidInv, UidTypeOK
<1>7. UidTypeOK'
  BY <1>3, <1>4, <1>5, <1>6, GetExact DEF UidInv, UidTypeOK, Words, Positions
<1>8. bitmap_' \subseteq Used BY <1>4 DEF UidInv
<1>9. count_' = Cardinality(bitmap_')
  <2>1. IsFiniteSet(bitmap_) BY UsedArePositions, FS_Subset DEF UidInv
  <2>2. Cardinality(bitmap_ \cup {position}) = Cardinality(bitmap_) + 1
    BY <2>1, FS_AddElement
  <2> QED BY <2>2, <1>4 DEF UidInv
<1>10. CursorInRange' BY <1>1, <1>2, <1>4 DEF CursorInRange, WordStart
<1> QED BY <1>7, <1>8, <1>9, <1>10 DEF UidInv

(* Every step keeps the invariant.                                         *)
LEMMA UidStep == ASSUME Room, UidInv, [UidNext]_uidVars PROVE UidInv'
<1> UidTypeOK /\ bitmap_ \subseteq Used /\ count_ = Cardinality(bitmap_) /\ CursorInRange
  BY DEF UidInv
<1>1. CASE AllocateRefused
  <2>1. Failed \in 0 .. UintMod - 1 BY RangeFacts DEF Failed
  <2> QED
    BY <1>1, <2>1 DEF AllocateRefused, UidInv, UidTypeOK, CursorInRange, Words, Positions, WordStart
<1>2. CASE AllocateInWord
  <2>1. /\ index_ \in Words /\ count_ < UID_COUNT /\ RestOfWord # {}
        /\ Take(index_, Least(RestOfWord))
    BY <1>2 DEF AllocateInWord, UidTypeOK
  <2> QED BY <2>1, SearchInWord, TakeStep
<1>3. CASE AllocateByScan
  <2>1. CASE UsableWords # {}
    <3>1. count_ < UID_COUNT /\ Take(FirstUsable, Least(Unset(FirstUsable)))
      BY <1>3, <2>1 DEF AllocateByScan
    <3>2. FirstUsable \in UsableWords BY <2>1, ScanFinds
    <3> QED BY <3>1, <3>2, SearchByScan, TakeStep
  <2>2. CASE UsableWords = {}
    <3>1. Failed \in 0 .. UintMod - 1 BY RangeFacts DEF Failed
    <3>2. uid' = Failed /\ UNCHANGED <<CYCLIC, bitmap_, bit_, index_, count_>>
      BY <1>3, <2>2 DEF AllocateByScan
    <3> QED
      BY <3>1, <3>2 DEF UidInv, UidTypeOK, CursorInRange, Words, Positions, WordStart
  <2> QED BY <2>1, <2>2
<1>4. ASSUME NEW id \in 0 .. UintMod - 1, Release(id) PROVE UidInv'
  <2>1. PICK p \in bitmap_ : p = id - MIN_UID BY <1>4 DEF Release
  <2>2. bitmap_' = bitmap_ \ {p} /\ count_' = count_ - 1
        /\ UNCHANGED <<CYCLIC, bit_, index_, uid>>
    BY <1>4, <2>1 DEF Release
  <2>3. IsFiniteSet(bitmap_) BY UsedArePositions, FS_Subset
  <2>4. Cardinality(bitmap_ \ {p}) = Cardinality(bitmap_) - 1 /\ IsFiniteSet(bitmap_ \ {p})
    BY <2>3, FS_RemoveElement
  <2>5. Cardinality(bitmap_ \ {p}) \in Nat BY <2>4, FS_CardinalityType
  <2>6. count_' = Cardinality(bitmap_') /\ count_' \in Nat BY <2>2, <2>4, <2>5
  <2>7. count_' \in 0 .. UID_COUNT BY <2>2, <2>6, RangeFacts DEF UidTypeOK
  <2> QED BY <2>2, <2>6, <2>7 DEF UidInv, UidTypeOK, CursorInRange, Words, Positions, WordStart
<1>5. CASE UidClear
  <2>1. bitmap_' = {} /\ bit_' = 0 /\ index_' = 0 /\ count_' = 0 /\ UNCHANGED <<CYCLIC, uid>>
    BY <1>5 DEF UidClear
  <2>2. 0 \in Words /\ 0 \in 0 .. WordBits /\ 0 \in 0 .. UID_COUNT /\ 0 * WordBits + 0 <= UID_COUNT
    BY RangeFacts DEF Words
  <2>3. Cardinality({}) = 0 BY FS_EmptySet
  <2> QED BY <2>1, <2>2, <2>3 DEF UidInv, UidTypeOK, CursorInRange, Words, Positions, WordStart
<1>6. CASE UNCHANGED uidVars
  BY <1>6 DEF uidVars, UidInv, UidTypeOK, CursorInRange, Words, Positions, WordStart
<1> QED BY <1>1, <1>2, <1>3, <1>4, <1>5, <1>6 DEF UidNext, Allocate

(* The initial states.                                                     *)
LEMMA UidStart == ASSUME Room, UidInit PROVE UidInv
<1>1. 0 \in Words /\ 0 \in 0 .. WordBits /\ 0 \in 0 .. UID_COUNT /\ 0 * WordBits + 0 <= UID_COUNT
      /\ 0 \in 0 .. UintMod - 1
  BY RangeFacts DEF Words
<1>2. Cardinality({}) = 0 BY FS_EmptySet
<1> QED BY <1>1, <1>2 DEF UidInit, UidInv, UidTypeOK, CursorInRange, WordStart, Failed

(* The invariant holds at every step if there is room.                     *)
LEMMA UidInvariant == ASSUME Room PROVE UidSpec => []UidInv
<1>1. UidInit => UidInv BY UidStart
<1>2. UidInv /\ [UidNext]_uidVars => UidInv' BY UidStep
<1> QED BY <1>1, <1>2, PTL DEF UidSpec

(* size() is exact, and no unused bit is ever set, whatever mix of         *)
(* allocate, release and clear came before: for words of any width and     *)
(* every range with Room, which leaves out those that end at the limit of  *)
(* the arithmetic with unused bits behind it, and those less than a word   *)
(* short of all numbers there are.                                         *)
THEOREM CountExactHolds == ASSUME Room PROVE UidSpec => []CountExact
<1>1. UidInv => CountExact
  <2> SUFFICES ASSUME UidInv PROVE CountExact OBVIOUS
  <2>1. ASSUME NEW p \in bitmap_ PROVE p + MIN_UID <= MAX_UID
    BY RangeFacts DEF UidInv, Used
  <2> QED BY <2>1 DEF UidInv, CountExact
<1> QED BY <1>1, UidInvariant, PTL

-----------------------------------------------------------------------------
(* The refinement of UidPool.  Positions are compared by Reach, the id     *)
(* ahead of the cursor by as much comes to the same.                       *)

Cursor == WordStart(index_) + bit_

\* Positions before the cursor come after all the others.
Reach(p) == IF p >= Cursor THEN p ELSE p + UID_COUNT

(* The ids that the pool counts ahead of the latest one are ordered as     *)
(* Reach orders their positions.                                           *)
LEMMA AheadIs ==
    ASSUME Room, UidInv, NEW p \in Used
    PROVE  Pool!Ahead(p + MIN_UID) = Reach(p) - Cursor + 1
<1>1. MAX_UID - MIN_UID + 1 = UID_COUNT BY RangeFacts
<1>2. Cursor \in Nat
  <2>1. index_ \in Words /\ bit_ \in Nat BY DEF UidInv, UidTypeOK
  <2> QED BY <2>1, WordsApart DEF Cursor
<1>3. Latest = MIN_UID + Cursor - 1
  <2>1. index_ \in Words /\ bit_ \in Nat BY DEF UidInv, UidTypeOK
  <2>2. WordStart(index_) \in Nat BY <2>1, WordsApart
  <2> QED BY <2>1, <2>2, RangeFacts DEF Latest, Cursor
<1>4. p \in Nat BY RangeFacts DEF Used
<1>5. PICK id \in Nat : id = p + MIN_UID BY <1>4, RangeFacts
<1>6. id > Latest <=> p >= Cursor BY <1>2, <1>3, <1>4, <1>5, RangeFacts
<1>7. Pool!Ahead(id) = IF id > Latest THEN id - Latest ELSE id - Latest + UID_COUNT
  BY <1>1 DEF Pool!Ahead
<1>8. CASE p >= Cursor
  <2>1. Pool!Ahead(id) = id - Latest BY <1>6, <1>7, <1>8
  <2>2. Reach(p) = p BY <1>8 DEF Reach
  <2> QED BY <2>1, <2>2, <1>2, <1>3, <1>4, <1>5, RangeFacts
<1>9. CASE ~ (p >= Cursor)
  <2>1. Pool!Ahead(id) = id - Latest + UID_COUNT BY <1>6, <1>7, <1>9
  <2>2. Reach(p) = p + UID_COUNT BY <1>9 DEF Reach
  <2> QED BY <2>1, <2>2, <1>2, <1>3, <1>4, <1>5, RangeFacts
<1> QED BY <1>8, <1>9

(* A bit that the first loop takes is the first free one from the cursor   *)
(* on.                                                                     *)
LEMMA WordNearest ==
    ASSUME Room, UidInv, RestOfWord # {}, NEW q \in Used \ bitmap_
    PROVE  Reach(Least(RestOfWord)) <= Reach(q)
<1>1. index_ \in Words /\ bit_ \in Nat BY DEF UidInv, UidTypeOK
<1>2. WordStart(index_) \in Nat /\ WordBits \in Nat \ {0} /\ UID_COUNT \in Nat
  BY <1>1, WordsApart, RangeFacts
<1>3. PICK p \in Used : p = Least(RestOfWord) /\ p \in Word(index_) /\ p >= Cursor
  BY SearchInWord DEF Cursor
<1>4. p \in 0 .. UID_COUNT - 1 /\ q \in 0 .. UID_COUNT - 1 /\ p < WordStart(index_) + WordBits
  BY <1>1, <1>2, <1>3 DEF Used, Word
<1>5. Cursor \in Nat BY <1>1, <1>2 DEF Cursor
<1>6. q >= Cursor => p <= q
  <2>1. CASE q >= Cursor /\ q \in Word(index_)
    <3>1. q \in RestOfWord BY <2>1, MissesNothing DEF Cursor
    <3> QED BY <3>1, <1>3, SearchInWord
  <2>2. CASE q >= Cursor /\ q \notin Word(index_)
    <3>1. q >= WordStart(index_) BY <2>2, <1>1, <1>2, <1>4 DEF Cursor
    <3>2. q >= WordStart(index_) + WordBits BY <2>2, <3>1, <1>2, <1>4 DEF Word
    <3> QED BY <3>2, <1>2, <1>4
  <2> QED BY <2>1, <2>2
<1>7. Reach(p) = p BY <1>3 DEF Reach
<1> QED BY <1>3, <1>4, <1>5, <1>6, <1>7, <1>2 DEF Reach

(* How far the second loop goes to a word: it begins after the current     *)
(* word and comes to that one last.                                        *)
LEMMA ScanDistanceIs ==
    ASSUME Room, UidInv, CYCLIC, NEW w \in Words
    PROVE  ScanDistance(w) = IF w > index_ THEN w - index_ - 1 ELSE w - index_ - 1 + UID_SLOTS
<1>1. /\ UID_SLOTS \in Nat \ {0} /\ index_ \in 0 .. UID_SLOTS - 1 /\ w \in 0 .. UID_SLOTS - 1
  BY RangeFacts DEF UidInv, UidTypeOK, Words
<1>2. CASE index_ = UID_SLOTS - 1
  <2>1. index_ + 1 = UID_SLOTS * 1 + 0 BY <1>1, <1>2
  <2>2. ScanStart = 0
    <3>1. 0 \in 0 .. UID_SLOTS - 1 BY <1>1
    <3>2. (index_ + 1) % UID_SLOTS = 0 BY <1>1, <2>1, <3>1, 1 \in Int, ModUnique
    <3> QED BY <3>2 DEF ScanStart
  <2>3. PICK x \in Int : x = w - 0 BY <1>1
  <2>4. x = UID_SLOTS * 0 + w BY <2>3, <1>1
  <2>5. x % UID_SLOTS = w BY <2>4, <1>1, 0 \in Int, ModUnique
  <2> QED BY <2>2, <2>3, <2>5, <1>1, <1>2 DEF ScanDistance
<1>3. CASE index_ < UID_SLOTS - 1
  <2>1. PICK s \in 0 .. UID_SLOTS - 1 : s = index_ + 1 BY <1>1, <1>3
  <2>2. s = UID_SLOTS * 0 + s BY <1>1
  <2>3. s % UID_SLOTS = s BY <2>2, <1>1, 0 \in Int, ModUnique
  <2>4. ScanStart = s BY <2>1, <2>3 DEF ScanStart
  <2>5. PICK x \in Int : x = w - s BY <1>1
  <2>6. CASE w > index_
    <3>1. x \in 0 .. UID_SLOTS - 1 /\ x = UID_SLOTS * 0 + x BY <1>1, <2>1, <2>5, <2>6
    <3>2. x % UID_SLOTS = x BY <3>1, <1>1, 0 \in Int, ModUnique
    <3> QED BY <3>2, <2>1, <2>4, <2>5, <2>6, <1>1 DEF ScanDistance
  <2>7. CASE ~ (w > index_)
    <3>1. PICK r \in 0 .. UID_SLOTS - 1 : r = x + UID_SLOTS BY <1>1, <2>1, <2>5, <2>7
    <3>2. x = UID_SLOTS * (-1) + r BY <3>1, <1>1
    <3>3. x % UID_SLOTS = r BY <3>1, <3>2, <1>1, -1 \in Int, ModUnique
    <3> QED BY <3>1, <3>3, <2>1, <2>4, <2>5, <2>7, <1>1 DEF ScanDistance
  <2> QED BY <2>6, <2>7
<1> QED BY <1>1, <1>2, <1>3

(* When nothing is left in the current word, its free bits come last.      *)
LEMMA ReachByWord ==
    ASSUME Room, UidInv, RestOfWord = {}, NEW w \in Words,
           NEW r \in Word(w) \cap (Used \ bitmap_)
    PROVE  Reach(r) = IF w > index_ THEN r ELSE r + UID_COUNT
<1>1. /\ index_ \in Words /\ index_ \in Nat /\ w \in Nat /\ bit_ \in 0 .. WordBits
      /\ WordStart(index_) \in Nat /\ WordStart(w) \in Nat /\ WordBits \in Nat \ {0}
      /\ r \in Nat
  BY WordsApart, RangeFacts DEF UidInv, UidTypeOK, Used
<1>2. WordStart(w) <= r /\ r <= WordStart(w) + WordBits - 1 BY <1>1 DEF Word
<1>3. WordStart(index_) <= Cursor /\ Cursor <= WordStart(index_) + WordBits /\ Cursor \in Nat
  BY <1>1 DEF Cursor
<1>4. CASE w > index_
  <2>1. WordStart(index_) + WordBits <= WordStart(w) BY <1>1, <1>4, WordsApart
  <2> QED BY <2>1, <1>1, <1>2, <1>3, <1>4 DEF Reach
<1>5. CASE w < index_
  <2>1. WordStart(w) + WordBits <= WordStart(index_) BY <1>1, <1>5, WordsApart
  <2>2. ~ (r >= Cursor) /\ ~ (w > index_) BY <2>1, <1>1, <1>2, <1>3, <1>5
  <2> QED BY <2>2 DEF Reach
<1>6. CASE w = index_
  <2>1. ~ (r >= Cursor) BY <1>6, MissesNothing DEF Cursor
  <2> QED BY <2>1, <1>6, <1>1 DEF Reach
<1> QED BY <1>1, <1>4, <1>5, <1>6

(* A bit that the second loop takes is then the first free one from the    *)
(* cursor on, going round.                                                 *)
LEMMA ScanNearest ==
    ASSUME Room, UidInv, CYCLIC, RestOfWord = {}, UsableWords # {},
           NEW q \in Used \ bitmap_
    PROVE  Reach(Least(Unset(FirstUsable))) <= Reach(q)
<1>1. PICK f \in UsableWords :
        f = FirstUsable /\ \A w \in UsableWords : ScanDistance(f) <= ScanDistance(w)
  BY ScanFinds
<1>2. PICK p \in Word(f) \cap (Used \ bitmap_) :
        p = Least(Unset(f)) /\ \A r \in Unset(f) : p <= r
  BY SearchByScan
<1>3. PICK v \in Words : q \in Word(v) BY UsedArePositions, InSomeWord
<1>4. v \in UsableWords BY <1>3, FreeIsUsable
<1>5. ScanDistance(f) <= ScanDistance(v) BY <1>1, <1>4
<1>6. f \in Words BY SearchByScan
<1>7. /\ UID_COUNT \in Nat /\ UID_SLOTS \in Nat /\ WordBits \in Nat \ {0}
      /\ index_ \in 0 .. UID_SLOTS - 1 /\ f \in 0 .. UID_SLOTS - 1 /\ v \in 0 .. UID_SLOTS - 1
      /\ p \in 0 .. UID_COUNT - 1 /\ q \in 0 .. UID_COUNT - 1
  BY <1>6, RangeFacts DEF UidInv, UidTypeOK, Words, Used
<1>8. f <= v => p <= q
  <2>1. CASE f = v
    <3>1. q \in Unset(f) BY <2>1, <1>3 DEF Unset
    <3> QED BY <3>1, <1>2
  <2>2. CASE f < v
    <3>1. WordStart(f) + WordBits <= WordStart(v) /\ WordStart(f) \in Nat /\ WordStart(v) \in Nat
      BY <2>2, <1>3, <1>6, WordsApart
    <3>2. p <= WordStart(f) + WordBits - 1 /\ WordStart(v) <= q
      BY <3>1, <1>2, <1>3, <1>7 DEF Word
    <3> QED BY <3>1, <3>2, <1>7
  <2> QED BY <2>1, <2>2, <1>7
<1>9. /\ ScanDistance(f) = IF f > index_ THEN f - index_ - 1 ELSE f - index_ - 1 + UID_SLOTS
      /\ ScanDistance(v) = IF v > index_ THEN v - index_ - 1 ELSE v - index_ - 1 + UID_SLOTS
  BY <1>3, <1>6, ScanDistanceIs
<1>10. Reach(p) = IF f > index_ THEN p ELSE p + UID_COUNT BY <1>6, ReachByWord
<1>11. Reach(q) = IF v > index_ THEN q ELSE q + UID_COUNT BY <1>3, ReachByWord
<1>12. CASE f > index_ /\ v > index_
  <2>1. f <= v BY <1>12, <1>5, <1>7, <1>9
  <2> QED BY <2>1, <1>1, <1>2, <1>8, <1>10, <1>11, <1>12
<1>13. CASE f > index_ /\ ~ (v > index_)
  BY <1>13, <1>1, <1>2, <1>7, <1>10, <1>11
<1>14. CASE ~ (f > index_) /\ v > index_
  <2>1. FALSE BY <1>14, <1>5, <1>7, <1>9
  <2> QED BY <2>1
<1>15. CASE ~ (f > index_) /\ ~ (v > index_)
  <2>1. f <= v BY <1>15, <1>5, <1>7, <1>9
  <2> QED BY <2>1, <1>1, <1>2, <1>7, <1>8, <1>10, <1>11, <1>15
<1> QED BY <1>12, <1>13, <1>14, <1>15

(* Positions and ids correspond: a position is held as its id is.          *)
LEMMA HeldIs ==
    ASSUME Room, UidInv
    PROVE  /\ Held \subseteq MIN_UID .. MAX_UID
           /\ Pool!Free = {p + MIN_UID : p \in Used \ bitmap_}
<1>1. bitmap_ \subseteq Used BY DEF UidInv
<1>2. \A p \in Used : p \in Nat /\ p + MIN_UID \in MIN_UID .. MAX_UID BY RangeFacts DEF Used
<1>3. Held \subseteq MIN_UID .. MAX_UID BY <1>1, <1>2 DEF Held
<1>4. ASSUME NEW id \in (MIN_UID .. MAX_UID) \ Held
      PROVE  id \in {p + MIN_UID : p \in Used \ bitmap_}
  <2>1. PICK p \in Used : id = p + MIN_UID
    <3>1. id - MIN_UID \in Used /\ id = (id - MIN_UID) + MIN_UID BY RangeFacts DEF Used
    <3> QED BY <3>1
  <2> QED BY <2>1 DEF Held
<1>5. ASSUME NEW p \in Used \ bitmap_ PROVE p + MIN_UID \in (MIN_UID .. MAX_UID) \ Held
  <2>1. ASSUME NEW r \in bitmap_, r + MIN_UID = p + MIN_UID PROVE FALSE
    <3>1. r \in Nat /\ p \in Nat BY <1>1, <1>2
    <3>2. r = p BY <2>1, <3>1, RangeFacts
    <3> QED BY <3>2
  <2> QED BY <1>2, <2>1 DEF Held
<1> QED BY <1>3, <1>4, <1>5 DEF Pool!Free, Pool!Ids

(* Handing out a free bit, in the cyclic mode the one within nearest       *)
(* reach, is an allocation of the pool.                                    *)
LEMMA TakeAllocates ==
    ASSUME Room, UidInv, NEW index \in Words,
           NEW position \in Word(index) \cap (Used \ bitmap_), Take(index, position),
           CYCLIC => \A q \in Used \ bitmap_ : Reach(position) <= Reach(q)
    PROVE  Pool!PoolAllocate /\ CYCLIC' = CYCLIC
<1>1. /\ position \in Nat /\ WordStart(index) \in Nat /\ MIN_UID \in Nat
      /\ Get(position) = position + MIN_UID
  BY UsedArePositions, GetExact, WordsApart, RangeFacts
<1>2. PICK id \in Pool!Free : id = position + MIN_UID BY HeldIs
<1>3. /\ bitmap_' = bitmap_ \cup {position} /\ uid' = Get(position) /\ CYCLIC' = CYCLIC
      /\ bit_' = position - WordStart(index) + 1 /\ index_' = index
  BY DEF Take
<1>4. Held' = Held \cup {id} BY <1>2, <1>3 DEF Held
<1>5. Latest' = id
  <2>1. Latest' = MIN_UID + WordStart(index) + (position - WordStart(index) + 1) - 1
    BY <1>3 DEF Latest, WordStart
  <2> QED BY <2>1, <1>1, <1>2
<1>6. uid' = id BY <1>1, <1>2, <1>3
<1>7. ASSUME CYCLIC, NEW other \in Pool!Free PROVE Pool!Ahead(id) <= Pool!Ahead(other)
  <2>1. PICK q \in Used \ bitmap_ : other = q + MIN_UID BY HeldIs
  <2>2. Reach(position) <= Reach(q) BY <1>7
  <2>3. /\ Pool!Ahead(id) = Reach(position) - Cursor + 1
        /\ Pool!Ahead(other) = Reach(q) - Cursor + 1
    BY <1>2, <2>1, AheadIs
  <2>4. index_ \in Words /\ bit_ \in Nat BY DEF UidInv, UidTypeOK
  <2>5. Cursor \in Nat BY <2>4, WordsApart DEF Cursor
  <2>6. position \in Nat /\ q \in Nat /\ UID_COUNT \in Nat BY RangeFacts DEF Used
  <2>7. Reach(position) \in Int /\ Reach(q) \in Int BY <2>6 DEF Reach
  <2> QED BY <2>2, <2>3, <2>5, <2>7
<1> QED BY <1>3, <1>4, <1>5, <1>6, <1>7 DEF Pool!PoolAllocate

(* Every step of the bitmap is a step of the pool or leaves it as it is.   *)
LEMMA PoolStep ==
    ASSUME Room, UidInv, [UidNext]_uidVars
    PROVE  [Pool!PoolNext]_(Pool!poolVars)
<1> UidTypeOK /\ bitmap_ \subseteq Used BY DEF UidInv
<1>1. CASE AllocateRefused
  <2>1. bitmap_ = Used BY <1>1, FreeExists DEF AllocateRefused
  <2>2. Pool!Free = {} BY <2>1, HeldIs
  <2>3. uid' = Failed /\ UNCHANGED <<CYCLIC, bitmap_, bit_, index_, count_>>
    BY <1>1 DEF AllocateRefused
  <2>4. Held' = Held /\ Latest' = Latest BY <2>3 DEF Held, Latest, WordStart
  <2> QED BY <2>2, <2>3, <2>4 DEF Pool!PoolNext, Pool!PoolAllocate
<1>2. CASE AllocateInWord
  <2>1. /\ index_ \in Words /\ RestOfWord # {} /\ Take(index_, Least(RestOfWord))
    BY <1>2 DEF AllocateInWord, UidTypeOK
  <2>2. Pool!PoolAllocate /\ CYCLIC' = CYCLIC
    BY <2>1, SearchInWord, WordNearest, TakeAllocates
  <2> QED BY <2>2 DEF Pool!PoolNext
<1>3. CASE AllocateByScan
  <2>1. UsableWords # {}
    <3>1. PICK q \in Used \ bitmap_ : TRUE BY <1>3, FreeExists DEF AllocateByScan
    <3>2. PICK w \in Words : q \in Word(w) BY UsedArePositions, InSomeWord
    <3> QED BY <3>2, FreeIsUsable
  <2>2. PICK f \in UsableWords : f = FirstUsable BY <2>1, ScanFinds
  <2>3. PICK p \in Word(f) \cap (Used \ bitmap_) : p = Least(Unset(f)) BY SearchByScan
  <2>4. Take(f, p) /\ (~CYCLIC \/ RestOfWord = {})
    BY <1>3, <2>1, <2>2, <2>3 DEF AllocateByScan
  <2>5. CYCLIC => \A q \in Used \ bitmap_ : Reach(p) <= Reach(q)
    BY <2>1, <2>2, <2>3, <2>4, ScanNearest
  <2>6. f \in Words BY SearchByScan
  <2>7. Pool!PoolAllocate /\ CYCLIC' = CYCLIC BY <2>4, <2>5, <2>6, TakeAllocates
  <2> QED BY <2>7 DEF Pool!PoolNext
<1>4. ASSUME NEW id \in 0 .. UintMod - 1, Release(id) PROVE Pool!PoolNext
  <2>1. PICK p \in bitmap_ : p = id - MIN_UID BY <1>4 DEF Release
  <2>2. bitmap_' = bitmap_ \ {p} /\ UNCHANGED <<CYCLIC, bit_, index_, uid>>
    BY <1>4, <2>1 DEF Release
  <2>3. \A r \in bitmap_ : r \in Nat BY RangeFacts DEF Used
  <2>4. ASSUME NEW r \in bitmap_, r # p PROVE r + MIN_UID # p + MIN_UID
    <3>1. r \in Nat /\ p \in Nat /\ MIN_UID \in Nat BY <2>3, RangeFacts
    <3> QED BY <3>1, <2>4
  <2>5. Held' = Held \ {p + MIN_UID} /\ p + MIN_UID \in Held
    BY <2>2, <2>4 DEF Held
  <2>6. Latest' = Latest BY <2>2 DEF Latest, WordStart
  <2>7. Pool!PoolRelease BY <2>2, <2>5, <2>6 DEF Pool!PoolRelease
  <2> QED BY <2>2, <2>7 DEF Pool!PoolNext
<1>5. CASE UidClear
  <2>1. bitmap_' = {} /\ bit_' = 0 /\ index_' = 0 /\ UNCHANGED <<CYCLIC, uid>>
    BY <1>5 DEF UidClear
  <2>2. Held' = {} BY <2>1 DEF Held
  <2>3. Latest' = MIN_UID - 1
    <3>1. Latest' = MIN_UID + 0 * WordBits + 0 - 1 BY <2>1 DEF Latest, WordStart
    <3> QED BY <3>1, RangeFacts
  <2> QED BY <2>1, <2>2, <2>3 DEF Pool!PoolNext, Pool!PoolClear
<1>6. CASE UNCHANGED uidVars
  <2>1. UNCHANGED <<CYCLIC, Held, Latest, uid>>
    BY <1>6 DEF uidVars, Held, Latest, WordStart
  <2> QED BY <2>1 DEF Pool!poolVars
<1> QED BY <1>1, <1>2, <1>3, <1>4, <1>5, <1>6 DEF UidNext, Allocate

(* The initial states of the bitmap are initial states of the pool.        *)
LEMMA PoolStart == ASSUME Room, UidInit PROVE Pool!PoolInit
<1>1. Held = {} BY DEF UidInit, Held
<1>2. Latest = MIN_UID + 0 * WordBits + 0 - 1 BY DEF UidInit, Latest, WordStart
<1> QED BY <1>1, <1>2, RangeFacts DEF UidInit, Pool!PoolInit

(* The bitmap, its cursor and the two loops implement the pool of ids: an  *)
(* id that nobody holds, refused only when all are held, and in the cyclic *)
(* mode the next free one going round, for every range with room and words *)
(* of any width.                                                           *)
THEOREM ImplementsPoolHolds == ASSUME Room PROVE UidSpec => ImplementsPool
<1>1. UidInit => Pool!PoolInit BY PoolStart
<1>2. UidInv /\ [UidNext]_uidVars => [Pool!PoolNext]_(Pool!poolVars) BY PoolStep
<1> QED BY <1>1, <1>2, UidInvariant, PTL DEF UidSpec, ImplementsPool, Pool!PoolSpec

-----------------------------------------------------------------------------
(* Combination: the inductive invariant.  The loop passes the choices in   *)
(* lexicographic order.                                                    *)

(* The choices of the call that runs, as the numbers in the places.        *)
Selections == {q \in [0 .. places - 1 -> 0 .. numbers - 1] : Ascending(q)}

(* The choices the loop has passed: the first place in which they differ   *)
(* from pos, or in the place that is tried from next, decides.             *)
SameBelow(q, n) == \A m \in 0 .. n - 1 : q[m] = pos[m]

Behind(q) ==
    \/ \E n \in 0 .. place - 1 : q[n] < pos[n] /\ SameBelow(q, n)
    \/ place < places /\ q[place] < next /\ SameBelow(q, place)

(* What is in the places so far ascends, and goes on with next or later.   *)
PlacesInv ==
    /\ numbers \in Nat /\ places \in Nat /\ combining \in {"no", "yes", "done"}
    /\ combining = "no" => shown = <<>> /\ next = 0 /\ place = 0
    /\ combining # "no" =>
          /\ places >= 2 /\ pos \in [0 .. places - 1 -> Nat]
          /\ place \in 0 .. places /\ next \in 0 .. numbers
          /\ \A n \in 0 .. place - 1 : pos[n] < next
          /\ \A m, n \in 0 .. place - 1 : m < n => pos[m] < pos[n]
          /\ place = places => next = pos[places - 1] + 1

(* What is shown is what the loop has passed, each once, and in order.     *)
ShownInv ==
    combining # "no" =>
       /\ shown \in Seq(Selections)
       /\ \A n \in 2 .. Len(shown) : Earlier(shown[n - 1], shown[n])
       /\ \A q \in Selections : (\E n \in DOMAIN shown : shown[n] = q) <=> combining = "done" \/ Behind(q)

CombInv == PlacesInv /\ ShownInv

-----------------------------------------------------------------------------
(* A choice has a number in every place, more in a later one.              *)
LEMMA ChoiceIs ==
    ASSUME PlacesInv, NEW q \in Selections
    PROVE  /\ \A n \in 0 .. places - 1 : q[n] \in Nat /\ q[n] < numbers
           /\ \A m, n \in 0 .. places - 1 : m < n => q[m] < q[n]
<1>1. q \in [0 .. places - 1 -> 0 .. numbers - 1] /\ Ascending(q) BY DEF Selections
<1>2. DOMAIN q = 0 .. places - 1 BY <1>1
<1>3. \A m, n \in 0 .. places - 1 : m < n => q[m] < q[n] BY <1>1, <1>2 DEF Ascending
<1>4. \A n \in 0 .. places - 1 : q[n] \in 0 .. numbers - 1 BY <1>1
<1> QED BY <1>3, <1>4 DEF PlacesInv

(* Placing a number passes no choice: the next place starts above it.      *)
LEMMA PlaceBehind ==
    ASSUME PlacesInv, combining = "yes", Place, UNCHANGED <<numbers, places>>, NEW q \in Selections
    PROVE  Behind(q)' <=> Behind(q)
<1>1. /\ place \in Nat /\ place < places /\ next \in Nat /\ next < numbers
      /\ place' = place + 1 /\ next' = next + 1 /\ places' = places /\ places \in Nat
      /\ pos' = [pos EXCEPT ![place] = next] /\ pos \in [0 .. places - 1 -> Nat]
  BY DEF Place, PlacesInv
<1>2. PICK p \in Nat : p = place BY <1>1
<1>3. pos'[p] = next /\ \A m \in 0 .. p - 1 : pos'[m] = pos[m] BY <1>1, <1>2
<1>4. /\ \A n \in 0 .. places - 1 : q[n] \in Nat /\ q[n] < numbers
      /\ \A m, n \in 0 .. places - 1 : m < n => q[m] < q[n]
  BY ChoiceIs
<1>5. \A n \in 0 .. p : SameBelow(q, n)' <=> SameBelow(q, n)
  BY <1>1, <1>2, <1>3 DEF SameBelow
<1>6. Behind(q) <=> \/ \E n \in 0 .. p - 1 : q[n] < pos[n] /\ SameBelow(q, n)
                    \/ q[p] < next /\ SameBelow(q, p)
  BY <1>1, <1>2 DEF Behind
<1>7. Behind(q)' <=> \E n \in 0 .. p : q[n] < pos'[n] /\ SameBelow(q, n)'
  <2>1. ~ (p + 1 < places /\ q[p + 1] < next + 1 /\ SameBelow(q, p + 1)')
    <3> SUFFICES ASSUME p + 1 < places, q[p + 1] < next + 1, SameBelow(q, p + 1)' PROVE FALSE
      OBVIOUS
    <3>1. q[p] = pos'[p] BY DEF SameBelow
    <3>2. q[p] < q[p + 1] /\ q[p] \in Nat /\ q[p + 1] \in Nat BY <1>1, <1>4
    <3> QED BY <1>1, <1>3, <3>1, <3>2
  <2>2. place' = p + 1 /\ p + 1 - 1 = p BY <1>1, <1>2
  <2> QED BY <1>1, <2>1, <2>2 DEF Behind, SameBelow
<1>8. (\E n \in 0 .. p : q[n] < pos'[n] /\ SameBelow(q, n)')
         <=> \/ \E n \in 0 .. p - 1 : q[n] < pos'[n] /\ SameBelow(q, n)'
             \/ q[p] < pos'[p] /\ SameBelow(q, p)'
  <2>1. p \in 0 .. p /\ \A n \in Int : n \in 0 .. p <=> n = p \/ n \in 0 .. p - 1 OBVIOUS
  <2> HIDE DEF SameBelow
  <2> QED BY <2>1
<1>9. (\E n \in 0 .. p - 1 : q[n] < pos'[n] /\ SameBelow(q, n)')
         <=> \E n \in 0 .. p - 1 : q[n] < pos[n] /\ SameBelow(q, n)
  <2>1. \A n \in 0 .. p - 1 : n \in 0 .. p OBVIOUS
  <2> HIDE DEF SameBelow
  <2> QED BY <1>3, <1>5, <2>1
<1>10. p \in 0 .. p OBVIOUS
<1> QED BY <1>3, <1>5, <1>6, <1>7, <1>8, <1>9, <1>10

(* Back to a place, whose number has been tried: what is passed besides    *)
(* has that number there and whatever can follow it.                       *)
LEMMA BackBehind ==
    ASSUME PlacesInv, combining = "yes", NEW k \in 0 .. place - 1,
           place' = k, next' = pos[k] + 1, UNCHANGED <<numbers, places, pos>>, NEW q \in Selections
    PROVE  Behind(q)' <=> \/ \E n \in 0 .. k : q[n] < pos[n] /\ SameBelow(q, n)
                          \/ SameBelow(q, k + 1)
<1>1. /\ place \in Nat /\ place <= places /\ places \in Nat /\ pos \in [0 .. places - 1 -> Nat]
      /\ k \in Nat /\ k < places
  BY DEF PlacesInv
<1>2. \A n \in 0 .. places - 1 : q[n] \in Nat /\ pos[n] \in Nat BY <1>1, ChoiceIs
<1>3. \A n \in Nat : SameBelow(q, n)' <=> SameBelow(q, n) BY DEF SameBelow
<1>4. SameBelow(q, k + 1) <=> SameBelow(q, k) /\ q[k] = pos[k] BY <1>1 DEF SameBelow
<1>5. Behind(q)' <=> \/ \E n \in 0 .. k - 1 : q[n] < pos[n] /\ SameBelow(q, n)
                     \/ q[k] < pos[k] + 1 /\ SameBelow(q, k)
  <2>1. \A n \in 0 .. k - 1 : SameBelow(q, n)' <=> SameBelow(q, n) BY <1>3
  <2> QED BY <1>1, <1>3, <2>1 DEF Behind
<1>6. q[k] \in Nat /\ pos[k] \in Nat BY <1>1, <1>2
<1>7. q[k] < pos[k] + 1 <=> q[k] < pos[k] \/ q[k] = pos[k] BY <1>6
<1>8. \A n \in 0 .. k : n = k \/ n \in 0 .. k - 1 BY <1>1
<1>9. (\E n \in 0 .. k : q[n] < pos[n] /\ SameBelow(q, n))
         <=> \/ \E n \in 0 .. k - 1 : q[n] < pos[n] /\ SameBelow(q, n)
             \/ q[k] < pos[k] /\ SameBelow(q, k)
  <2>1. k \in 0 .. k /\ \A n \in 0 .. k - 1 : n \in 0 .. k BY <1>1
  <2> HIDE DEF SameBelow
  <2> QED BY <1>8, <2>1
<1> QED BY <1>4, <1>5, <1>7, <1>9

(* The full places are themselves a choice, and what is behind it comes    *)
(* earlier.                                                                *)
LEMMA FullPlaces ==
    ASSUME PlacesInv, combining = "yes", place = places
    PROVE  /\ pos \in Selections
           /\ \A q \in Selections : Behind(q) => Earlier(q, pos)
           /\ \A q \in Selections : SameBelow(q, places) <=> q = pos
<1>1. /\ places \in Nat /\ places >= 2 /\ pos \in [0 .. places - 1 -> Nat] /\ numbers \in Nat
      /\ \A n \in 0 .. places - 1 : pos[n] < next
      /\ next \in 0 .. numbers
      /\ \A m, n \in 0 .. places - 1 : m < n => pos[m] < pos[n]
  BY DEF PlacesInv
<1>2. \A n \in 0 .. places - 1 : pos[n] \in 0 .. numbers - 1
  <2> SUFFICES ASSUME NEW n \in 0 .. places - 1 PROVE pos[n] \in 0 .. numbers - 1
    OBVIOUS
  <2>1. pos[n] \in Nat /\ pos[n] < next /\ next \in Nat /\ next <= numbers BY <1>1
  <2> QED BY <1>1, <2>1
<1>3. pos \in [0 .. places - 1 -> 0 .. numbers - 1] BY <1>1, <1>2
<1>4. pos \in Selections BY <1>1, <1>3 DEF Selections, Ascending
<1>5. ASSUME NEW q \in Selections PROVE Behind(q) => Earlier(q, pos)
  <2>1. DOMAIN q = 0 .. places - 1 BY DEF Selections
  <2> QED BY <1>1, <2>1 DEF Behind, SameBelow, Earlier
<1>6. ASSUME NEW q \in Selections, SameBelow(q, places) PROVE q = pos
  <2>1. q \in [0 .. places - 1 -> 0 .. numbers - 1] BY DEF Selections
  <2>2. \A n \in 0 .. places - 1 : q[n] = pos[n] BY <1>6 DEF SameBelow
  <2>3. q = [n \in 0 .. places - 1 |-> q[n]] BY <2>1
  <2>4. pos = [n \in 0 .. places - 1 |-> pos[n]] BY <1>3
  <2> QED BY <2>2, <2>3, <2>4
<1>7. SameBelow(pos, places) BY DEF SameBelow
<1> QED BY <1>4, <1>5, <1>6, <1>7

(* Showing a choice passes it, and no other.                               *)
LEMMA ShowBehind ==
    ASSUME PlacesInv, combining = "yes", Show, UNCHANGED <<numbers, places>>, NEW q \in Selections
    PROVE  Behind(q)' <=> Behind(q) \/ q = pos
<1>1. /\ places \in Nat /\ places >= 2 /\ place = places /\ pos \in [0 .. places - 1 -> Nat]
      /\ next = pos[places - 1] + 1 /\ numbers \in Nat
      /\ UNCHANGED <<numbers, places, pos>>
  BY DEF Show, PlacesInv
<1>2. PICK c \in Nat : c = places BY <1>1
<1>3. SameBelow(q, c) <=> q = pos BY <1>1, <1>2, FullPlaces
<1>4. Behind(q) <=> \E n \in 0 .. c - 1 : q[n] < pos[n] /\ SameBelow(q, n)
  BY <1>1, <1>2 DEF Behind
<1>5. CASE numbers # next
  <2>1. c - 1 \in 0 .. place - 1 /\ place' = c - 1 /\ next' = pos[c - 1] + 1
    BY <1>1, <1>2, <1>5 DEF Show
  <2>2. c - 1 + 1 = c BY <1>2
  <2>3. Behind(q)' <=> \/ \E n \in 0 .. c - 1 : q[n] < pos[n] /\ SameBelow(q, n)
                       \/ SameBelow(q, c - 1 + 1)
    BY <1>1, <2>1, BackBehind
  <2> QED BY <1>3, <1>4, <2>2, <2>3
<1>6. CASE numbers = next
  <2>1. c - 2 \in 0 .. place - 1 /\ place' = c - 2 /\ next' = pos[c - 2] + 1
    BY <1>1, <1>2, <1>6 DEF Show
  <2>2. c - 2 + 1 = c - 1 BY <1>2
  <2>3. Behind(q)' <=> \/ \E n \in 0 .. c - 2 : q[n] < pos[n] /\ SameBelow(q, n)
                       \/ SameBelow(q, c - 1)
    BY <1>1, <2>1, <2>2, BackBehind
  <2>4. c - 1 \in 0 .. places - 1 /\ q[c - 1] \in Nat /\ pos[c - 1] \in Nat /\ q[c - 1] < numbers
    BY <1>1, <1>2, ChoiceIs
  <2>5. q[c - 1] <= pos[c - 1] BY <1>1, <1>2, <1>6, <2>4
  <2>6. SameBelow(q, c - 1) <=> SameBelow(q, c - 1) /\ (q[c - 1] < pos[c - 1] \/ q[c - 1] = pos[c - 1])
    BY <2>4, <2>5
  <2>7. SameBelow(q, c - 1) /\ q[c - 1] = pos[c - 1] <=> SameBelow(q, c)
    BY <1>1, <1>2 DEF SameBelow
  <2>8. \A n \in Int : n \in 0 .. c - 1 <=> n = c - 1 \/ n \in 0 .. c - 2 BY <1>1, <1>2
  <2> HIDE DEF SameBelow
  <2> QED BY <1>3, <1>4, <2>3, <2>6, <2>7, <2>8
<1> QED BY <1>5, <1>6

-----------------------------------------------------------------------------
(* What is shown stays in order when the full places are shown.            *)
LEMMA ShownGrows ==
    ASSUME CombInv, combining = "yes", Show, UNCHANGED <<numbers, places>>
    PROVE  ShownInv'
<1>1. /\ PlacesInv /\ shown \in Seq(Selections)
      /\ \A n \in 2 .. Len(shown) : Earlier(shown[n - 1], shown[n])
      /\ \A q \in Selections : (\E n \in DOMAIN shown : shown[n] = q) <=> Behind(q)
  BY DEF CombInv, ShownInv
<1>2. /\ place = places /\ shown' = Append(shown, pos) /\ UNCHANGED <<pos, combining>>
  BY DEF Show
<1>3. Selections' = Selections BY DEF Selections
<1>4. /\ pos \in Selections
      /\ \A q \in Selections : Behind(q) => Earlier(q, pos)
  BY <1>1, <1>2, FullPlaces
<1>5. PICK l \in Nat : l = Len(shown) /\ DOMAIN shown = 1 .. l BY <1>1
<1>6. /\ shown' \in Seq(Selections) /\ Len(shown') = l + 1 /\ DOMAIN shown' = 1 .. l + 1
      /\ \A n \in 1 .. l : shown'[n] = shown[n]
      /\ shown'[l + 1] = pos
  BY <1>1, <1>2, <1>4, <1>5, AppendProperties
<1>7. ASSUME NEW n \in 2 .. l + 1 PROVE Earlier(shown'[n - 1], shown'[n])
  <2>1. n - 1 \in 1 .. l /\ shown'[n - 1] = shown[n - 1] BY <1>5, <1>6
  <2>2. CASE n = l + 1
    <3>1. shown[n - 1] \in Selections BY <1>1, <1>5, <2>1
    <3>2. Behind(shown[n - 1]) BY <1>1, <1>5, <2>1, <3>1
    <3> QED BY <1>4, <1>6, <2>1, <2>2, <3>1, <3>2
  <2>3. CASE n # l + 1
    <3>1. n \in 2 .. l /\ n \in 1 .. l BY <1>5, <2>3
    <3> QED BY <1>1, <1>5, <1>6, <2>1, <3>1
  <2> QED BY <2>2, <2>3
<1>8. ASSUME NEW q \in Selections
      PROVE  (\E n \in DOMAIN shown' : shown'[n] = q) <=> Behind(q)'
  <2>1. Behind(q)' <=> Behind(q) \/ q = pos BY <1>1, ShowBehind
  <2>2. \A n \in Int : n \in 1 .. l + 1 <=> n = l + 1 \/ n \in 1 .. l BY <1>5
  <2>3. (\E n \in 1 .. l + 1 : shown'[n] = q) <=> (\E n \in 1 .. l : shown[n] = q) \/ pos = q
    BY <1>5, <1>6, <2>2
  <2> HIDE DEF Behind
  <2> QED BY <1>1, <1>5, <1>6, <2>1, <2>3
<1> QED BY <1>2, <1>3, <1>6, <1>7, <1>8 DEF ShownInv

(* Every step of the loop keeps the invariant.                             *)
LEMMA CombKeeps == CombInv /\ [CombNext]_combVars => CombInv'
<1> SUFFICES ASSUME CombInv, [CombNext]_combVars PROVE CombInv'
  OBVIOUS
<1>0. PlacesInv /\ ShownInv BY DEF CombInv
<1>1. CASE Combine
  <2>1. /\ shown' = <<>> /\ place' = 0 /\ next' = 0 /\ combining' = "yes"
        /\ numbers' \in Nat /\ places' \in Nat /\ places' >= 2
        /\ pos' = [n \in 0 .. places' - 1 |-> 0]
    BY <1>0, <1>1, MaxNumbersAssumption DEF Combine, PlacesInv
  <2>2. PlacesInv' BY <2>1 DEF PlacesInv
  <2>3. ShownInv'
    <3>1. ASSUME NEW q \in Selections' PROVE ~ Behind(q)'
      <4>1. q \in [0 .. places' - 1 -> 0 .. numbers' - 1] BY DEF Selections
      <4>2. q[0] \in Nat BY <2>1, <4>1
      <4> QED BY <2>1, <4>2 DEF Behind
    <3> QED BY <2>1, <3>1 DEF ShownInv
  <2> QED BY <2>2, <2>3 DEF CombInv
<1>2. CASE CombStep
  <2>0. combining = "yes" /\ UNCHANGED <<numbers, places>> BY <1>2 DEF CombStep
  <2>1. /\ numbers \in Nat /\ places \in Nat
        /\ places >= 2 /\ pos \in [0 .. places - 1 -> Nat]
        /\ place \in 0 .. places /\ next \in 0 .. numbers
        /\ \A n \in 0 .. place - 1 : pos[n] < next
        /\ \A m, n \in 0 .. place - 1 : m < n => pos[m] < pos[n]
        /\ place = places => next = pos[places - 1] + 1
    BY <1>0, <2>0 DEF PlacesInv
  <2>2. CASE Place
    <3>1. /\ pos' = [pos EXCEPT ![place] = next] /\ place' = place + 1 /\ next' = next + 1
          /\ place < places /\ next < numbers /\ UNCHANGED <<combining, shown>>
      BY <2>2 DEF Place
    <3>2. pos' \in [0 .. places - 1 -> Nat] /\ place' \in 0 .. places /\ next' \in 0 .. numbers
      BY <2>1, <3>1
    <3>3. /\ pos'[place] = next
          /\ \A n \in 0 .. place - 1 : pos'[n] = pos[n] /\ pos[n] \in Nat
      BY <2>1, <3>1
    <3>4. \A n \in Int : n \in 0 .. place' - 1 => n \in 0 .. place - 1 \/ n = place
      BY <2>1, <3>1
    <3>5. \A n \in 0 .. place' - 1 : pos'[n] < next' BY <2>1, <3>1, <3>3, <3>4
    <3>6. ASSUME NEW m \in 0 .. place' - 1, NEW n \in 0 .. place' - 1, m < n PROVE pos'[m] < pos'[n]
      <4>1. m \in 0 .. place - 1 BY <2>1, <3>1, <3>6
      <4> QED BY <2>1, <3>3, <3>4, <3>6, <4>1
    <3>7. place' = places' => next' = pos'[places' - 1] + 1 BY <2>0, <2>1, <3>1, <3>3
    <3>8. PlacesInv' BY <2>0, <2>1, <3>1, <3>2, <3>5, <3>6, <3>7 DEF PlacesInv
    <3>9. Selections' = Selections /\ \A q \in Selections : Behind(q)' <=> Behind(q)
      BY <1>0, <2>0, <2>2, PlaceBehind DEF Selections
    <3>10. ShownInv' BY <1>0, <2>0, <3>1, <3>9 DEF ShownInv
    <3> QED BY <3>8, <3>10 DEF CombInv
  <2>3. ASSUME NEW k \in 0 .. place - 1, place' = k, next' = pos[k] + 1, UNCHANGED <<pos, combining>>
        PROVE  PlacesInv'
    <3>1. pos[k] \in Nat /\ pos[k] < next BY <2>1
    <3>2. next' \in 0 .. numbers /\ place' \in 0 .. places /\ place' # places
      BY <2>1, <2>3, <3>1
    <3>3. \A n \in 0 .. k - 1 : pos[n] < pos[k] /\ pos[n] \in Nat BY <2>1
    <3>4. \A n \in 0 .. k - 1 : pos[n] < next' BY <2>3, <3>1, <3>3
    <3>5. \A m, n \in 0 .. k - 1 : m < n => pos[m] < pos[n] BY <2>1
    <3> QED BY <2>0, <2>1, <2>3, <3>2, <3>4, <3>5 DEF PlacesInv
  <2>4. CASE StepBack
    <3>1. PICK k \in Int : k = place - 1 BY <2>1
    <3>2. /\ place < places /\ next = numbers /\ k \in 0 .. place - 1 /\ place' = k /\ next' = pos[k] + 1
          /\ UNCHANGED <<pos, combining, shown>>
      BY <2>1, <2>4, <3>1 DEF StepBack
    <3>3. PlacesInv' BY <2>3, <3>2
    <3>4. ASSUME NEW q \in Selections PROVE Behind(q)' <=> Behind(q)
      <4>1. Behind(q)' <=> \/ \E n \in 0 .. k : q[n] < pos[n] /\ SameBelow(q, n)
                           \/ SameBelow(q, k + 1)
        BY <1>0, <2>0, <3>2, BackBehind
      <4>2. q[place] < next BY <1>0, <2>1, <3>2, ChoiceIs
      <4> QED BY <2>1, <3>1, <3>2, <4>1, <4>2 DEF Behind
    <3>5. Selections' = Selections BY <2>0 DEF Selections
    <3>6. ShownInv' BY <1>0, <2>0, <3>2, <3>4, <3>5 DEF ShownInv
    <3> QED BY <3>3, <3>6 DEF CombInv
  <2>5. CASE Leave
    <3>1. /\ place = 0 /\ next = numbers /\ combining' = "done" /\ UNCHANGED <<pos, next, place, shown>>
      BY <2>1, <2>5 DEF Leave
    <3>2. PlacesInv' BY <1>0, <2>0, <2>1, <3>1 DEF PlacesInv
    <3>3. ASSUME NEW q \in Selections PROVE Behind(q)
      <4>1. q[0] < numbers BY <1>0, <2>1, ChoiceIs
      <4> QED BY <2>1, <3>1, <4>1 DEF Behind, SameBelow
    <3>4. Selections' = Selections BY <2>0 DEF Selections
    <3>5. ShownInv' BY <1>0, <2>0, <3>1, <3>3, <3>4 DEF ShownInv
    <3> QED BY <3>2, <3>5 DEF CombInv
  <2>6. CASE Show
    <3>1. ShownInv' BY <2>0, <2>6, ShownGrows
    <3>2. place = places /\ next = pos[places - 1] + 1 /\ UNCHANGED <<pos, combining>>
      BY <2>1, <2>6 DEF Show
    <3>3. PlacesInv'
      <4>1. CASE numbers = next
        <5>1. places - 2 \in 0 .. place - 1 /\ place' = places - 2 /\ next' = pos[places - 2] + 1
          BY <2>1, <2>6, <3>2, <4>1 DEF Show
        <5> QED BY <2>3, <3>2, <5>1
      <4>2. CASE numbers # next
        <5>1. places - 1 \in 0 .. place - 1 /\ place' = places - 1 /\ next' = pos[places - 1] + 1
          BY <2>1, <2>6, <3>2, <4>2 DEF Show
        <5> QED BY <2>3, <3>2, <5>1
      <4> QED BY <4>1, <4>2
    <3> QED BY <3>1, <3>3 DEF CombInv
  <2> QED BY <1>2, <2>2, <2>4, <2>5, <2>6 DEF CombStep
<1>3. CASE UNCHANGED combVars
  <2>1. Selections' = Selections BY <1>3 DEF combVars, Selections
  <2>2. \A q : Behind(q)' <=> Behind(q) BY <1>3 DEF combVars, Behind, SameBelow
  <2> QED BY <1>0, <1>3, <2>1, <2>2 DEF combVars, CombInv, PlacesInv, ShownInv
<1> QED BY <1>1, <1>2, <1>3 DEF CombNext

(* Nothing is shown before the first call.                                 *)
LEMMA CombStart == CombInit => CombInv
BY DEF CombInit, CombInv, PlacesInv, ShownInv

(* The invariant holds in every reachable state.                           *)
LEMMA CombInvHolds == CombSpec => []CombInv
BY CombStart, CombKeeps, PTL DEF CombSpec

(* The numbers of a choice are as many as the places.                      *)
LEMMA NumbersOfChoice ==
    ASSUME PlacesInv, combining # "no", NEW q \in Selections
    PROVE  NumbersOf(q) \in AllChoices
<1>1. PICK c \in Nat : c = places BY DEF PlacesInv
<1>2. q \in [0 .. c - 1 -> 0 .. numbers - 1] /\ DOMAIN q = 0 .. c - 1 BY <1>1 DEF Selections
<1>3. /\ \A n \in 0 .. c - 1 : q[n] \in Nat
      /\ \A m, n \in 0 .. c - 1 : m < n => q[m] < q[n]
  BY <1>1, ChoiceIs
<1>4. \A m, n \in 0 .. c - 1 : q[m] = q[n] => m = n
  <2> SUFFICES ASSUME NEW m \in 0 .. c - 1, NEW n \in 0 .. c - 1, q[m] = q[n], m # n PROVE FALSE
    OBVIOUS
  <2>1. m < n \/ n < m BY <1>1
  <2>2. q[m] \in Nat /\ q[n] \in Nat BY <1>3
  <2> QED BY <1>3, <2>1, <2>2
<1>5. q \in [0 .. c - 1 -> NumbersOf(q)] /\ \A x \in NumbersOf(q) : \E n \in 0 .. c - 1 : q[n] = x
  BY <1>2 DEF NumbersOf
<1>6. q \in Bijection(0 .. c - 1, NumbersOf(q))
  BY <1>2, <1>4, <1>5 DEF Bijection, Injection, Surjection, IsInjective
<1>7. IsFiniteSet(0 .. c - 1) /\ Cardinality(0 .. c - 1) = c
  <2>1. /\ IsFiniteSet(0 .. c - 1)
        /\ Cardinality(0 .. c - 1) = IF 0 > c - 1 THEN 0 ELSE c - 1 - 0 + 1
    BY FS_Interval
  <2> QED BY <2>1
<1>8. Cardinality(NumbersOf(q)) = c BY <1>6, <1>7, FS_Bijection DEF ExistsBijection
<1>9. NumbersOf(q) \subseteq 0 .. numbers - 1 BY <1>2 DEF NumbersOf
<1> QED BY <1>1, <1>8, <1>9 DEF AllChoices

(* As many numbers as there are places are the numbers of a choice.        *)
LEMMA ChoiceOfNumbers ==
    ASSUME PlacesInv, combining # "no", NEW S \in AllChoices
    PROVE  \E q \in Selections : NumbersOf(q) = S
<1>1. PICK c \in Nat : c = places BY DEF PlacesInv
<1>2. S \in SUBSET (0 .. numbers - 1) /\ Cardinality(S) = c BY <1>1 DEF AllChoices
<1>3. IsFiniteSet(S)
  <2>1. IsFiniteSet(0 .. numbers - 1) BY FS_Interval DEF PlacesInv
  <2> QED BY <1>2, <2>1, FS_Subset
<1>4. PICK s \in [1 .. c -> S] : /\ \A i, j \in 1 .. c : i < j => s[i] < s[j]
                                 /\ \A x \in S : \E i \in 1 .. c : s[i] = x
  BY <1>2, <1>3, CountedOff
<1> DEFINE q == [n \in 0 .. c - 1 |-> s[n + 1]]
<1>5. \A n \in 0 .. c - 1 : n + 1 \in 1 .. c /\ q[n] = s[n + 1] /\ s[n + 1] \in S BY <1>1
<1>6. q \in [0 .. c - 1 -> S] /\ DOMAIN q = 0 .. c - 1 BY <1>5
<1> HIDE DEF q
<1>7. \A m, n \in 0 .. c - 1 : m < n => q[m] < q[n]
  <2> SUFFICES ASSUME NEW m \in 0 .. c - 1, NEW n \in 0 .. c - 1, m < n PROVE q[m] < q[n]
    OBVIOUS
  <2>1. m + 1 < n + 1 BY <1>1
  <2> QED BY <1>4, <1>5, <2>1
<1>8. q \in [0 .. places - 1 -> 0 .. numbers - 1] BY <1>1, <1>2, <1>6
<1>9. q \in Selections BY <1>6, <1>7, <1>8 DEF Selections, Ascending
<1>10. NumbersOf(q) \subseteq S BY <1>6 DEF NumbersOf
<1>11. ASSUME NEW x \in S PROVE x \in NumbersOf(q)
  <2>1. PICK i \in 1 .. c : s[i] = x BY <1>4
  <2>2. i - 1 \in 0 .. c - 1 /\ i - 1 + 1 = i BY <1>1
  <2>3. q[i - 1] = x BY <1>5, <2>1, <2>2
  <2> QED BY <1>6, <2>2, <2>3 DEF NumbersOf
<1>12. NumbersOf(q) = S BY <1>10, <1>11
<1> QED BY <1>9, <1>12

(* What combination() shows is, at any turn of its loop, ascending choices *)
(* of c of the s numbers in lexicographic order, and each of them when the *)
(* loop is left, whatever s is and for every c of at least 2.              *)
THEOREM ChoicesInOrderHolds == CombSpec => []ChoicesInOrder
<1>1. CombInv => ChoicesInOrder
  <2> SUFFICES ASSUME CombInv PROVE ChoicesInOrder
    OBVIOUS
  <2>1. CASE combining = "no"
    BY <2>1 DEF CombInv, PlacesInv, ChoicesInOrder, ShownInOrder, ShownAtTheEnd
  <2>2. CASE combining # "no"
    <3>1. PlacesInv /\ shown \in Seq(Selections) BY <2>2 DEF CombInv, ShownInv
    <3>2. \A n \in DOMAIN shown : shown[n] \in Selections BY <3>1
    <3>3. \A n \in DOMAIN shown : Ascending(shown[n]) BY <3>2 DEF Selections
    <3>4. \A n \in 2 .. Len(shown) : Earlier(shown[n - 1], shown[n])
      BY <2>2 DEF CombInv, ShownInv
    <3>5. ASSUME combining = "done" PROVE {NumbersOf(shown[n]) : n \in DOMAIN shown} = AllChoices
      <4>1. \A n \in DOMAIN shown : NumbersOf(shown[n]) \in AllChoices
        BY <2>2, <3>1, <3>2, NumbersOfChoice
      <4>2. \A q \in Selections : \E n \in DOMAIN shown : shown[n] = q
        BY <2>2, <3>5 DEF CombInv, ShownInv
      <4>3. ASSUME NEW S \in AllChoices PROVE \E n \in DOMAIN shown : NumbersOf(shown[n]) = S
        <5>1. PICK q \in Selections : NumbersOf(q) = S BY <2>2, <3>1, ChoiceOfNumbers
        <5> QED BY <4>2, <5>1
      <4> QED BY <4>1, <4>3
    <3> QED BY <3>3, <3>4, <3>5 DEF ChoicesInOrder, ShownInOrder, ShownAtTheEnd
  <2> QED BY <2>1, <2>2
<1> QED BY <1>1, CombInvHolds, PTL

-----------------------------------------------------------------------------
(* OssClient: the inductive invariant.                                     *)

(* Where the listing is: what is listed was there, and what has been there *)
(* all along is listed up to the marker.                                   *)
ListingInv ==
    /\ IsFiniteSet(listable) /\ throughout \subseteq listable /\ listable \subseteq ever
    /\ step = "page" =>
          /\ \A r \in ToSet(sub_file_list) : r <= marker
          /\ \A r \in throughout : r <= marker => r \in ToSet(sub_file_list)

(* Which call is where, and what the HEAD has answered is still so when    *)
(* the directory is put.                                                   *)
AnsweredInv ==
    /\ step = "page" => call = "list"
    /\ step = "head" => call = "create"
    /\ step = "put" => call \in {"create", "upload"}
    /\ step = "put" /\ call = "create" /\ ~ keptBack => object = "absent"

OssInv == ListsWhatIsThere /\ ListingInv /\ AnsweredInv

(* What is listed of a page: each rank once, as a sequence.                *)
LEMMA InOrderIs ==
    ASSUME NEW T \in SUBSET Ranks, IsFiniteSet(T)
    PROVE  /\ InOrder(T) \in Seq(Ranks)
           /\ IsInjective(InOrder(T)) /\ ToSet(InOrder(T)) = T
<1> DEFINE n == Cardinality(T)
           Fits(s) == \A i, j \in DOMAIN s : i < j => s[i] < s[j]
<1>0. n \in Nat /\ T \subseteq Int BY OssAssumption, FS_CardinalityType
<1>1. \E s \in [1 .. n -> T] : Fits(s)
  <2>1. PICK s \in [1 .. n -> T] : \A i, j \in 1 .. n : i < j => s[i] < s[j] BY <1>0, CountedOff
  <2> QED BY <2>1
<1>2. InOrder(T) = CHOOSE s \in [1 .. n -> T] : Fits(s) BY DEF InOrder
<1> HIDE DEF Fits
<1>3. InOrder(T) \in [1 .. n -> T] /\ Fits(InOrder(T)) BY <1>1, <1>2
<1>4. PICK s \in [1 .. n -> T] : s = InOrder(T) BY <1>3
<1>5. \A i, j \in 1 .. n : i < j => s[i] < s[j] BY <1>3, <1>4 DEF Fits
<1>6. IsInjective(s) /\ \A x \in T : \E i \in 1 .. n : s[i] = x BY <1>0, <1>5, AscendingOnto
<1>7. ToSet(s) = T BY <1>6 DEF ToSet
<1>8. s \in Seq(Ranks)
  <2> HIDE DEF n
  <2>1. s \in [1 .. n -> Ranks] BY <1>0
  <2> QED BY <1>0, <2>1
<1> QED BY <1>4, <1>6, <1>7, <1>8

(* Two lists without a common member, one after the other.                 *)
LEMMA Joined ==
    \A S : \A s, t \in Seq(S) :
        IsInjective(s) /\ IsInjective(t) /\ ToSet(s) \cap ToSet(t) = {} =>
           /\ s \o t \in Seq(S) /\ IsInjective(s \o t)
           /\ ToSet(s \o t) = ToSet(s) \cup ToSet(t)
<1> TAKE S
<1> TAKE s, t \in Seq(S)
<1> HAVE IsInjective(s) /\ IsInjective(t) /\ ToSet(s) \cap ToSet(t) = {}
<1> DEFINE u == s \o t
<1>0. /\ Len(s) \in Nat /\ Len(t) \in Nat /\ DOMAIN s = 1 .. Len(s) /\ DOMAIN t = 1 .. Len(t)
  OBVIOUS
<1>1. /\ u \in Seq(S) /\ Len(u) = Len(s) + Len(t) /\ DOMAIN u = 1 .. Len(s) + Len(t)
      /\ \A i \in 1 .. Len(s) + Len(t) : u[i] = IF i <= Len(s) THEN s[i] ELSE t[i - Len(s)]
  BY <1>0, ConcatProperties
<1> HIDE DEF u
<1>2. ASSUME NEW i \in DOMAIN u
      PROVE  \/ i \in DOMAIN s /\ u[i] = s[i]
             \/ i - Len(s) \in DOMAIN t /\ u[i] = t[i - Len(s)]
  BY <1>0, <1>1
<1>3. \A i \in DOMAIN s : s[i] \in ToSet(s) BY DEF ToSet
<1>4. \A i \in DOMAIN t : t[i] \in ToSet(t) BY DEF ToSet
<1>5. IsInjective(u)
  <2> SUFFICES ASSUME NEW i \in DOMAIN u, NEW j \in DOMAIN u, u[i] = u[j] PROVE i = j
    BY DEF IsInjective
  <2>1. CASE i \in DOMAIN s /\ u[i] = s[i] /\ j \in DOMAIN s /\ u[j] = s[j]
    BY <2>1 DEF IsInjective
  <2>2. CASE /\ i - Len(s) \in DOMAIN t /\ u[i] = t[i - Len(s)]
             /\ j - Len(s) \in DOMAIN t /\ u[j] = t[j - Len(s)]
    <3>1. i - Len(s) = j - Len(s) BY <2>2 DEF IsInjective
    <3> QED BY <1>0, <1>1, <3>1
  <2>3. ~ (u[i] \in ToSet(s) /\ u[j] \in ToSet(t)) /\ ~ (u[i] \in ToSet(t) /\ u[j] \in ToSet(s))
    OBVIOUS
  <2> QED BY <1>2, <1>3, <1>4, <2>1, <2>2, <2>3
<1>6. ToSet(u) \subseteq ToSet(s) \cup ToSet(t)
  <2>1. \A i \in DOMAIN u : u[i] \in ToSet(s) \cup ToSet(t) BY <1>2, <1>3, <1>4
  <2> QED BY <2>1 DEF ToSet
<1>7. \A i \in DOMAIN s : s[i] \in ToSet(u)
  <2>1. \A i \in DOMAIN s : i \in DOMAIN u /\ u[i] = s[i] BY <1>0, <1>1
  <2> QED BY <2>1 DEF ToSet
<1>8. \A i \in DOMAIN t : t[i] \in ToSet(u)
  <2>1. \A i \in DOMAIN t : i + Len(s) \in DOMAIN u /\ u[i + Len(s)] = t[i] BY <1>0, <1>1
  <2> QED BY <2>1 DEF ToSet
<1>9. ToSet(s) \cup ToSet(t) \subseteq ToSet(u) BY <1>7, <1>8 DEF ToSet
<1> QED BY <1>1, <1>5, <1>6, <1>9 DEF u

(* A page holds the first of what is left, and is empty only if none is.   *)
LEMMA PageIs ==
    ASSUME OssInv
    PROVE  /\ IsFiniteSet(Page) /\ Page \subseteq listable /\ \A r \in Page : r > marker
           /\ IsTruncated => Page # {}
           /\ \A r \in Page, q \in listable : marker < q /\ q < r => q \in Page
<1> DEFINE Between(r) == {q \in listable : marker < q /\ q < r}
<1>0. /\ IsFiniteSet(listable) /\ listable \subseteq Nat /\ marker \in Nat /\ PageSize \in Nat \ {0}
  BY OssAssumption DEF OssInv, ListingInv, ListsWhatIsThere, OssTypeOK
<1>1. Page = {r \in listable : r > marker /\ Cardinality(Between(r)) < PageSize} BY DEF Page
<1>2. \A r \in listable : IsFiniteSet(Between(r)) /\ Cardinality(Between(r)) \in Nat
  <2> SUFFICES ASSUME NEW r \in listable
               PROVE  IsFiniteSet(Between(r)) /\ Cardinality(Between(r)) \in Nat
    OBVIOUS
  <2>1. Between(r) \subseteq listable OBVIOUS
  <2> HIDE DEF Between
  <2> QED BY <1>0, <2>1, FS_Subset, FS_CardinalityType
<1>3. Page \subseteq listable /\ (\A r \in Page : r > marker) BY <1>1
<1>4. IsFiniteSet(Page) BY <1>0, <1>3, FS_Subset
<1>5. ASSUME IsTruncated PROVE Page # {}
  <2> DEFINE Left == {r \in listable : r > marker}
  <2>1. Left # {} /\ Left \in SUBSET Nat BY <1>0, <1>5 DEF IsTruncated
  <2>2. PICK x \in Left : \A y \in Left : x <= y BY <2>1, LeastNumber
  <2>3. Between(x) = {}
    <3> SUFFICES ASSUME NEW q \in listable, marker < q, q < x PROVE FALSE
      OBVIOUS
    <3>1. q \in Left /\ q \in Nat /\ x \in Nat BY <1>0, <2>1
    <3> QED BY <2>2, <3>1
  <2>4. Cardinality(Between(x)) = 0 BY <2>3, FS_EmptySet
  <2>5. x \in Page BY <1>0, <1>1, <2>2, <2>4
  <2> QED BY <2>5
<1>6. ASSUME NEW r \in Page, NEW q \in listable, marker < q, q < r PROVE q \in Page
  <2>1. r \in listable /\ r \in Nat /\ q \in Nat BY <1>0, <1>3
  <2>2. Between(q) \subseteq Between(r)
    <3> SUFFICES ASSUME NEW p \in listable, marker < p, p < q PROVE p < r
      OBVIOUS
    <3>1. p \in Nat BY <1>0
    <3> QED BY <1>6, <2>1, <3>1
  <2>3. Cardinality(Between(r)) < PageSize BY <1>1
  <2> HIDE DEF Between
  <2>4. Cardinality(Between(q)) <= Cardinality(Between(r)) BY <1>2, <2>1, <2>2, FS_Subset
  <2>5. Cardinality(Between(q)) \in Nat /\ Cardinality(Between(r)) \in Nat BY <1>2, <2>1
  <2>6. Cardinality(Between(q)) < PageSize BY <1>0, <2>3, <2>4, <2>5
  <2> QED BY <1>0, <1>1, <1>6, <2>6
<1> QED BY <1>3, <1>4, <1>5, <1>6

(* The greatest of finitely many numbers.                                  *)
LEMMA GreatestIs ==
    ASSUME NEW S \in SUBSET Int, IsFiniteSet(S), S # {}
    PROVE  Max(S) \in S /\ \A x \in S : x <= Max(S)
<1> DEFINE n == Cardinality(S)
<1>1. n \in Nat /\ n # 0 BY FS_CardinalityType, FS_EmptySet
<1>2. PICK s \in [1 .. n -> S] : /\ \A i, j \in 1 .. n : i < j => s[i] < s[j]
                                 /\ \A x \in S : \E i \in 1 .. n : s[i] = x
  BY CountedOff
<1> HIDE DEF n
<1>3. n \in 1 .. n /\ s[n] \in S BY <1>1
<1>4. \A x \in S : x <= s[n]
  <2> SUFFICES ASSUME NEW x \in S PROVE x <= s[n]
    OBVIOUS
  <2>1. PICK i \in 1 .. n : s[i] = x BY <1>2
  <2>2. i = n \/ i < n BY <1>1
  <2>3. s[n] \in Int /\ x \in Int BY <1>3
  <2> QED BY <1>2, <1>3, <2>1, <2>2, <2>3
<1> QED BY <1>3, <1>4 DEF Max

-----------------------------------------------------------------------------
(* A page: what is added was there, is new, and is all up to its last.     *)
LEMMA PageKeeps ==
    ASSUME OssInv, ListPage
    PROVE  OssInv'
<1> DEFINE files == InOrder(Page \cap Files)
           folders == InOrder(Page \cap SubFolders)
<1>0. /\ step = "page" /\ sub_file_list' = sub_file_list \o files \o folders
      /\ IF IsTruncated THEN marker' = Max(Page) /\ UNCHANGED <<step, returned>>
                        ELSE step' = "idle" /\ returned' = "true" /\ UNCHANGED marker
      /\ UNCHANGED <<call, target, object, listable, throughout, ever, keptBack, changes>>
  BY DEF ListPage, Return
<1>1. /\ OssTypeOK /\ IsInjective(sub_file_list) /\ ToSet(sub_file_list) \subseteq ever
      /\ call = "list" /\ returned = "true" => throughout \subseteq ToSet(sub_file_list)
      /\ IsFiniteSet(listable) /\ throughout \subseteq listable /\ listable \subseteq ever
      /\ \A r \in ToSet(sub_file_list) : r <= marker
      /\ \A r \in throughout : r <= marker => r \in ToSet(sub_file_list)
      /\ listable \subseteq Ranks /\ Ranks \subseteq Nat /\ marker \in Nat
      /\ sub_file_list \in Seq(Ranks)
  BY <1>0, OssAssumption DEF OssInv, ListsWhatIsThere, ListingInv, OssTypeOK
<1>2. /\ IsFiniteSet(Page) /\ Page \subseteq listable /\ \A r \in Page : r > marker
      /\ IsTruncated => Page # {}
      /\ \A r \in Page, q \in listable : marker < q /\ q < r => q \in Page
  BY PageIs
<1>3. /\ files \in Seq(Ranks) /\ IsInjective(files) /\ ToSet(files) = Page \cap Files
      /\ folders \in Seq(Ranks) /\ IsInjective(folders) /\ ToSet(folders) = Page \cap SubFolders
  <2>1. /\ Page \cap Files \in SUBSET Ranks /\ Page \cap SubFolders \in SUBSET Ranks
        /\ IsFiniteSet(Page \cap Files) /\ IsFiniteSet(Page \cap SubFolders)
    BY <1>1, <1>2, FS_Subset
  <2> QED BY <2>1, InOrderIs
<1> HIDE DEF files, folders
<1>4. (Page \cap Files) \cup (Page \cap SubFolders) = Page BY <1>1, <1>2 DEF Ranks
<1>5. ToSet(sub_file_list) \cap Page = {}
  <2>1. \A r \in Page : r > marker /\ r \in Nat BY <1>1, <1>2
  <2> QED BY <1>1, <2>1
<1>6. /\ sub_file_list \o files \in Seq(Ranks) /\ IsInjective(sub_file_list \o files)
      /\ ToSet(sub_file_list \o files) = ToSet(sub_file_list) \cup (Page \cap Files)
  <2>1. ToSet(sub_file_list) \cap ToSet(files) = {} BY <1>3, <1>5
  <2> QED BY <1>1, <1>3, <2>1, Joined
<1>7. /\ sub_file_list' \in Seq(Ranks) /\ IsInjective(sub_file_list')
      /\ ToSet(sub_file_list') = ToSet(sub_file_list) \cup Page
  <2>1. ToSet(sub_file_list \o files) \cap ToSet(folders) = {}
    BY <1>3, <1>5, <1>6, OssAssumption
  <2>2. PICK s \in Seq(Ranks) : s = sub_file_list \o files BY <1>6
  <2>4. IsInjective(s) /\ ToSet(s) \cap ToSet(folders) = {} BY <1>6, <2>1, <2>2
  <2>5. folders \in Seq(Ranks) /\ IsInjective(folders) BY <1>3
  <2>3. /\ s \o folders \in Seq(Ranks) /\ IsInjective(s \o folders)
        /\ ToSet(s \o folders) = ToSet(s) \cup ToSet(folders)
    BY <2>4, <2>5, Joined
  <2> QED BY <1>0, <1>3, <1>4, <1>6, <2>2, <2>3
<1>8. ToSet(sub_file_list') \subseteq ever' BY <1>0, <1>1, <1>2, <1>7
<1>9. CASE IsTruncated
  <2>1. /\ marker' = Max(Page) /\ UNCHANGED <<step, returned>> BY <1>0, <1>9
  <2>2. marker' \in Page /\ \A r \in Page : r <= marker'
    BY <1>1, <1>2, <1>9, <2>1, GreatestIs
  <2>3. marker' > marker /\ marker' \in Nat BY <1>1, <1>2, <2>2
  <2>4. \A r \in ToSet(sub_file_list') : r <= marker'
    <3>0. ToSet(sub_file_list) \subseteq Nat BY <1>1 DEF OssTypeOK
    <3>1. ASSUME NEW r \in ToSet(sub_file_list) PROVE r <= marker'
      <4>1. r \in Nat /\ r <= marker BY <1>1, <1>0, <3>0
      <4> QED BY <1>1, <2>3, <4>1
    <3> QED BY <1>7, <2>2, <3>1
  <2>5. ASSUME NEW r \in throughout', r <= marker' PROVE r \in ToSet(sub_file_list')
    <3>1. r \in throughout /\ r \in listable /\ r \in Nat BY <1>0, <1>1
    <3>2. r <= marker \/ r = marker' \/ (marker < r /\ r < marker') BY <1>1, <2>3, <2>5, <3>1
    <3> QED BY <1>1, <1>2, <1>7, <2>2, <3>1, <3>2
  <2>6. OssTypeOK' BY <1>0, <1>1, <1>2, <1>7, <2>1, <2>2 DEF OssTypeOK
  <2>7. ListsWhatIsThere' BY <1>0, <1>1, <1>7, <1>8, <2>1, <2>6 DEF ListsWhatIsThere
  <2>8. ListingInv' BY <1>0, <1>1, <2>4, <2>5 DEF ListingInv
  <2>9. AnsweredInv' BY <1>0, <2>1 DEF OssInv, AnsweredInv
  <2> QED BY <2>7, <2>8, <2>9 DEF OssInv
<1>10. CASE ~ IsTruncated
  <2>1. step' = "idle" /\ returned' = "true" /\ UNCHANGED marker BY <1>0, <1>10
  <2>2. ASSUME NEW r \in throughout PROVE r \in ToSet(sub_file_list')
    <3>1. r \in listable /\ r \in Nat BY <1>1
    <3>2. r > marker => r \in Page BY <1>10, <3>1 DEF IsTruncated
    <3>3. r > marker \/ r <= marker BY <1>1, <3>1
    <3> QED BY <1>1, <1>7, <3>2, <3>3
  <2>3. OssTypeOK' BY <1>0, <1>1, <1>7, <2>1 DEF OssTypeOK
  <2>4. ListsWhatIsThere' BY <1>0, <1>7, <1>8, <2>2, <2>3 DEF ListsWhatIsThere
  <2>5. ListingInv' BY <1>0, <1>1, <2>1 DEF ListingInv
  <2>6. AnsweredInv' BY <1>0, <2>1 DEF AnsweredInv
  <2> QED BY <2>4, <2>5, <2>6 DEF OssInv
<1> QED BY <1>9, <1>10

(* The list is empty as a call begins.                                     *)
LEMMA BeginKeeps ==
    ASSUME OssInv, NEW name \in {"list", "create", "upload"}, NEW first \in {"page", "head", "put"},
           first = "page" => name = "list", first = "head" => name = "create",
           first = "put" => name = "upload",
           Begin(name, first)
    PROVE  OssInv'
<1>1. /\ call' = name /\ target' \in Targets
      /\ step' \in {"idle", first} /\ returned' \in {"none", "false"}
      /\ marker' = 0 /\ sub_file_list' = <<>>
      /\ throughout' = listable /\ ever' = listable /\ keptBack' = FALSE
      /\ UNCHANGED <<object, listable, changes>>
  BY DEF Begin, Return
<1>2. target' \in {"none", "meant", "another"}
  <2>1. ASSUME NEW path \in Paths PROVE Target(path) \in {"none", "meant", "another"}
    BY DEF Target
  <2> QED BY <1>1, <2>1 DEF Targets
<1>3. /\ OssTypeOK /\ IsFiniteSet(listable) /\ listable \subseteq Ranks /\ Ranks \subseteq Nat \ {0}
  BY OssAssumption DEF OssInv, ListsWhatIsThere, ListingInv, OssTypeOK
<1>4. /\ sub_file_list' \in Seq(Ranks) /\ IsInjective(sub_file_list') /\ ToSet(sub_file_list') = {}
  BY <1>1 DEF IsInjective, ToSet
<1>5. OssTypeOK' BY <1>1, <1>2, <1>3, <1>4 DEF OssTypeOK
<1>6. ListsWhatIsThere' BY <1>1, <1>4, <1>5 DEF ListsWhatIsThere
<1>7. \A r \in throughout' : ~ (r <= marker')
  <2>1. \A r \in listable : r \in Nat /\ r # 0 BY <1>3
  <2> QED BY <1>1, <2>1
<1>8. ListingInv' BY <1>1, <1>3, <1>4, <1>7 DEF ListingInv
<1>9. AnsweredInv' BY <1>1 DEF AnsweredInv
<1> QED BY <1>6, <1>8, <1>9 DEF OssInv

(* Every request, every failure of one and every change by others keeps    *)
(* the invariant.                                                          *)
LEMMA OssStep == OssInv /\ [OssNext]_ossVars => OssInv'
<1> SUFFICES ASSUME OssInv, [OssNext]_ossVars PROVE OssInv'
  OBVIOUS
<1>0. ListsWhatIsThere /\ ListingInv /\ AnsweredInv /\ OssTypeOK
  BY DEF OssInv, ListsWhatIsThere
<1>1. CASE Call
  BY <1>1, BeginKeeps DEF Call
<1>2. CASE ListFails
  <2>1. /\ step' = "idle" /\ returned' = "false"
        /\ UNCHANGED <<call, target, object, listable, marker, sub_file_list, throughout, ever,
                       keptBack, changes>>
    BY <1>2 DEF ListFails, Return
  <2>2. OssTypeOK' BY <1>0, <2>1 DEF OssTypeOK
  <2>3. ListsWhatIsThere' BY <1>0, <2>1, <2>2 DEF ListsWhatIsThere
  <2>4. ListingInv' /\ AnsweredInv' BY <1>0, <2>1 DEF ListingInv, AnsweredInv
  <2> QED BY <2>3, <2>4 DEF OssInv
<1>3. CASE HeadDirectory
  <2>1. /\ step = "head"
        /\ \/ step' = "idle" /\ returned' = "true" /\ keptBack' = keptBack
           \/ step' = "put" /\ returned' = returned /\ keptBack' = keptBack /\ object = "absent"
           \/ step' = "put" /\ returned' = returned /\ keptBack' = TRUE
        /\ UNCHANGED <<call, target, object, listable, marker, sub_file_list, throughout, ever,
                       changes>>
    BY <1>3 DEF HeadDirectory, Return
  <2>2. OssTypeOK' BY <1>0, <2>1 DEF OssTypeOK
  <2>3. ListsWhatIsThere'
    BY <1>0, <2>1, <2>2 DEF ListsWhatIsThere, AnsweredInv
  <2>4. ListingInv' /\ AnsweredInv' BY <1>0, <2>1 DEF ListingInv, AnsweredInv
  <2> QED BY <2>3, <2>4 DEF OssInv
<1>4. CASE PutObject
  <2>1. /\ step = "put" /\ object' \in {"empty", "content", object} /\ step' = "idle" /\ returned' \in {"true", "false"}
        /\ UNCHANGED <<call, target, listable, marker, sub_file_list, throughout, ever, keptBack,
                       changes>>
    BY <1>4 DEF PutObject, Return
  <2>2. OssTypeOK' BY <1>0, <2>1 DEF OssTypeOK
  <2>3. ListsWhatIsThere' BY <1>0, <2>1, <2>2 DEF ListsWhatIsThere, AnsweredInv
  <2>4. ListingInv' /\ AnsweredInv' BY <1>0, <2>1 DEF ListingInv, AnsweredInv
  <2> QED BY <2>3, <2>4 DEF OssInv
<1>5. ASSUME NEW r \in Ranks, PutByOther(r) PROVE OssInv'
  <2>1. /\ changes < MaxChanges /\ changes' = changes + 1
        /\ listable' = listable \cup {r} /\ ever' = ever \cup {r}
        /\ UNCHANGED <<call, step, returned, target, object, marker, sub_file_list, throughout,
                       keptBack>>
    BY <1>5 DEF PutByOther, Change
  <2>2. OssTypeOK' BY <1>0, <2>1, OssAssumption DEF OssTypeOK
  <2>3. ListsWhatIsThere' BY <1>0, <2>1, <2>2 DEF ListsWhatIsThere
  <2>4. IsFiniteSet(listable') BY <1>0, <2>1, FS_AddElement DEF ListingInv
  <2>5. ListingInv' /\ AnsweredInv' BY <1>0, <2>1, <2>4 DEF ListingInv, AnsweredInv
  <2> QED BY <2>3, <2>5 DEF OssInv
<1>6. ASSUME NEW r \in Ranks, DeleteByOther(r) PROVE OssInv'
  <2>1. /\ changes < MaxChanges /\ changes' = changes + 1
        /\ listable' = listable \ {r} /\ throughout' = throughout \ {r}
        /\ UNCHANGED <<call, step, returned, target, object, marker, sub_file_list, ever, keptBack>>
    BY <1>6 DEF DeleteByOther, Change
  <2>2. OssTypeOK' BY <1>0, <2>1, OssAssumption DEF OssTypeOK
  <2>3. ListsWhatIsThere' BY <1>0, <2>1, <2>2 DEF ListsWhatIsThere
  <2>4. IsFiniteSet(listable') BY <1>0, <2>1, FS_RemoveElement DEF ListingInv
  <2>5. ListingInv' /\ AnsweredInv' BY <1>0, <2>1, <2>4 DEF ListingInv, AnsweredInv
  <2> QED BY <2>3, <2>5 DEF OssInv
<1>7. CASE ObjectByOther
  <2>1. /\ changes < MaxChanges /\ changes' = changes + 1
        /\ object' \in {"absent", "content"} /\ keptBack' = TRUE
        /\ UNCHANGED <<call, step, returned, target, listable, marker, sub_file_list, throughout,
                       ever>>
    BY <1>7 DEF ObjectByOther, Change
  <2>2. OssTypeOK' BY <1>0, <2>1, OssAssumption DEF OssTypeOK
  <2>3. ListsWhatIsThere' BY <1>0, <2>1, <2>2 DEF ListsWhatIsThere
  <2>4. ListingInv' /\ AnsweredInv' BY <1>0, <2>1 DEF ListingInv, AnsweredInv
  <2> QED BY <2>3, <2>4 DEF OssInv
<1>8. CASE UNCHANGED ossVars
  BY <1>0, <1>8 DEF ossVars, OssInv, ListsWhatIsThere, OssTypeOK, ListingInv, AnsweredInv
<1> QED BY <1>1, <1>2, <1>3, <1>4, <1>5, <1>6, <1>7, <1>8, PageKeeps DEF OssNext

(* Nothing is listed before the first call.                                *)
LEMMA OssStart == OssInit => OssInv
<1> SUFFICES ASSUME OssInit PROVE OssInv
  OBVIOUS
<1>1. /\ sub_file_list \in Seq(Ranks) /\ IsInjective(sub_file_list) /\ ToSet(sub_file_list) = {}
  BY DEF OssInit, IsInjective, ToSet
<1>2. OssTypeOK
  <2>1. 0 \in 0 .. MaxChanges /\ 0 \in Ranks \cup {0} BY OssAssumption
  <2> QED BY <1>1, <2>1 DEF OssInit, OssTypeOK
<1>3. IsFiniteSet(listable) BY FS_EmptySet DEF OssInit
<1> QED BY <1>1, <1>2, <1>3 DEF OssInit, OssInv, ListsWhatIsThere, ListingInv, AnsweredInv

(* The invariant holds in every reachable state.                           *)
LEMMA OssInvHolds == OssSpec => []OssInv
BY OssStart, OssStep, PTL DEF OssSpec

(* A listing that returns true holds each name once, every name that was   *)
(* in the folder from the first page to the last, and none that never was  *)
(* there, whatever others put and delete between the pages and wherever    *)
(* the pages end: for every page size above 0 and every number of names.   *)
THEOREM ListsWhatIsThereHolds == OssSpec => []ListsWhatIsThere
<1>1. OssInv => ListsWhatIsThere BY DEF OssInv
<1> QED BY <1>1, OssInvHolds, PTL

(* oss_create_directory() replaces no object that has content by an empty  *)
(* one, unless its HEAD was not answered or others put the object after it *)
(* was.                                                                    *)
THEOREM EmptiesNothingHolds == OssSpec => [][EmptiesNothing]_ossVars
<1>1. OssInv /\ [OssNext]_ossVars => [EmptiesNothing]_ossVars
  <2> SUFFICES ASSUME OssInv, OssNext PROVE EmptiesNothing
    OBVIOUS
  <2>1. CASE PutObject BY <2>1 DEF PutObject, EmptiesNothing, OssInv, AnsweredInv
  <2>2. CASE object' = object \/ object' \in {"absent", "content"} BY <2>2 DEF EmptiesNothing
  <2>3. PutObject \/ object' = object \/ object' \in {"absent", "content"}
    BY DEF OssNext, Call, Begin, ListPage, ListFails, HeadDirectory, PutByOther, DeleteByOther,
           ObjectByOther
  <2> QED BY <2>1, <2>2, <2>3
<1> QED BY <1>1, OssInvHolds, PTL DEF OssSpec
=============================================================================
