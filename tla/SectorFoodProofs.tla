-------------------------- MODULE SectorFoodProofs --------------------------
(***************************************************************************)
(* Proofs about SectorFood, for every map, every set of positions, players *)
(* and bots, and every amount of food.                                     *)
(***************************************************************************)
EXTENDS SectorFood, SectorGridProofs, FiniteSetTheorems

\* What the lists of a tick hold: a snake is in changes at most once, after it
\* has moved and until it is broadcast, and only then has it something to send.
ListsInv ==
  /\ phase = "idle" => changes = <<>>
  /\ phase # "tick" => todo = {}
  /\ todo \cap Elements(changes) = {}
  /\ Distinct(changes)
  /\ \A s \in Snakes \ Elements(changes) : eaten[s] = <<>> /\ spawn[s] = <<>>

\* A food is in the vector of a snake in w, from the given place in w on; eaten
\* or dropped by one of the snakes that are still to be broadcast.
From(e, w, i, f)  == \E j \in i .. Len(w) : f \in Elements(e[w[j]])
EatenFrom(i, f)   == From(eaten, changes, i, f)
SpawnedFrom(i, f) == From(spawn, changes, i, f)

\* A food that is drawn and gone will be taken off the screen, and one that was
\* dropped and eaten in the same tick was eaten by a snake that moved later, so
\* that it is drawn before it is taken off.
GhostInv ==
  /\ \A i \in 1 .. Len(changes) : \A f \in Elements(spawn[changes[i]]) :
       f \in Lying \/ EatenFrom(i + 1, f)
  /\ \A k \in joined : \A f \in drawn[k] : f \in Lying \/ EatenFrom(1, f)

\* The changes of a view are sent or belong to a snake that is to be broadcast.
ViewInv ==
  /\ alive \cap Players \subseteq joined /\ todo \subseteq alive
  /\ \A k \in Players \ joined : came[k] = {} /\ left[k] = {}
  /\ \A k \in alive \cap Players : left[k] \cap view[k] = {}
  /\ \A k \in (alive \cap Players) \ Elements(changes) : came[k] = {} /\ left[k] = {}

\* Food in view is on the screen, in a sector that is to be sent, or dropped by
\* a snake that is to be broadcast.
Known(k, c, f) == f \in drawn[k] \/ c \in came[k] \/ SpawnedFrom(1, f)

\* Food that lies where some was eaten in this tick has shared its position, or
\* was dropped after that.
TwinInv ==
  /\ Doubled(food) \subseteq twins
  /\ \A j \in 1 .. Len(changes) : \A f \in Elements(eaten[changes[j]]) :
       f \in Lying \ twins => SpawnedFrom(j, f)
  /\ \A k \in joined \cap alive : \A c \in view[k] : \A f \in Elements(food[c]) :
       SectorOf(f) = c /\ f \notin twins => Known(k, c, f)

-----------------------------------------------------------------------------
(* Positions and vectors of food *)

\* A position has whole coordinates and lies in a sector of the map.
LEMMA SpotIs ==
  ASSUME NEW p \in Spots
  PROVE  p[1] \in Int /\ p[2] \in Int /\ SectorOf(p) \in GridSectors
<1>1. Edge \in Nat /\ Edge > 0
  BY EdgeAssumption
<1>2. /\ p[1] \in 0 .. Edge * sector_size - 1
      /\ p[2] \in 0 .. Edge * sector_size - 1
  BY SpotsAssumption
<1>3. ASSUME NEW x \in 0 .. Edge * sector_size - 1 PROVE Cell(x) \in 0 .. Edge - 1
  <2>1. x \in Nat /\ x < 300 * Edge
    BY <1>1, <1>3 DEF sector_size
  <2>2. x \div 300 \in Nat /\ 300 * (x \div 300) <= x
    BY <2>1
  <2>3. x \div 300 < Edge
    BY <1>1, <2>1, <2>2
  <2> QED
    BY <1>1, <2>2, <2>3 DEF Cell, sector_size
<1>4. Cell(p[1]) \in 0 .. Edge - 1 /\ Cell(p[2]) \in 0 .. Edge - 1
  BY <1>2, <1>3
<1>5. SectorOf(p) \in GridSectors
  BY <1>4, IndexInGrid DEF SectorOf
<1>6. p[1] \in Int /\ p[2] \in Int
  BY <1>1, <1>2 DEF sector_size
<1> QED
  BY <1>5, <1>6

\* RemoveAt is vector::erase.
LEMMA RemoveAtIs ==
  ASSUME NEW S, NEW v \in Seq(S), NEW i \in 1 .. Len(v)
  PROVE  /\ RemoveAt(v, i) \in Seq(S) /\ Len(RemoveAt(v, i)) = Len(v) - 1
         /\ \A j \in 1 .. Len(v) - 1 :
              RemoveAt(v, i)[j] = IF j < i THEN v[j] ELSE v[j + 1]
<1> DEFINE a == SubSeq(v, 1, i - 1)
           c == SubSeq(v, i + 1, Len(v))
<1>1. Len(v) \in Nat /\ \A k \in 1 .. Len(v) : v[k] \in S
  BY LenProperties, ElementOfSeq
<1>2. /\ a \in Seq(S) /\ Len(a) = i - 1
      /\ \A k \in 1 .. i - 1 : a[k] = v[k]
  <2>1. \A k \in 1 .. i - 1 : v[k] \in S
    BY <1>1
  <2>2. /\ a \in Seq(S) /\ Len(a) = IF 1 <= i - 1 THEN i - 1 - 1 + 1 ELSE 0
        /\ \A k \in 1 .. i - 1 - 1 + 1 : a[k] = v[1 + k - 1]
    BY <1>1, <2>1, SubSeqProperties
  <2> HIDE DEF a
  <2>3. i - 1 - 1 + 1 = i - 1 /\ \A k \in 1 .. i - 1 : 1 + k - 1 = k
    BY <1>1
  <2> QED
    BY <1>1, <2>2, <2>3
<1>3. /\ c \in Seq(S) /\ Len(c) = Len(v) - i
      /\ \A k \in 1 .. Len(v) - i : c[k] = v[i + k]
  <2>1. \A k \in i + 1 .. Len(v) : v[k] \in S
    BY <1>1
  <2>2. /\ c \in Seq(S)
        /\ Len(c) = IF i + 1 <= Len(v) THEN Len(v) - (i + 1) + 1 ELSE 0
        /\ \A k \in 1 .. Len(v) - (i + 1) + 1 : c[k] = v[(i + 1) + k - 1]
    BY <1>1, <2>1, SubSeqProperties
  <2> HIDE DEF c
  <2>3. Len(v) - (i + 1) + 1 = Len(v) - i
    BY <1>1
  <2>4. Len(c) = Len(v) - i
    BY <1>1, <2>2
  <2>5. ASSUME NEW k \in 1 .. Len(v) - i PROVE c[k] = v[i + k]
    <3>1. (i + 1) + k - 1 = i + k
      BY <1>1
    <3> QED
      BY <2>2, <2>3, <3>1
  <2> QED
    BY <2>2, <2>4, <2>5
<1> HIDE DEF a, c
<1>4. /\ a \o c \in Seq(S) /\ Len(a \o c) = Len(a) + Len(c)
      /\ \A k \in 1 .. Len(a) + Len(c) :
           (a \o c)[k] = IF k <= Len(a) THEN a[k] ELSE c[k - Len(a)]
  BY <1>2, <1>3, ConcatProperties
<1>5. RemoveAt(v, i) = a \o c
  BY DEF RemoveAt, a, c
<1>6. Len(a) + Len(c) = Len(v) - 1
  BY <1>1, <1>2, <1>3
<1>7. ASSUME NEW j \in 1 .. Len(v) - 1
      PROVE  (a \o c)[j] = IF j < i THEN v[j] ELSE v[j + 1]
  <2>1. CASE j < i
    <3>1. j \in 1 .. i - 1 /\ j <= Len(a)
      BY <1>1, <1>2, <2>1
    <3> QED
      BY <1>2, <1>4, <1>6, <2>1, <3>1
  <2>2. CASE ~ (j < i)
    <3>1. /\ ~ (j <= Len(a)) /\ j - Len(a) \in 1 .. Len(v) - i
          /\ i + (j - Len(a)) = j + 1
      BY <1>1, <1>2, <2>2
    <3> QED
      BY <1>3, <1>4, <1>6, <2>2, <3>1
  <2> QED
    BY <2>1, <2>2
<1> QED
  BY <1>4, <1>5, <1>6, <1>7

\* How often a food is in a vector.
LEMMA TimesIs ==
  ASSUME NEW S, NEW v \in Seq(S), NEW f
  PROVE  /\ Times(v, f) \in Nat
         /\ Times(v, f) > 0 <=> f \in Elements(v)
<1> DEFINE A == {i \in 1 .. Len(v) : v[i] = f}
<1>1. Len(v) \in Nat
  BY LenProperties
<1>2. IsFiniteSet(1 .. Len(v))
  BY <1>1, FS_Interval
<1>3. IsFiniteSet(A)
  BY <1>2, FS_Subset
<1>4. Cardinality(A) \in Nat
  BY <1>3, FS_CardinalityType
<1>5. Cardinality(A) = 0 <=> A = {}
  BY <1>3, FS_EmptySet
<1>6. A # {} <=> f \in Elements(v)
  BY DEF Elements
<1>7. Times(v, f) = Cardinality(A)
  BY DEF Times
<1> HIDE DEF A
<1> QED
  BY <1>4, <1>5, <1>6, <1>7

LEMMA TimesEmpty ==
  ASSUME NEW f
  PROVE  Times(<<>>, f) = 0
<1>1. {i \in 1 .. Len(<<>>) : <<>>[i] = f} = {}
  OBVIOUS
<1> QED
  BY <1>1, FS_EmptySet DEF Times

\* A food that is appended is there once more.
LEMMA TimesAppend ==
  ASSUME NEW S, NEW v \in Seq(S), NEW e \in S, NEW f
  PROVE  Times(Append(v, e), f) = Times(v, f) + IF e = f THEN 1 ELSE 0
<1> DEFINE n == Len(v)
           w == Append(v, e)
           A == {i \in 1 .. n : v[i] = f}
           B == {i \in 1 .. n + 1 : w[i] = f}
<1>1. n \in Nat
  BY LenProperties
<1>2. /\ Len(w) = n + 1 /\ w[n + 1] = e
      /\ \A i \in 1 .. n : w[i] = v[i]
  BY AppendProperties
<1>3. Times(v, f) = Cardinality(A) /\ Times(w, f) = Cardinality(B)
  BY <1>2 DEF Times
<1> HIDE DEF w
<1>4. IsFiniteSet(1 .. n)
  BY <1>1, FS_Interval
<1>5. IsFiniteSet(A)
  BY <1>4, FS_Subset
<1>6. Cardinality(A) \in Nat
  BY <1>5, FS_CardinalityType
<1>7. n + 1 \notin A
  BY <1>1
<1>8. B = IF e = f THEN A \cup {n + 1} ELSE A
  <2>1. \A i : i \in 1 .. n + 1 <=> i \in 1 .. n \/ i = n + 1
    BY <1>1
  <2>2. \A i \in 1 .. n : i # n + 1
    BY <1>1
  <2> QED
    BY <1>2, <2>1, <2>2
<1> HIDE DEF A, B, n
<1>9. Cardinality(A \cup {n + 1}) = Cardinality(A) + 1
  BY <1>5, <1>7, FS_AddElement
<1> QED
  BY <1>3, <1>6, <1>8, <1>9 DEF w

\* The food that is taken out is there once less.
LEMMA TimesRemoveAt ==
  ASSUME NEW S, NEW v \in Seq(S), NEW i \in 1 .. Len(v), NEW f
  PROVE  Times(v, f) = Times(RemoveAt(v, i), f) + IF v[i] = f THEN 1 ELSE 0
<1> DEFINE n == Len(v)
           w == RemoveAt(v, i)
           A == {j \in 1 .. n : v[j] = f}
           B == {j \in 1 .. n - 1 : w[j] = f}
           C == A \ {i}
           g == [j \in B |-> IF j < i THEN j ELSE j + 1]
<1>1. n \in Nat /\ i \in 1 .. n
  BY LenProperties
<1>2. /\ Len(w) = n - 1
      /\ \A j \in 1 .. n - 1 : w[j] = IF j < i THEN v[j] ELSE v[j + 1]
  BY RemoveAtIs
<1>3. Times(v, f) = Cardinality(A) /\ Times(w, f) = Cardinality(B)
  BY <1>2 DEF Times
<1> HIDE DEF w, n
<1>4. IsFiniteSet(A) /\ IsFiniteSet(B)
  <2>1. IsFiniteSet(1 .. n) /\ IsFiniteSet(1 .. n - 1)
    BY <1>1, FS_Interval
  <2> QED
    BY <2>1, FS_Subset
<1>5. Cardinality(A) \in Nat /\ Cardinality(B) \in Nat
  BY <1>4, FS_CardinalityType
<1>6. ExistsBijection(B, C)
  <2>1. g \in [B -> C]
    <3> SUFFICES ASSUME NEW j \in B PROVE (IF j < i THEN j ELSE j + 1) \in C
      OBVIOUS
    <3>1. CASE j < i
      <4>1. j \in 1 .. n /\ j # i /\ j \in 1 .. n - 1 /\ w[j] = f
        BY <1>1, <3>1
      <4> QED
        BY <1>2, <3>1, <4>1
    <3>2. CASE ~ (j < i)
      <4>1. j + 1 \in 1 .. n /\ j + 1 # i /\ j \in 1 .. n - 1 /\ w[j] = f
        BY <1>1, <3>2
      <4> QED
        BY <1>2, <3>2, <4>1
    <3> QED
      BY <3>1, <3>2
  <2>2. ASSUME NEW j \in B, NEW k \in B, g[j] = g[k] PROVE j = k
    <3>1. j \in Int /\ k \in Int /\ i \in Int
      BY <1>1
    <3>2. g[j] = (IF j < i THEN j ELSE j + 1) /\ g[k] = (IF k < i THEN k ELSE k + 1)
      OBVIOUS
    <3>3. (IF j < i THEN j ELSE j + 1) = (IF k < i THEN k ELSE k + 1)
      BY <2>2, <3>2
    <3> HIDE DEF g, B
    <3> QED
      BY <3>1, <3>3
  <2>3. ASSUME NEW k \in C PROVE \E j \in B : g[j] = k
    <3>1. k \in 1 .. n /\ k # i /\ v[k] = f
      OBVIOUS
    <3>2. CASE k < i
      <4>1. k \in 1 .. n - 1
        BY <1>1, <3>1, <3>2
      <4>2. k \in B
        BY <1>2, <3>1, <3>2, <4>1
      <4> QED
        BY <3>2, <4>2
    <3>3. CASE k > i
      <4>1. k - 1 \in 1 .. n - 1 /\ ~ (k - 1 < i) /\ (k - 1) + 1 = k
        BY <1>1, <3>1, <3>3
      <4>2. k - 1 \in B
        BY <1>2, <3>1, <4>1
      <4> QED
        BY <4>1, <4>2
    <3> QED
      BY <1>1, <3>1, <3>2, <3>3
  <2> HIDE DEF B, C, g
  <2>4. g \in Bijection(B, C)
    BY <2>1, <2>2, <2>3 DEF Bijection, Injection, Surjection, IsInjective
  <2> QED
    BY <2>4 DEF ExistsBijection
<1> HIDE DEF A, B
<1>7. Cardinality(C) = Cardinality(B)
  BY <1>4, <1>6, FS_Bijection
<1>8. Cardinality(C) = IF i \in A THEN Cardinality(A) - 1 ELSE Cardinality(A)
  BY <1>4, FS_RemoveElement
<1>9. i \in A <=> v[i] = f
  BY <1>1 DEF A
<1> HIDE DEF C
<1> QED
  BY <1>3, <1>5, <1>7, <1>8, <1>9 DEF w

-----------------------------------------------------------------------------
(* Insert and FindClosestFood *)

\* The vector of a sector is in the order of x.
InOrder(v) == \A i \in 1 .. Len(v) - 1 : v[i][1] <= v[i + 1][1]

\* FindClosestFood stays in the vector, and finds the place of x in one that is
\* in order.
LEMMA FindClosestFoodIs ==
  ASSUME NEW v \in Seq(Spots), NEW x \in Int
  PROVE  /\ FindClosestFood(v, x) \in 0 .. Len(v)
         /\ InOrder(v) => /\ \A i \in 1 .. FindClosestFood(v, x) : v[i][1] < x
                          /\ \A i \in FindClosestFood(v, x) + 1 .. Len(v) : x <= v[i][1]
<1> DEFINE n == Len(v)
           u == [i \in 1 .. n |-> v[i][1]]
           b == LowerBound(u, x)
<1>1. n \in Nat /\ \A i \in 1 .. n : v[i] \in Spots
  BY LenProperties, ElementOfSeq
<1>2. \A i \in 1 .. n : v[i][1] \in Int
  BY <1>1, SpotIs
<1>3. FindClosestFood(v, x) = b
  BY DEF FindClosestFood
<1> HIDE DEF n
<1>4. u \in Seq(Int) /\ Len(u) = n
  BY <1>1, <1>2
<1>5. \A i \in 1 .. n : u[i] = v[i][1]
  OBVIOUS
<1> HIDE DEF u
<1>6. /\ b \in 0 .. n
      /\ Rising(u) => /\ \A i \in 1 .. b : u[i] < x
                      /\ \A i \in b + 1 .. n : x <= u[i]
  BY <1>4, LowerBoundIs
<1> HIDE DEF b
<1>7. ASSUME InOrder(v) PROVE Rising(u)
  <2> SUFFICES ASSUME NEW i \in 1 .. n - 1 PROVE u[i] <= u[i + 1]
    BY <1>4 DEF Rising
  <2>1. i \in 1 .. n /\ i + 1 \in 1 .. n
    BY <1>1
  <2>2. v[i][1] <= v[i + 1][1]
    BY <1>7 DEF InOrder, n
  <2> QED
    BY <1>5, <2>1, <2>2
<1>8. /\ \A i \in 1 .. b : i \in 1 .. n
      /\ \A i \in b + 1 .. n : i \in 1 .. n
  BY <1>1, <1>6
<1> QED
  BY <1>3, <1>5, <1>6, <1>7, <1>8 DEF n

\* Sector::Insert puts a food in and keeps the order.
LEMMA InsertFoodIs ==
  ASSUME NEW v \in Seq(Spots), NEW f \in Spots
  PROVE  /\ InsertFood(v, f) \in Seq(Spots)
         /\ Elements(InsertFood(v, f)) = Elements(v) \cup {f}
         /\ InOrder(v) => InOrder(InsertFood(v, f))
<1> DEFINE b == FindClosestFood(v, f[1])
           n == Len(v)
           w == InsertFood(v, f)
<1>1. n \in Nat /\ \A i \in 1 .. n : v[i] \in Spots
  BY LenProperties, ElementOfSeq
<1>2. f[1] \in Int /\ \A i \in 1 .. n : v[i][1] \in Int
  BY <1>1, SpotIs
<1>3. /\ b \in 0 .. n
      /\ InOrder(v) => /\ \A i \in 1 .. b : v[i][1] < f[1]
                       /\ \A i \in b + 1 .. n : f[1] <= v[i][1]
  BY <1>2, FindClosestFoodIs
<1>4. w = InsertAt(v, b + 1, f)
  BY DEF InsertFood
<1> HIDE DEF b, w
<1>5. b + 1 \in 1 .. n + 1
  BY <1>1, <1>3
<1>6. /\ w \in Seq(Spots) /\ Len(w) = n + 1
      /\ \A j \in 1 .. n + 1 : w[j] = IF j < b + 1 THEN v[j]
                                      ELSE IF j = b + 1 THEN f ELSE v[j - 1]
  <2>1. w \in Seq(Spots) /\ Inserted(w, v, b + 1, f)
    BY <1>4, <1>5, InsertAtIs
  <2> QED
    BY <2>1 DEF Inserted
<1>7. Elements(w) = Elements(v) \cup {f}
  BY <1>4, <1>5, InsertAtElements
<1>8. ASSUME InOrder(v) PROVE InOrder(w)
  <2>1. /\ \A i \in 1 .. b : v[i][1] < f[1]
        /\ \A i \in b + 1 .. n : f[1] <= v[i][1]
        /\ \A i \in 1 .. n - 1 : v[i][1] <= v[i + 1][1]
    BY <1>3, <1>8 DEF InOrder
  <2> SUFFICES ASSUME NEW j \in 1 .. n PROVE w[j][1] <= w[j + 1][1]
    BY <1>1, <1>6 DEF InOrder
  <2>2. j \in 1 .. n + 1 /\ j + 1 \in 1 .. n + 1 /\ (j + 1) - 1 = j
    BY <1>1
  <2>3. CASE j < b
    <3>1. j \in 1 .. n - 1 /\ j < b + 1 /\ j + 1 < b + 1
      BY <1>1, <1>3, <2>3
    <3>2. w[j] = v[j] /\ w[j + 1] = v[j + 1]
      BY <1>6, <2>2, <3>1
    <3> QED
      BY <2>1, <3>1, <3>2
  <2>4. CASE j = b
    <3>1. j \in 1 .. b /\ j < b + 1 /\ j + 1 = b + 1 /\ ~ (j + 1 < b + 1)
      BY <1>1, <1>3, <2>4
    <3>2. w[j] = v[j] /\ w[j + 1] = f
      BY <1>6, <2>2, <3>1
    <3>3. v[j][1] < f[1]
      BY <2>1, <3>1
    <3> QED
      BY <1>2, <3>2, <3>3
  <2>5. CASE j = b + 1
    <3>1. j \in b + 1 .. n /\ ~ (j < b + 1) /\ ~ (j + 1 < b + 1) /\ j + 1 # b + 1
      BY <1>1, <1>3, <2>5
    <3>2. w[j] = f /\ w[j + 1] = v[j]
      BY <1>6, <2>2, <2>5, <3>1
    <3> QED
      BY <2>1, <3>1, <3>2
  <2>6. CASE j > b + 1
    <3>1. /\ ~ (j < b + 1) /\ j # b + 1 /\ ~ (j + 1 < b + 1) /\ j + 1 # b + 1
          /\ j - 1 \in 1 .. n - 1 /\ (j - 1) + 1 = j
      BY <1>1, <1>3, <2>6
    <3>2. w[j] = v[j - 1] /\ w[j + 1] = v[j]
      BY <1>6, <2>2, <3>1
    <3> QED
      BY <2>1, <3>1, <3>2
  <2>7. j < b \/ j = b \/ j = b + 1 \/ j > b + 1
    BY <1>1, <1>3
  <2> QED
    BY <2>3, <2>4, <2>5, <2>6, <2>7
<1> QED
  BY <1>6, <1>7, <1>8 DEF w

\* The loops that insert one food after another.
LEMMA InsertAllIs ==
  ASSUME NEW v \in Seq(Spots), NEW fs \in Seq(Spots)
  PROVE  /\ InsertAll(v, fs) \in Seq(Spots)
         /\ Elements(InsertAll(v, fs)) = Elements(v) \cup Elements(fs)
         /\ InOrder(v) => InOrder(InsertAll(v, fs))
<1> DEFINE N == Len(fs)
           S == Seq(Spots)
           loop[k \in 0 .. N] == IF k = 0 THEN v ELSE InsertFood(loop[k - 1], fs[k])
           g == [k \in 1 .. N |-> [w \in S |-> InsertFood(w, fs[k])]]
<1>1. N \in Nat /\ \A k \in 1 .. N : fs[k] \in Spots
  BY LenProperties, ElementOfSeq
<1>2. InsertAll(v, fs) = loop[N]
  BY DEF InsertAll
<1>3. Elements(fs) = {fs[j] : j \in 1 .. N}
  BY DEF Elements
<1> HIDE DEF N
<1>4. g \in [1 .. N -> [S -> S]]
  BY <1>1, InsertFoodIs
<1>5. v \in S
  OBVIOUS
<1> HIDE DEF S, g
<1>6. PICK f : IsLoop(f, N, S, v, g)
  BY <1>1, <1>4, <1>5, LoopExists
<1>7. /\ f \in [0 .. N -> S] /\ f[0] = v
      /\ \A k \in 1 .. N : f[k] = g[k][f[k - 1]]
  BY <1>6 DEF IsLoop
<1>8. ASSUME NEW k \in 1 .. N PROVE f[k] = InsertFood(f[k - 1], fs[k])
  <2>1. f[k - 1] \in S
    BY <1>1, <1>7
  <2> QED
    BY <1>7, <2>1 DEF g
<1>9. \E h : h = [k \in 0 .. N |-> IF k = 0 THEN v ELSE InsertFood(h[k - 1], fs[k])]
  <2>1. f = [k \in 0 .. N |-> IF k = 0 THEN v ELSE InsertFood(f[k - 1], fs[k])]
    BY <1>1, <1>7, <1>8
  <2> QED
    BY <2>1
<1>10. loop = [k \in 0 .. N |-> IF k = 0 THEN v ELSE InsertFood(loop[k - 1], fs[k])]
  BY <1>9
<1> HIDE DEF loop
<1>11. loop[0] = v /\ \A k \in 1 .. N : loop[k] = InsertFood(loop[k - 1], fs[k])
  BY <1>1, <1>10
<1> DEFINE Good == [k \in 0 .. N |->
                      {w \in Seq(Spots) :
                         /\ Elements(w) = Elements(v) \cup {fs[j] : j \in 1 .. k}
                         /\ InOrder(v) => InOrder(w)}]
<1>12. loop[0] \in Good[0]
  <2>1. {fs[j] : j \in 1 .. 0} = {}
    OBVIOUS
  <2> QED
    BY <1>1, <1>11, <2>1
<1>13. ASSUME NEW k \in 1 .. N, loop[k - 1] \in Good[k - 1]
       PROVE  loop[k] \in Good[k]
  <2> DEFINE w == loop[k - 1]
             u == loop[k]
  <2>1. k - 1 \in 0 .. N /\ k \in 0 .. N /\ fs[k] \in Spots
    BY <1>1
  <2>2. /\ w \in Seq(Spots) /\ Elements(w) = Elements(v) \cup {fs[j] : j \in 1 .. k - 1}
        /\ InOrder(v) => InOrder(w)
    BY <1>13, <2>1
  <2>3. u = InsertFood(w, fs[k])
    BY <1>11
  <2> HIDE DEF w, u
  <2>4. /\ u \in Seq(Spots) /\ Elements(u) = Elements(w) \cup {fs[k]}
        /\ InOrder(w) => InOrder(u)
    BY <2>1, <2>2, <2>3, InsertFoodIs
  <2>5. Elements(u) = Elements(v) \cup {fs[j] : j \in 1 .. k}
    <3>1. \A j : j \in 1 .. k <=> j \in 1 .. k - 1 \/ j = k
      BY <1>1, <2>1
    <3>2. {fs[j] : j \in 1 .. k} = {fs[j] : j \in 1 .. k - 1} \cup {fs[k]}
      BY <3>1
    <3> QED
      BY <2>2, <2>4, <3>2
  <2> QED
    BY <2>1, <2>2, <2>4, <2>5 DEF u
<1> HIDE DEF Good
<1>14. \A k \in 0 .. N : loop[k] \in Good[k]
  BY <1>1, <1>12, <1>13, LoopInvariant
<1>15. loop[N] \in Good[N] /\ N \in 0 .. N
  BY <1>1, <1>14
<1>16. /\ loop[N] \in Seq(Spots)
       /\ Elements(loop[N]) = Elements(v) \cup {fs[j] : j \in 1 .. N}
       /\ InOrder(v) => InOrder(loop[N])
  BY <1>15 DEF Good
<1> QED
  BY <1>2, <1>3, <1>16

-----------------------------------------------------------------------------
(* UpdateEatenFood *)

\* The state of the scan around a head at h of a list that was v.
Scan == {r \in [list : Seq(Spots), i : Nat, got : Seq(Spots)] : r.i <= Len(r.list)}

\* What is left of the head comes before position i, what is right of it behind;
\* every food of v is in the list or has been taken, and what has been taken was
\* in reach.
Scanned(r, v, h) ==
  /\ r \in Scan /\ InOrder(r.list)
  /\ \A j \in 1 .. r.i : r.list[j][1] < h[1]
  /\ \A j \in r.i + 1 .. Len(r.list) : h[1] <= r.list[j][1]
  /\ \A f \in Spots : Times(v, f) = Times(r.list, f) + Times(r.got, f)
  /\ \A j \in 1 .. Len(r.got) : InReach(r.got[j], h)

StopsLeft(r, h)  == r.i > 0 => ~InReach(r.list[r.i], h)
StopsRight(r, h) == r.i < Len(r.list) => ~InReach(r.list[r.i + 1], h)

\* A food next to the position is taken, and the position stays where the head
\* is.
Taken(r, i) == [list |-> RemoveAt(r.list, i),
                i    |-> IF i = r.i THEN r.i - 1 ELSE r.i,
                got  |-> Append(r.got, r.list[i])]

LEMMA TakenIs ==
  ASSUME NEW r \in Scan, NEW v, NEW h \in Spots, NEW i \in 1 .. Len(r.list),
         i = r.i \/ i = r.i + 1
  PROVE  /\ Taken(r, i) \in Scan /\ Len(Taken(r, i).list) = Len(r.list) - 1
         /\ \A j \in 1 .. Len(r.list) - 1 :
              Taken(r, i).list[j] = IF j < i THEN r.list[j] ELSE r.list[j + 1]
         /\ Scanned(r, v, h) /\ InReach(r.list[i], h) => Scanned(Taken(r, i), v, h)
<1> DEFINE t == Taken(r, i)
           l == r.list
           n == Len(l)
           w == RemoveAt(l, i)
           a == r.i
           b == IF i = r.i THEN r.i - 1 ELSE r.i
           q == r.got
           m == Len(q)
           p == Append(q, l[i])
<1>1. /\ l \in Seq(Spots) /\ q \in Seq(Spots) /\ a \in Nat /\ a <= n
      /\ n \in Nat /\ m \in Nat /\ i \in 1 .. n
  BY LenProperties DEF Scan
<1>2. t.list = w /\ t.i = b /\ t.got = p
  BY DEF Taken
<1>3. \A j \in 1 .. n : l[j] \in Spots /\ l[j][1] \in Int
  BY <1>1, ElementOfSeq, SpotIs
<1>4. /\ w \in Seq(Spots) /\ Len(w) = n - 1
      /\ \A j \in 1 .. n - 1 : w[j] = IF j < i THEN l[j] ELSE l[j + 1]
  BY <1>1, RemoveAtIs
<1>5. /\ p \in Seq(Spots) /\ Len(p) = m + 1 /\ p[m + 1] = l[i]
      /\ \A j \in 1 .. m : p[j] = q[j]
  BY <1>1, <1>3, AppendProperties
<1>6. i = a \/ i = a + 1
  OBVIOUS
<1>7. \A f : /\ Times(l, f) = Times(w, f) + IF l[i] = f THEN 1 ELSE 0
             /\ Times(p, f) = Times(q, f) + IF l[i] = f THEN 1 ELSE 0
             /\ Times(w, f) \in Nat /\ Times(q, f) \in Nat
  BY <1>1, <1>3, <1>4, TimesRemoveAt, TimesAppend, TimesIs
<1>8. b = (IF i = a THEN a - 1 ELSE a) /\ t \in [list : {w}, i : {b}, got : {p}]
  BY DEF Taken
<1>9. b \in Nat /\ b <= n - 1
  BY <1>1, <1>6, <1>8
<1> HIDE DEF t, w, p, b
<1>10. t \in Scan
  BY <1>1, <1>2, <1>4, <1>5, <1>8, <1>9 DEF Scan
<1>11. ASSUME Scanned(r, v, h), InReach(l[i], h) PROVE Scanned(t, v, h)
  <2>1. /\ \A j \in 1 .. n - 1 : l[j][1] <= l[j + 1][1]
        /\ \A j \in 1 .. a : l[j][1] < h[1]
        /\ \A j \in a + 1 .. n : h[1] <= l[j][1]
        /\ \A f \in Spots : Times(v, f) = Times(l, f) + Times(q, f)
        /\ \A j \in 1 .. m : InReach(q[j], h)
    BY <1>11 DEF Scanned, InOrder
  <2>2. ASSUME NEW j \in 1 .. (n - 1) - 1 PROVE w[j][1] <= w[j + 1][1]
    <3>1. j \in 1 .. n - 1 /\ j + 1 \in 1 .. n - 1
      BY <1>1
    <3>2. CASE j + 1 < i
      <4>0. j < i
        BY <1>1, <3>1, <3>2
      <4>1. w[j] = l[j] /\ w[j + 1] = l[j + 1]
        BY <1>4, <3>1, <3>2, <4>0
      <4> QED
        BY <2>1, <3>1, <4>1
    <3>3. CASE j + 1 = i
      <4>0. j < i /\ ~ (j + 1 < i)
        BY <1>1, <3>1, <3>3
      <4>1. w[j] = l[j] /\ w[j + 1] = l[(j + 1) + 1]
        BY <1>4, <3>1, <4>0
      <4>2. l[j][1] <= l[j + 1][1] /\ l[j + 1][1] <= l[(j + 1) + 1][1]
        BY <2>1, <3>1
      <4>3. l[j][1] \in Int /\ l[j + 1][1] \in Int /\ l[(j + 1) + 1][1] \in Int
        BY <1>1, <1>3, <3>1
      <4> QED
        BY <4>1, <4>2, <4>3
    <3>4. CASE j + 1 > i
      <4>0. ~ (j < i) /\ ~ (j + 1 < i)
        BY <1>1, <3>1, <3>4
      <4>1. w[j] = l[j + 1] /\ w[j + 1] = l[(j + 1) + 1]
        BY <1>4, <3>1, <4>0
      <4> QED
        BY <2>1, <3>1, <4>1
    <3> QED
      BY <1>1, <3>2, <3>3, <3>4
  <2>3. ASSUME NEW j \in 1 .. b PROVE w[j][1] < h[1]
    <3>1. j \in 1 .. a /\ j \in 1 .. n - 1 /\ j < i
      BY <1>1, <1>6, <1>8, <1>9
    <3> QED
      BY <1>4, <2>1, <3>1
  <2>4. ASSUME NEW j \in b + 1 .. n - 1 PROVE h[1] <= w[j][1]
    <3>1. j \in 1 .. n - 1 /\ ~ (j < i) /\ j + 1 \in a + 1 .. n
      BY <1>1, <1>6, <1>8, <1>9
    <3> QED
      BY <1>4, <2>1, <3>1
  <2>5. ASSUME NEW f \in Spots PROVE Times(v, f) = Times(w, f) + Times(p, f)
    BY <1>7, <2>1
  <2>6. ASSUME NEW j \in 1 .. m + 1 PROVE InReach(p[j], h)
    <3>1. j \in 1 .. m \/ j = m + 1
      BY <1>1
    <3> QED
      BY <1>5, <1>11, <2>1, <3>1
  <2>7. InOrder(w)
    BY <1>4, <2>2 DEF InOrder
  <2> QED
    BY <1>2, <1>4, <1>5, <1>10, <2>3, <2>4, <2>5, <2>6, <2>7 DEF Scanned
<1> QED
  BY <1>2, <1>4, <1>10, <1>11 DEF t

\* A round to the left keeps the scan right; it stops, or the position moves.
LEMMA EatLeftIs ==
  ASSUME NEW r \in Scan, NEW v, NEW h \in Spots
  PROVE  /\ EatLeft(r, h) \in Scan
         /\ Scanned(r, v, h) => Scanned(EatLeft(r, h), v, h)
         /\ StopsLeft(r, h) => EatLeft(r, h) = r
         /\ ~StopsLeft(r, h) => EatLeft(r, h).i = r.i - 1
<1>1. r.i \in Nat /\ r.i <= Len(r.list) /\ Len(r.list) \in Nat
  BY LenProperties DEF Scan
<1>2. CASE StopsLeft(r, h)
  <2>1. EatLeft(r, h) = r
    BY <1>2 DEF EatLeft, StopsLeft
  <2> QED
    BY <1>2, <2>1
<1>3. CASE ~StopsLeft(r, h)
  <2> DEFINE t == Taken(r, r.i)
  <2>1. r.i > 0 /\ InReach(r.list[r.i], h)
    BY <1>3 DEF StopsLeft
  <2>2. EatLeft(r, h) = t
    BY <2>1 DEF EatLeft, Taken
  <2>3. r.i \in 1 .. Len(r.list)
    BY <1>1, <2>1
  <2>4. t.i = r.i - 1
    BY DEF Taken
  <2>5. t \in Scan /\ (Scanned(r, v, h) => Scanned(t, v, h))
    BY <2>1, <2>3, TakenIs
  <2> QED
    BY <1>3, <2>2, <2>4, <2>5
<1> QED
  BY <1>2, <1>3

\* A round to the right likewise; the list gets shorter, and what stopped the
\* loop to the left is still there.
LEMMA EatRightIs ==
  ASSUME NEW r \in Scan, NEW v, NEW h \in Spots
  PROVE  /\ EatRight(r, h) \in Scan
         /\ Scanned(r, v, h) => Scanned(EatRight(r, h), v, h)
         /\ StopsLeft(r, h) => StopsLeft(EatRight(r, h), h)
         /\ StopsRight(r, h) => EatRight(r, h) = r
         /\ ~StopsRight(r, h) => /\ EatRight(r, h).i = r.i
                                 /\ Len(EatRight(r, h).list) = Len(r.list) - 1
<1>1. r.i \in Nat /\ r.i <= Len(r.list) /\ Len(r.list) \in Nat
  BY LenProperties DEF Scan
<1>2. CASE StopsRight(r, h)
  <2>1. EatRight(r, h) = r
    BY <1>2 DEF EatRight, StopsRight
  <2> QED
    BY <1>2, <2>1
<1>3. CASE ~StopsRight(r, h)
  <2> DEFINE i == r.i + 1
             t == Taken(r, i)
  <2>1. r.i < Len(r.list) /\ InReach(r.list[i], h)
    BY <1>3 DEF StopsRight
  <2>2. i \in 1 .. Len(r.list) /\ i # r.i
    BY <1>1, <2>1
  <2>3. EatRight(r, h) = t
    BY <2>1, <2>2 DEF EatRight, Taken
  <2>4. /\ t \in Scan /\ (Scanned(r, v, h) => Scanned(t, v, h))
        /\ Len(t.list) = Len(r.list) - 1
        /\ \A j \in 1 .. Len(r.list) - 1 :
             t.list[j] = IF j < i THEN r.list[j] ELSE r.list[j + 1]
    BY <2>1, <2>2, TakenIs
  <2>5. t.i = r.i
    BY <2>2 DEF Taken
  <2> HIDE DEF t
  <2>6. ASSUME StopsLeft(r, h) PROVE StopsLeft(t, h)
    <3> SUFFICES ASSUME r.i > 0 PROVE ~InReach(t.list[r.i], h)
      BY <2>5 DEF StopsLeft
    <3>1. r.i \in 1 .. Len(r.list) - 1 /\ r.i < r.i + 1
      BY <1>1, <2>1
    <3>2. t.list[r.i] = r.list[r.i]
      BY <2>4, <3>1
    <3> QED
      BY <2>6, <3>2 DEF StopsLeft
  <2> QED
    BY <1>3, <2>3, <2>4, <2>5, <2>6
<1> QED
  BY <1>2, <1>3

\* The loop to the left ends at a food out of reach or at the beginning.
LEMMA ToLeftIs ==
  ASSUME NEW x \in Scan, NEW v, NEW h \in Spots, Scanned(x, v, h)
  PROVE  /\ ToLeft(x, h) \in Scan /\ Scanned(ToLeft(x, h), v, h)
         /\ StopsLeft(ToLeft(x, h), h)
<1> DEFINE N == Len(x.list)
           S == Scan
           loop[k \in 0 .. N] == IF k = 0 THEN x ELSE EatLeft(loop[k - 1], h)
           g == [k \in 1 .. N |-> [r \in S |-> EatLeft(r, h)]]
<1>1. N \in Nat /\ x.i \in Nat /\ x.i <= N
  BY LenProperties DEF Scan
<1>2. ToLeft(x, h) = loop[N]
  BY DEF ToLeft
<1> HIDE DEF N
<1>3. g \in [1 .. N -> [S -> S]]
  BY EatLeftIs
<1>4. x \in S
  OBVIOUS
<1> HIDE DEF S, g
<1>5. PICK f : IsLoop(f, N, S, x, g)
  BY <1>1, <1>3, <1>4, LoopExists
<1>6. /\ f \in [0 .. N -> S] /\ f[0] = x
      /\ \A k \in 1 .. N : f[k] = g[k][f[k - 1]]
  BY <1>5 DEF IsLoop
<1>7. ASSUME NEW k \in 1 .. N PROVE f[k] = EatLeft(f[k - 1], h)
  <2>1. f[k - 1] \in S
    BY <1>1, <1>6
  <2> QED
    BY <1>6, <2>1 DEF g
<1>8. \E e : e = [k \in 0 .. N |-> IF k = 0 THEN x ELSE EatLeft(e[k - 1], h)]
  <2>1. f = [k \in 0 .. N |-> IF k = 0 THEN x ELSE EatLeft(f[k - 1], h)]
    BY <1>1, <1>6, <1>7
  <2> QED
    BY <2>1
<1>9. loop = [k \in 0 .. N |-> IF k = 0 THEN x ELSE EatLeft(loop[k - 1], h)]
  BY <1>8
<1> HIDE DEF loop
<1>10. loop[0] = x /\ \A k \in 1 .. N : loop[k] = EatLeft(loop[k - 1], h)
  BY <1>1, <1>9
<1> DEFINE Good == [k \in 0 .. N |->
                      {r \in Scan : /\ Scanned(r, v, h)
                                    /\ StopsLeft(r, h) \/ r.i + k <= N}]
<1>11. loop[0] \in Good[0]
  BY <1>1, <1>10
<1>12. ASSUME NEW k \in 1 .. N, loop[k - 1] \in Good[k - 1]
       PROVE  loop[k] \in Good[k]
  <2> DEFINE r == loop[k - 1]
             t == loop[k]
  <2>1. k - 1 \in 0 .. N /\ k \in 0 .. N
    BY <1>1
  <2>2. r \in Scan /\ Scanned(r, v, h) /\ (StopsLeft(r, h) \/ r.i + (k - 1) <= N)
    BY <1>12, <2>1
  <2>3. t = EatLeft(r, h)
    BY <1>10
  <2> HIDE DEF r, t
  <2>4. /\ t \in Scan /\ Scanned(t, v, h)
        /\ StopsLeft(r, h) => t = r
        /\ ~StopsLeft(r, h) => t.i = r.i - 1
    BY <2>2, <2>3, EatLeftIs
  <2>5. StopsLeft(t, h) \/ t.i + k <= N
    <3>1. r.i \in Nat /\ t.i \in Nat
      BY <2>2, <2>4 DEF Scan
    <3>2. CASE StopsLeft(r, h)
      BY <2>4, <3>2
    <3>3. CASE ~StopsLeft(r, h)
      BY <1>1, <2>2, <2>4, <3>1, <3>3
    <3> QED
      BY <3>2, <3>3
  <2> QED
    BY <2>1, <2>4, <2>5 DEF t
<1> HIDE DEF Good
<1>13. \A k \in 0 .. N : loop[k] \in Good[k]
  BY <1>1, <1>11, <1>12, LoopInvariant
<1>14. loop[N] \in Good[N] /\ N \in 0 .. N
  BY <1>1, <1>13
<1> DEFINE z == loop[N]
<1>15. z \in Scan /\ Scanned(z, v, h) /\ (StopsLeft(z, h) \/ z.i + N <= N)
  BY <1>14 DEF Good
<1> HIDE DEF z
<1>16. StopsLeft(z, h)
  <2>1. z.i \in Nat
    BY <1>15 DEF Scan
  <2>2. CASE z.i + N <= N
    BY <1>1, <2>1, <2>2 DEF StopsLeft
  <2> QED
    BY <1>15, <2>2
<1> QED
  BY <1>2, <1>15, <1>16 DEF z

\* The loop to the right ends at a food out of reach or at the end.
LEMMA ToRightIs ==
  ASSUME NEW x \in Scan, NEW v, NEW h \in Spots, Scanned(x, v, h), StopsLeft(x, h)
  PROVE  /\ ToRight(x, h) \in Scan /\ Scanned(ToRight(x, h), v, h)
         /\ StopsLeft(ToRight(x, h), h) /\ StopsRight(ToRight(x, h), h)
<1> DEFINE N == Len(x.list)
           S == Scan
           loop[k \in 0 .. N] == IF k = 0 THEN x ELSE EatRight(loop[k - 1], h)
           g == [k \in 1 .. N |-> [r \in S |-> EatRight(r, h)]]
<1>1. N \in Nat
  BY LenProperties DEF Scan
<1>2. ToRight(x, h) = loop[N]
  BY DEF ToRight
<1>0. Len(x.list) = N
  OBVIOUS
<1> HIDE DEF N
<1>3. g \in [1 .. N -> [S -> S]]
  BY EatRightIs
<1>4. x \in S
  OBVIOUS
<1> HIDE DEF S, g
<1>5. PICK f : IsLoop(f, N, S, x, g)
  BY <1>1, <1>3, <1>4, LoopExists
<1>6. /\ f \in [0 .. N -> S] /\ f[0] = x
      /\ \A k \in 1 .. N : f[k] = g[k][f[k - 1]]
  BY <1>5 DEF IsLoop
<1>7. ASSUME NEW k \in 1 .. N PROVE f[k] = EatRight(f[k - 1], h)
  <2>1. f[k - 1] \in S
    BY <1>1, <1>6
  <2> QED
    BY <1>6, <2>1 DEF g
<1>8. \E e : e = [k \in 0 .. N |-> IF k = 0 THEN x ELSE EatRight(e[k - 1], h)]
  <2>1. f = [k \in 0 .. N |-> IF k = 0 THEN x ELSE EatRight(f[k - 1], h)]
    BY <1>1, <1>6, <1>7
  <2> QED
    BY <2>1
<1>9. loop = [k \in 0 .. N |-> IF k = 0 THEN x ELSE EatRight(loop[k - 1], h)]
  BY <1>8
<1> HIDE DEF loop
<1>10. loop[0] = x /\ \A k \in 1 .. N : loop[k] = EatRight(loop[k - 1], h)
  BY <1>1, <1>9
<1> DEFINE Good == [k \in 0 .. N |->
                      {r \in Scan : /\ Scanned(r, v, h) /\ StopsLeft(r, h)
                                    /\ StopsRight(r, h) \/ Len(r.list) + k <= N}]
<1>11. loop[0] \in Good[0]
  BY <1>0, <1>1, <1>10
<1>12. ASSUME NEW k \in 1 .. N, loop[k - 1] \in Good[k - 1]
       PROVE  loop[k] \in Good[k]
  <2> DEFINE r == loop[k - 1]
             t == loop[k]
  <2>1. k - 1 \in 0 .. N /\ k \in 0 .. N
    BY <1>1
  <2>2. /\ r \in Scan /\ Scanned(r, v, h) /\ StopsLeft(r, h)
        /\ StopsRight(r, h) \/ Len(r.list) + (k - 1) <= N
    BY <1>12, <2>1
  <2>3. t = EatRight(r, h)
    BY <1>10
  <2> HIDE DEF r, t
  <2>4. /\ t \in Scan /\ Scanned(t, v, h) /\ StopsLeft(t, h)
        /\ StopsRight(r, h) => t = r
        /\ ~StopsRight(r, h) => Len(t.list) = Len(r.list) - 1
    BY <2>2, <2>3, EatRightIs
  <2>5. StopsRight(t, h) \/ Len(t.list) + k <= N
    <3>1. Len(r.list) \in Nat /\ Len(t.list) \in Nat
      BY <2>2, <2>4, LenProperties DEF Scan
    <3>2. CASE StopsRight(r, h)
      BY <2>4, <3>2
    <3>3. CASE ~StopsRight(r, h)
      BY <1>1, <2>2, <2>4, <3>1, <3>3
    <3> QED
      BY <3>2, <3>3
  <2> QED
    BY <2>1, <2>4, <2>5 DEF t
<1> HIDE DEF Good
<1>13. \A k \in 0 .. N : loop[k] \in Good[k]
  BY <1>1, <1>11, <1>12, LoopInvariant
<1>14. loop[N] \in Good[N] /\ N \in 0 .. N
  BY <1>1, <1>13
<1> DEFINE z == loop[N]
<1>15. /\ z \in Scan /\ Scanned(z, v, h) /\ StopsLeft(z, h)
       /\ StopsRight(z, h) \/ Len(z.list) + N <= N
  BY <1>14 DEF Good
<1> HIDE DEF z
<1>16. StopsRight(z, h)
  <2>1. z.i \in Nat /\ Len(z.list) \in Nat
    BY <1>15, LenProperties DEF Scan
  <2>2. CASE Len(z.list) + N <= N
    BY <1>1, <2>1, <2>2 DEF StopsRight
  <2> QED
    BY <1>15, <2>2
<1> QED
  BY <1>2, <1>15, <1>16 DEF z

\* UpdateEatenFood, for a list that is in order.
LEMMA UpdateEatenFoodIs ==
  ASSUME NEW v \in Seq(Spots), InOrder(v), NEW h \in Spots
  PROVE  /\ Scanned(UpdateEatenFood(v, h), v, h)
         /\ StopsLeft(UpdateEatenFood(v, h), h) /\ StopsRight(UpdateEatenFood(v, h), h)
<1> DEFINE b == FindClosestFood(v, h[1])
           x == [list |-> v, i |-> b, got |-> <<>>]
           y == ToLeft(x, h)
<1>1. h[1] \in Int /\ Len(v) \in Nat
  BY SpotIs, LenProperties
<1>2. /\ b \in 0 .. Len(v)
      /\ \A i \in 1 .. b : v[i][1] < h[1]
      /\ \A i \in b + 1 .. Len(v) : h[1] <= v[i][1]
  BY <1>1, FindClosestFoodIs
<1>3. UpdateEatenFood(v, h) = ToRight(y, h)
  BY DEF UpdateEatenFood
<1> HIDE DEF b, y
<1>4. x.list = v /\ x.i = b /\ x.got = <<>>
  OBVIOUS
<1>5. x \in Scan
  BY <1>1, <1>2 DEF Scan
<1> HIDE DEF x
<1>6. \A f : Times(v, f) \in Nat /\ Times(<<>>, f) = 0
  BY TimesIs, TimesEmpty
<1>7. \A f \in Spots : Times(v, f) = Times(v, f) + Times(<<>>, f)
  BY <1>6
<1>8. Len(<<>>) = 0 /\ \A j \in 1 .. 0 : FALSE
  OBVIOUS
<1>9. Scanned(x, v, h)
  BY <1>2, <1>4, <1>5, <1>7, <1>8 DEF Scanned
<1>10. y \in Scan /\ Scanned(y, v, h) /\ StopsLeft(y, h)
  BY <1>5, <1>9, ToLeftIs DEF y
<1> QED
  BY <1>3, <1>10, ToRightIs

\* What is eaten was in the list, what was in the list is still there or eaten,
\* and what is both was there twice.
LEMMA EatenIs ==
  ASSUME NEW v \in Seq(Spots), InOrder(v), NEW h \in Spots,
         NEW r, r = UpdateEatenFood(v, h)
  PROVE  /\ r.list \in Seq(Spots) /\ r.got \in Seq(Spots) /\ InOrder(r.list)
         /\ Elements(v) = Elements(r.list) \cup Elements(r.got)
         /\ \A f \in Elements(r.list) \cap Elements(r.got) : Times(v, f) > 1
<1>1. Scanned(r, v, h)
  BY UpdateEatenFoodIs
<1>2. r.list \in Seq(Spots) /\ r.got \in Seq(Spots) /\ InOrder(r.list)
  BY <1>1 DEF Scanned, Scan
<1>3. /\ Elements(v) \subseteq Spots /\ Elements(r.list) \subseteq Spots
      /\ Elements(r.got) \subseteq Spots
  BY <1>2, SeqOfElements
<1>4. \A f \in Spots : /\ Times(v, f) = Times(r.list, f) + Times(r.got, f)
                       /\ Times(v, f) \in Nat
                       /\ Times(r.list, f) \in Nat /\ Times(r.got, f) \in Nat
                       /\ Times(v, f) > 0 <=> f \in Elements(v)
                       /\ Times(r.list, f) > 0 <=> f \in Elements(r.list)
                       /\ Times(r.got, f) > 0 <=> f \in Elements(r.got)
  BY <1>1, <1>2, TimesIs DEF Scanned
<1>5. ASSUME NEW f \in Spots
      PROVE  /\ f \in Elements(v) <=> f \in Elements(r.list) \/ f \in Elements(r.got)
             /\ f \in Elements(r.list) /\ f \in Elements(r.got) => Times(v, f) > 1
  BY <1>4
<1> QED
  BY <1>2, <1>3, <1>5

-----------------------------------------------------------------------------
(* Lists and maps of lists *)

LEMMA ConcatElements ==
  ASSUME NEW S, NEW v \in Seq(S), NEW w \in Seq(S)
  PROVE  v \o w \in Seq(S) /\ Elements(v \o w) = Elements(v) \cup Elements(w)
<1> DEFINE a == Len(v)
           b == Len(w)
           u == v \o w
<1>1. a \in Nat /\ b \in Nat
  BY LenProperties
<1>2. /\ u \in Seq(S) /\ Len(u) = a + b
      /\ \A i \in 1 .. a + b : u[i] = IF i <= a THEN v[i] ELSE w[i - a]
  BY ConcatProperties
<1>3. /\ Elements(u) = {u[i] : i \in 1 .. a + b}
      /\ Elements(v) = {v[i] : i \in 1 .. a} /\ Elements(w) = {w[i] : i \in 1 .. b}
  BY <1>2 DEF Elements
<1> HIDE DEF a, b, u
<1>4. ASSUME NEW i \in 1 .. a + b PROVE u[i] \in Elements(v) \cup Elements(w)
  <2>1. CASE i <= a
    <3>1. i \in 1 .. a /\ u[i] = v[i]
      BY <1>1, <1>2, <2>1
    <3> QED
      BY <1>3, <3>1
  <2>2. CASE ~ (i <= a)
    <3>1. i - a \in 1 .. b /\ u[i] = w[i - a]
      BY <1>1, <1>2, <2>2
    <3> QED
      BY <1>3, <3>1
  <2> QED
    BY <2>1, <2>2
<1>5. ASSUME NEW i \in 1 .. a PROVE v[i] \in Elements(u)
  <2>1. i \in 1 .. a + b /\ i <= a
    BY <1>1
  <2> QED
    BY <1>2, <1>3, <2>1
<1>6. ASSUME NEW i \in 1 .. b PROVE w[i] \in Elements(u)
  <2>1. a + i \in 1 .. a + b /\ ~ (a + i <= a) /\ (a + i) - a = i
    BY <1>1
  <2>2. u[a + i] = w[i]
    BY <1>2, <2>1
  <2> QED
    BY <1>3, <2>1, <2>2
<1>7. Elements(u) \subseteq Elements(v) \cup Elements(w)
  BY <1>3, <1>4
<1>8. Elements(v) \subseteq Elements(u) /\ Elements(w) \subseteq Elements(u)
  BY <1>3, <1>5, <1>6
<1> QED
  BY <1>2, <1>7, <1>8 DEF u

LEMMA AppendIs ==
  ASSUME NEW S, NEW v \in Seq(S), NEW e \in S
  PROVE  /\ Append(v, e) \in Seq(S) /\ Len(Append(v, e)) = Len(v) + 1
         /\ Append(v, e)[Len(v) + 1] = e
         /\ \A i \in 1 .. Len(v) : Append(v, e)[i] = v[i]
         /\ Elements(Append(v, e)) = Elements(v) \cup {e}
<1> DEFINE n == Len(v)
           u == Append(v, e)
<1>1. n \in Nat
  BY LenProperties
<1>2. /\ u \in Seq(S) /\ Len(u) = n + 1 /\ u[n + 1] = e
      /\ \A i \in 1 .. n : u[i] = v[i]
  BY AppendProperties
<1>3. Elements(u) = {u[i] : i \in 1 .. n + 1} /\ Elements(v) = {v[i] : i \in 1 .. n}
  BY <1>2 DEF Elements
<1> HIDE DEF u, n
<1>4. \A i : i \in 1 .. n + 1 <=> i \in 1 .. n \/ i = n + 1
  BY <1>1
<1>5. Elements(u) = Elements(v) \cup {e}
  BY <1>2, <1>3, <1>4
<1> QED
  BY <1>2, <1>5 DEF u, n

LEMMA TailIs ==
  ASSUME NEW S, NEW v \in Seq(S), v # <<>>
  PROVE  /\ Head(v) = v[1] /\ Head(v) \in S /\ Len(v) \in Nat \ {0}
         /\ Tail(v) \in Seq(S) /\ Len(Tail(v)) = Len(v) - 1
         /\ \A i \in 1 .. Len(v) - 1 : Tail(v)[i] = v[i + 1]
         /\ Elements(v) = Elements(Tail(v)) \cup {Head(v)}
<1> DEFINE n == Len(v)
           u == Tail(v)
           a == Head(v)
<1>1. n \in Nat /\ n # 0
  BY LenProperties, EmptySeq
<1>2. /\ a = v[1] /\ a \in S /\ u \in Seq(S) /\ Len(u) = n - 1
      /\ \A i \in 1 .. n - 1 : u[i] = v[i + 1]
  BY HeadTailProperties
<1>3. Elements(u) = {u[i] : i \in 1 .. n - 1} /\ Elements(v) = {v[i] : i \in 1 .. n}
  BY <1>2 DEF Elements
<1> HIDE DEF u, n, a
<1>4. ASSUME NEW i \in 1 .. n PROVE v[i] \in Elements(u) \cup {a}
  <2>1. CASE i = 1
    BY <1>2, <2>1
  <2>2. CASE i # 1
    <3>1. i - 1 \in 1 .. n - 1 /\ (i - 1) + 1 = i
      BY <1>1, <2>2
    <3>2. u[i - 1] = v[i]
      BY <1>2, <3>1
    <3> QED
      BY <1>3, <3>1, <3>2
  <2> QED
    BY <2>1, <2>2
<1>5. ASSUME NEW i \in 1 .. n - 1 PROVE u[i] \in Elements(v)
  <2>1. i + 1 \in 1 .. n
    BY <1>1
  <2> QED
    BY <1>2, <1>3, <2>1
<1>6. a \in Elements(v)
  <2>1. 1 \in 1 .. n
    BY <1>1
  <2> QED
    BY <1>2, <1>3, <2>1
<1>7. Elements(v) = Elements(u) \cup {a}
  BY <1>3, <1>4, <1>5, <1>6
<1> QED
  BY <1>1, <1>2, <1>7 DEF u, n, a

\* The lists of the sectors: their type, and every one in order.
Lists == [GridSectors -> {v \in Seq(Spots) : InOrder(v)}]

LEMMA ListsAre == food \in Lists <=> food \in [GridSectors -> Seq(Foods)] /\ FoodSorted
BY DEF Lists, FoodSorted, InOrder, Foods

\* SpawnFood adds at most the one food, to the list of the sector it lies in.
LEMMA SpawnFoodIs ==
  ASSUME NEW lists \in Lists, NEW fs \in Dropped
  PROVE  /\ fs \in Seq(Spots) /\ SpawnFood(lists, fs) \in Lists
         /\ \A c \in GridSectors :
              /\ Elements(lists[c]) \subseteq Elements(SpawnFood(lists, fs)[c])
              /\ Elements(SpawnFood(lists, fs)[c]) \subseteq Elements(lists[c]) \cup Elements(fs)
         /\ \A f \in Elements(fs) : \E c \in GridSectors :
              f \in Elements(SpawnFood(lists, fs)[c])
<1>1. CASE fs = <<>>
  <2>1. SpawnFood(lists, fs) = lists /\ fs \in Seq(Spots) /\ Elements(fs) = {}
    BY <1>1 DEF SpawnFood, Elements
  <2> QED
    BY <2>1
<1>2. CASE fs # <<>>
  <2>1. PICK p \in Spots : fs = <<p>>
    BY <1>2 DEF Dropped
  <2>2. fs \in Seq(Spots) /\ fs[1] = p /\ Elements(fs) = {p}
    BY <2>1 DEF Elements
  <2> DEFINE c == SectorOf(p)
             l == SpawnFood(lists, fs)
  <2>3. c \in GridSectors
    BY SpotIs
  <2>4. l = [lists EXCEPT ![c] = InsertFood(lists[c], p)]
    BY <1>2, <2>2 DEF SpawnFood
  <2>5. lists[c] \in Seq(Spots) /\ InOrder(lists[c])
    BY <2>3 DEF Lists
  <2>6. /\ InsertFood(lists[c], p) \in Seq(Spots) /\ InOrder(InsertFood(lists[c], p))
        /\ Elements(InsertFood(lists[c], p)) = Elements(lists[c]) \cup {p}
    BY <2>5, InsertFoodIs
  <2> HIDE DEF c, l
  <2>7. /\ l[c] = InsertFood(lists[c], p)
        /\ \A d \in GridSectors : d # c => l[d] = lists[d]
    BY <2>3, <2>4 DEF Lists
  <2>8. l \in Lists
    BY <2>3, <2>4, <2>6 DEF Lists
  <2> QED
    BY <2>2, <2>3, <2>6, <2>7, <2>8 DEF l
<1> QED
  BY <1>1, <1>2

\* InitFood makes lists.
LEMMA InitFoodIs ==
  ASSUME NEW fs \in Seq(Spots)
  PROVE  InitFood(fs) \in Lists
<1> DEFINE N == Len(fs)
           S == Lists
           x == [c \in GridSectors |-> <<>>]
           loop[k \in 0 .. N] == IF k = 0 THEN [c \in GridSectors |-> <<>>]
                                 ELSE SpawnFood(loop[k - 1], <<fs[k]>>)
           g == [k \in 1 .. N |-> [l \in S |-> SpawnFood(l, <<fs[k]>>)]]
<1>1. N \in Nat /\ \A k \in 1 .. N : <<fs[k]>> \in Dropped
  BY LenProperties, ElementOfSeq DEF Dropped
<1>2. InitFood(fs) = loop[N]
  BY DEF InitFood
<1> HIDE DEF N
<1>3. g \in [1 .. N -> [S -> S]]
  BY <1>1, SpawnFoodIs
<1>4. x \in S
  BY DEF Lists, InOrder
<1> HIDE DEF S, g, x
<1>5. PICK f : IsLoop(f, N, S, x, g)
  BY <1>1, <1>3, <1>4, LoopExists
<1>6. /\ f \in [0 .. N -> S] /\ f[0] = x
      /\ \A k \in 1 .. N : f[k] = g[k][f[k - 1]]
  BY <1>5 DEF IsLoop
<1>7. ASSUME NEW k \in 1 .. N PROVE f[k] = SpawnFood(f[k - 1], <<fs[k]>>)
  <2>1. f[k - 1] \in S
    BY <1>1, <1>6
  <2> QED
    BY <1>6, <2>1 DEF g
<1>8. \E e : e = [k \in 0 .. N |-> IF k = 0 THEN x ELSE SpawnFood(e[k - 1], <<fs[k]>>)]
  <2>1. f = [k \in 0 .. N |-> IF k = 0 THEN x ELSE SpawnFood(f[k - 1], <<fs[k]>>)]
    BY <1>1, <1>6, <1>7
  <2> QED
    BY <2>1
<1>9. loop = [k \in 0 .. N |-> IF k = 0 THEN x ELSE SpawnFood(loop[k - 1], <<fs[k]>>)]
  BY <1>8 DEF x
<1> HIDE DEF loop
<1>10. loop[0] = x /\ \A k \in 1 .. N : loop[k] = SpawnFood(loop[k - 1], <<fs[k]>>)
  BY <1>1, <1>9
<1> DEFINE Good == [k \in 0 .. N |-> Lists]
<1>11. loop[0] \in Good[0]
  BY <1>1, <1>4, <1>10 DEF S
<1>12. ASSUME NEW k \in 1 .. N, loop[k - 1] \in Good[k - 1]
       PROVE  loop[k] \in Good[k]
  <2>1. k - 1 \in 0 .. N /\ k \in 0 .. N
    BY <1>1
  <2>2. loop[k - 1] \in Lists
    BY <1>12, <2>1
  <2>3. SpawnFood(loop[k - 1], <<fs[k]>>) \in Lists
    BY <1>1, <2>2, SpawnFoodIs
  <2> QED
    BY <1>10, <2>1, <2>3
<1> HIDE DEF Good
<1>13. \A k \in 0 .. N : loop[k] \in Good[k]
  BY <1>1, <1>11, <1>12, LoopInvariant
<1>14. loop[N] \in Good[N] /\ N \in 0 .. N
  BY <1>1, <1>13
<1> QED
  BY <1>2, <1>14 DEF Good

-----------------------------------------------------------------------------
(* What moving and dying do to the food *)

\* The lists l come from food when the foods got are eaten and fs put in.
Fed(l, got, fs) ==
  /\ l \in Lists /\ got \in Seq(Spots) /\ fs \in Seq(Spots)
  /\ \A c \in GridSectors : Elements(l[c]) \subseteq Elements(food[c]) \cup Elements(fs)
  /\ \A f \in Elements(fs) : \E c \in GridSectors : f \in Elements(l[c])
  /\ \A f \in Lying : f \in Elements(got) \/ \E c \in GridSectors : f \in Elements(l[c])
  /\ \A f \in Elements(got) :
       (\E c \in GridSectors : f \in Elements(l[c])) =>
          f \in Doubled(food) \/ f \in Elements(fs)

\* Something is added to the vector of a snake, or it is cleared.
Filled(e, s, g) == [e EXCEPT ![s] = @ \o g]
Cleared(e, s)   == [e EXCEPT ![s] = <<>>]

LEMMA MoveIs ==
  ASSUME food \in Lists, NEW s \in Snakes, NEW h \in Spots, Move(s, h)
  PROVE  \E got, fs : /\ Fed(food', got, fs)
                      /\ eaten' = Filled(eaten, s, got)
                      /\ spawn' = Filled(spawn, s, fs)
<1> DEFINE c == SectorOf(h)
           v == food[c]
           r == UpdateEatenFood(v, h)
           m == [food EXCEPT ![c] = r.list]
<1>1. c \in GridSectors
  BY SpotIs
<1>2. v \in Seq(Spots) /\ InOrder(v)
  BY <1>1 DEF Lists
<1>3. /\ r.list \in Seq(Spots) /\ r.got \in Seq(Spots) /\ InOrder(r.list)
      /\ Elements(v) = Elements(r.list) \cup Elements(r.got)
      /\ \A f \in Elements(r.list) \cap Elements(r.got) : Times(v, f) > 1
  BY <1>2, EatenIs
<1>4. PICK fs \in Dropped : /\ food' = SpawnFood(m, fs)
                            /\ eaten' = [eaten EXCEPT ![s] = @ \o r.got]
                            /\ spawn' = [spawn EXCEPT ![s] = @ \o fs]
  BY DEF Move
<1> HIDE DEF c, r
<1>5. m[c] = r.list /\ \A d \in GridSectors : d # c => m[d] = food[d]
  BY <1>1 DEF Lists
<1>6. m \in Lists
  BY <1>1, <1>3 DEF Lists
<1> HIDE DEF m
<1>7. /\ fs \in Seq(Spots) /\ food' \in Lists
      /\ \A d \in GridSectors : /\ Elements(m[d]) \subseteq Elements(food'[d])
                                /\ Elements(food'[d]) \subseteq Elements(m[d]) \cup Elements(fs)
      /\ \A f \in Elements(fs) : \E d \in GridSectors : f \in Elements(food'[d])
  BY <1>4, <1>6, SpawnFoodIs
<1>8. \A d \in GridSectors : Elements(m[d]) \subseteq Elements(food[d])
  BY <1>3, <1>5
<1>9. ASSUME NEW f \in Lying
      PROVE  f \in Elements(r.got) \/ \E d \in GridSectors : f \in Elements(food'[d])
  <2>1. PICK d \in GridSectors : f \in Elements(food[d])
    BY DEF Lying
  <2>2. CASE d = c
    BY <1>1, <1>3, <1>5, <1>7, <2>1, <2>2
  <2>3. CASE d # c
    BY <1>5, <1>7, <2>1, <2>3
  <2> QED
    BY <2>2, <2>3
<1>10. ASSUME NEW f \in Elements(r.got), NEW d \in GridSectors, f \in Elements(food'[d])
       PROVE  f \in Doubled(food) \/ f \in Elements(fs)
  <2> SUFFICES ASSUME f \in Elements(m[d]) PROVE f \in Doubled(food)
    BY <1>7, <1>10
  <2>1. f \in Elements(v) /\ f \in Spots
    BY <1>2, <1>3, SeqOfElements
  <2>2. CASE d = c
    <3>1. Times(v, f) > 1
      BY <1>3, <1>5, <2>2
    <3> QED
      BY <1>1, <2>1, <3>1 DEF Doubled
  <2>3. CASE d # c
    <3>1. f \in Elements(food[d])
      BY <1>8
    <3> QED
      BY <1>1, <2>1, <2>3, <3>1 DEF Doubled
  <2> QED
    BY <2>2, <2>3
<1>11. \A d \in GridSectors : Elements(food'[d]) \subseteq Elements(food[d]) \cup Elements(fs)
  BY <1>7, <1>8
<1>12. Fed(food', r.got, fs)
  BY <1>3, <1>7, <1>9, <1>10, <1>11 DEF Fed
<1> QED
  BY <1>4, <1>12 DEF Filled

LEMMA PartIs ==
  ASSUME food \in Lists, NEW s \in Snakes, NEW p \in Spots, on_dead_food_spawn(s, p)
  PROVE  \E fs : /\ Fed(food', <<>>, fs) /\ spawn' = Filled(spawn, s, fs)
                 /\ twins' = twins \cup Doubled(food') \cup
                               {f \in Elements(fs) : \E t \in Snakes \ {s} :
                                                       f \in Elements(eaten[t])}
<1>1. PICK fs \in [1 .. DeadCount -> Scatter(p)] :
        /\ food' = [food EXCEPT ![SectorOf(p)] = InsertAll(@, fs)]
        /\ spawn' = [spawn EXCEPT ![s] = @ \o fs]
        /\ twins' = twins \cup Doubled(food') \cup
                      {f \in Elements(fs) : \E t \in Snakes \ {s} :
                                              f \in Elements(eaten[t])}
  BY DEF on_dead_food_spawn
<1>2. fs \in Seq(Spots)
  <2>1. \E n \in Nat : fs \in [1 .. n -> Spots]
    BY <1>1 DEF Scatter, DeadCount
  <2> QED
    BY <2>1, SeqDef
<1> DEFINE c == SectorOf(p)
           v == food[c]
           w == InsertAll(v, fs)
<1>3. c \in GridSectors
  BY SpotIs
<1>4. v \in Seq(Spots) /\ InOrder(v)
  BY <1>3 DEF Lists
<1>5. w \in Seq(Spots) /\ InOrder(w) /\ Elements(w) = Elements(v) \cup Elements(fs)
  BY <1>2, <1>4, InsertAllIs
<1>6. food' = [food EXCEPT ![c] = w]
  BY <1>1
<1> HIDE DEF c, w
<1>7. food'[c] = w /\ \A d \in GridSectors : d # c => food'[d] = food[d]
  BY <1>3, <1>6 DEF Lists
<1>8. food' \in Lists
  BY <1>3, <1>5, <1>6 DEF Lists
<1>9. \A d \in GridSectors : /\ Elements(food[d]) \subseteq Elements(food'[d])
                             /\ Elements(food'[d]) \subseteq Elements(food[d]) \cup Elements(fs)
  BY <1>5, <1>7
<1>10. \A f \in Elements(fs) : f \in Elements(food'[c])
  BY <1>5, <1>7
<1>11. \A f \in Lying : \E d \in GridSectors : f \in Elements(food'[d])
  BY <1>9 DEF Lying
<1>12. Elements(<<>>) = {} /\ <<>> \in Seq(Spots)
  BY DEF Elements
<1>13. Fed(food', <<>>, fs)
  BY <1>2, <1>3, <1>8, <1>9, <1>10, <1>11, <1>12 DEF Fed
<1> QED
  BY <1>1, <1>13 DEF Filled

\* The same in terms of the map, before and after.
LEMMA FedLying ==
  ASSUME NEW got, NEW fs, Fed(food', got, fs)
  PROVE  /\ Elements(fs) \subseteq Lying'
         /\ Lying \subseteq Lying' \cup Elements(got)
         /\ Lying' \subseteq Lying \cup Elements(fs)
         /\ Elements(got) \cap Lying' \subseteq Doubled(food) \cup Elements(fs)
<1>1. \A f : f \in Lying' <=> \E c \in GridSectors : f \in Elements(food'[c])
  BY DEF Lying
<1>2. \A f : f \in Lying <=> \E c \in GridSectors : f \in Elements(food[c])
  BY DEF Lying
<1> QED
  BY <1>1, <1>2 DEF Fed

-----------------------------------------------------------------------------
(* Types, and the order of the lists *)

\* SendFoodUpdate takes off what s has eaten and draws what it has dropped.
LEMMA SendFoodUpdateIs ==
  ASSUME NEW d, NEW s
  PROVE  SendFoodUpdate(d, s) = (d \ Elements(eaten[s])) \cup Elements(spawn[s])
BY DEF SendFoodUpdate, AfterSpawn, AfterEat

LEMMA InitTypeOK == Init => TypeOK /\ FoodSorted
<1> SUFFICES ASSUME Init PROVE TypeOK /\ FoodSorted
  OBVIOUS
<1>1. PICK fs \in SeqOf(Spots, MaxFood) : food = InitFood(fs)
  BY DEF Init
<1>2. fs \in Seq(Spots)
  <2>1. \E n \in Nat : fs \in [1 .. n -> Spots]
    BY <1>1 DEF SeqOf
  <2> QED
    BY <2>1, SeqDef
<1>3. food \in [GridSectors -> Seq(Foods)] /\ FoodSorted
  BY <1>1, <1>2, InitFoodIs, ListsAre
<1>4. <<>> \in Seq(Foods) /\ <<>> \in Seq(Snakes) /\ Elements(<<>>) = {}
  BY DEF Elements
<1>5. twins \subseteq Spots
  BY DEF Init, Doubled
<1>6. eaten \in [Snakes -> Seq(Foods)] /\ spawn \in [Snakes -> Seq(Foods)]
  BY <1>4 DEF Init
<1>7. drawn \in [Players -> SUBSET Foods]
  BY DEF Init
<1> QED
  BY <1>3, <1>4, <1>5, <1>6, <1>7 DEF Init, TypeOK, Snakes

LEMMA StepTypeOK == TypeOK /\ FoodSorted /\ [Next]_vars => TypeOK' /\ FoodSorted'
<1> SUFFICES ASSUME TypeOK, FoodSorted, [Next]_vars PROVE TypeOK' /\ FoodSorted'
  OBVIOUS
<1>0. food \in Lists
  BY ListsAre DEF TypeOK
<1>a. ASSUME food' = food PROVE FoodSorted'
  BY <1>a DEF FoodSorted
<1>b. /\ \A c \in GridSectors : Elements(food[c]) \subseteq Foods
      /\ \A s \in Snakes : Elements(eaten[s]) \subseteq Foods /\ Elements(spawn[s]) \subseteq Foods
  BY SeqOfElements DEF TypeOK
<1>1. CASE UNCHANGED vars
  BY <1>1, <1>a DEF vars, worldVars, timerVars, clientVars, TypeOK
<1>2. CASE on_timer
  BY <1>2, <1>a DEF on_timer, worldVars, clientVars, TypeOK
<1>3. CASE CheckSnakeBounds
  BY <1>3, <1>a DEF CheckSnakeBounds, worldVars, clientVars, TypeOK
<1>4. CASE BroadcastDone
  BY <1>4, <1>a DEF BroadcastDone, worldVars, clientVars, TypeOK
<1>5. ASSUME NEW s \in Players, on_open(s) PROVE TypeOK' /\ FoodSorted'
  <2>1. PICK V \in SUBSET Visible : /\ view' = [view EXCEPT ![s] = V]
                                    /\ drawn' = [drawn EXCEPT ![s] = AfterSet({}, V)]
    BY <1>5 DEF on_open
  <2>2. V \subseteq GridSectors
    BY VisibleAssumption
  <2>3. AfterSet({}, V) \subseteq Foods
    BY <1>b, <2>2 DEF AfterSet
  <2>4. view' \in [Players -> SUBSET Visible] /\ drawn' \in [Players -> SUBSET Foods]
    BY <2>1, <2>3 DEF TypeOK
  <2> QED
    BY <1>5, <1>a, <2>4 DEF on_open, timerVars, TypeOK, Snakes
<1>6. ASSUME NEW s \in Players, on_close(s) PROVE TypeOK' /\ FoodSorted'
  <2>1. /\ view' \in [Players -> SUBSET Visible] /\ drawn' \in [Players -> SUBSET Foods]
        /\ came' \in [Players -> SUBSET Visible] /\ left' \in [Players -> SUBSET Visible]
    BY <1>6 DEF on_close, TypeOK
  <2> QED
    BY <1>6, <1>a, <2>1 DEF on_close, timerVars, TypeOK, Snakes
<1>7. ASSUME NEW s \in Snakes, Rest(s) PROVE TypeOK' /\ FoodSorted'
  BY <1>7, <1>a DEF Rest, worldVars, clientVars, TypeOK
<1>8. ASSUME NEW s \in Snakes, NEW h \in Spots, Move(s, h) PROVE TypeOK' /\ FoodSorted'
  <2>1. PICK got, fs : /\ Fed(food', got, fs)
                       /\ eaten' = Filled(eaten, s, got)
                       /\ spawn' = Filled(spawn, s, fs)
    BY <1>0, <1>8, MoveIs
  <2>2. food' \in [GridSectors -> Seq(Foods)] /\ FoodSorted'
    <3>1. food' \in Lists
      BY <2>1 DEF Fed
    <3> QED
      BY <3>1 DEF Lists, FoodSorted, InOrder, Foods
  <2>3. eaten[s] \o got \in Seq(Foods) /\ spawn[s] \o fs \in Seq(Foods)
    BY <2>1, ConcatElements DEF Fed, TypeOK, Foods
  <2>4. eaten' \in [Snakes -> Seq(Foods)] /\ spawn' \in [Snakes -> Seq(Foods)]
    BY <2>1, <2>3 DEF TypeOK, Filled
  <2>5. changes' \in Seq(Snakes) /\ Elements(changes) \subseteq Elements(changes')
    BY <1>8, AppendIs DEF Move, TypeOK
  <2>6. /\ view' \in [Players -> SUBSET Visible]
        /\ came' \in [Players -> SUBSET Visible] /\ left' \in [Players -> SUBSET Visible]
    <3>1. PICK V \in SUBSET Visible :
            IF s \in Players
            THEN /\ view' = [view EXCEPT ![s] = V]
                 /\ came' = [came EXCEPT ![s] = @ \cup (V \ view[s])]
                 /\ left' = [left EXCEPT ![s] = @ \cup (view[s] \ V)]
            ELSE V = {} /\ UNCHANGED <<view, came, left>>
      BY <1>8 DEF Move
    <3>2. CASE s \in Players
      <4>1. /\ view[s] \subseteq Visible /\ came[s] \subseteq Visible
            /\ left[s] \subseteq Visible
        BY <3>2 DEF TypeOK
      <4> DEFINE a == came[s] \cup (V \ view[s])
                 b == left[s] \cup (view[s] \ V)
      <4>2. a \in SUBSET Visible /\ b \in SUBSET Visible
        BY <4>1
      <4>3. /\ view' = [view EXCEPT ![s] = V]
            /\ came' = [came EXCEPT ![s] = a] /\ left' = [left EXCEPT ![s] = b]
        BY <3>1, <3>2
      <4> HIDE DEF a, b
      <4> QED
        BY <4>2, <4>3 DEF TypeOK
    <3>3. CASE s \notin Players
      BY <3>1, <3>3 DEF TypeOK
    <3> QED
      BY <3>2, <3>3
  <2>7. twins' \subseteq Spots
    BY <1>8 DEF Move, Doubled, TypeOK
  <2> QED
    BY <1>8, <2>2, <2>4, <2>5, <2>6, <2>7 DEF Move, clientVars, TypeOK
<1>9. ASSUME NEW s \in Snakes, BroadcastDeath(s) PROVE TypeOK' /\ FoodSorted'
  <2>1. drawn' \in [Players -> SUBSET Foods]
    <3>1. \A k \in Players : drawn[k] \subseteq Foods
      BY DEF TypeOK
    <3>2. \A k \in Players : SendFoodUpdate(drawn[k], s) \subseteq Foods
      BY <1>b, <3>1, SendFoodUpdateIs
    <3>3. drawn' = DeathSent(s)
      BY <1>9 DEF BroadcastDeath
    <3> QED
      BY <3>1, <3>2, <3>3 DEF DeathSent
  <2>2. eaten' \in [Snakes -> Seq(Foods)] /\ spawn' \in [Snakes -> Seq(Foods)]
    BY <1>9 DEF BroadcastDeath, TypeOK
  <2>3. changes' \in Seq(Snakes) /\ dying' \subseteq Elements(changes')
    BY <1>9, TailIs DEF BroadcastDeath, Dies, MarkDead, TypeOK
  <2> QED
    BY <1>9, <1>a, <2>1, <2>2, <2>3 DEF BroadcastDeath, MarkDead, TypeOK
<1>10. ASSUME NEW s \in Snakes, BroadcastMove(s) PROVE TypeOK' /\ FoodSorted'
  <2>1. drawn' \in [Players -> SUBSET Foods]
    <3>1. \A k \in Players : drawn[k] \subseteq Foods
      BY DEF TypeOK
    <3>2. \A k \in Players : SendFoodUpdate(drawn[k], s) \subseteq Foods
      BY <1>b, <3>1, SendFoodUpdateIs
    <3>3. ASSUME s \in Players PROVE came[s] \subseteq GridSectors
      BY <3>3, VisibleAssumption DEF TypeOK
    <3>4. ASSUME s \in Players, NEW d \in SUBSET Foods PROVE SendPOVUpdateTo(d, s) \subseteq Foods
      BY <1>b, <3>3, <3>4 DEF SendPOVUpdateTo, AfterSet, AfterRemove
    <3>5. drawn' = [k \in Players |->
                      IF k \notin joined THEN drawn[k]
                      ELSE IF k = s THEN SendPOVUpdateTo(SendFoodUpdate(drawn[k], s), s)
                                    ELSE SendFoodUpdate(drawn[k], s)]
      BY <1>10 DEF BroadcastMove
    <3> QED
      BY <3>1, <3>2, <3>4, <3>5
  <2>2. eaten' \in [Snakes -> Seq(Foods)] /\ spawn' \in [Snakes -> Seq(Foods)]
    BY <1>10 DEF BroadcastMove, TypeOK
  <2>3. changes' \in Seq(Snakes) /\ dying' \subseteq Elements(changes')
    BY <1>10, TailIs DEF BroadcastMove, TypeOK
  <2>4. came' \in [Players -> SUBSET Visible] /\ left' \in [Players -> SUBSET Visible]
    BY <1>10 DEF BroadcastMove, TypeOK
  <2> QED
    BY <1>10, <1>a, <2>1, <2>2, <2>3, <2>4 DEF BroadcastMove, TypeOK
<1>11. ASSUME NEW s \in Snakes, NEW p \in Spots, on_dead_food_spawn(s, p)
       PROVE  TypeOK' /\ FoodSorted'
  <2>1. PICK fs : /\ Fed(food', <<>>, fs) /\ spawn' = Filled(spawn, s, fs)
                  /\ twins' = twins \cup Doubled(food') \cup
                                {f \in Elements(fs) : \E t \in Snakes \ {s} :
                                                        f \in Elements(eaten[t])}
    BY <1>0, <1>11, PartIs
  <2>2. food' \in [GridSectors -> Seq(Foods)] /\ FoodSorted'
    <3>1. food' \in Lists
      BY <2>1 DEF Fed
    <3> QED
      BY <3>1 DEF Lists, FoodSorted, InOrder, Foods
  <2>3. Elements(fs) \subseteq Spots /\ spawn[s] \o fs \in Seq(Foods)
    BY <2>1, SeqOfElements, ConcatElements DEF Fed, TypeOK, Foods
  <2>4. twins' \subseteq Spots
    BY <2>1, <2>3 DEF Doubled, TypeOK
  <2>5. spawn' \in [Snakes -> Seq(Foods)]
    BY <2>1, <2>3 DEF TypeOK, Filled
  <2> QED
    BY <1>11, <2>2, <2>4, <2>5 DEF on_dead_food_spawn, timerVars, clientVars, TypeOK
<1> QED
  BY <1>1, <1>2, <1>3, <1>4, <1>5, <1>6, <1>7, <1>8, <1>9, <1>10, <1>11 DEF Next

-----------------------------------------------------------------------------
(* The lists of a tick *)

\* The snake s is appended to w, with g in its vector.
AppendFacts(w, s, e, g) ==
  LET d == Filled(e, s, g)
      u == Append(w, s)
  IN  /\ Distinct(u) /\ u \in Seq(Snakes) /\ Len(u) = Len(w) + 1
      /\ Elements(u) = Elements(w) \cup {s}
      /\ d[u[Len(w) + 1]] = g /\ \A i \in 1 .. Len(w) : d[u[i]] = e[w[i]]
      /\ d[s] = g /\ \A t \in Snakes : t # s => d[t] = e[t]
      /\ \A i \in 1 .. Len(w) + 1 : \A f :
           From(d, u, i, f) <=> From(e, w, i, f) \/ f \in Elements(g)

LEMMA FromAppend ==
  ASSUME NEW w \in Seq(Snakes), NEW s \in Snakes, s \notin Elements(w), Distinct(w),
         NEW e \in [Snakes -> Seq(Spots)], e[s] = <<>>, NEW g \in Seq(Spots)
  PROVE  AppendFacts(w, s, e, g)
<1> DEFINE n == Len(w)
           d == Filled(e, s, g)
           u == Append(w, s)
<1>1. n \in Nat /\ \A i \in 1 .. n : w[i] \in Snakes /\ w[i] # s
  BY LenProperties, ElementOfSeq DEF Elements
<1>2. /\ u \in Seq(Snakes) /\ Len(u) = n + 1 /\ u[n + 1] = s
      /\ \A i \in 1 .. n : u[i] = w[i]
      /\ Elements(u) = Elements(w) \cup {s}
  BY AppendIs
<1>3. d[s] = g /\ \A t \in Snakes : t # s => d[t] = e[t]
  <2>1. <<>> \o g = g
    BY ConcatEmptySeq
  <2> QED
    BY <2>1 DEF Filled
<1>4. \A i \in 1 .. n + 1 : i \in 1 .. n \/ i = n + 1
  BY <1>1
<1>5. \A i, j \in 1 .. n : w[i] = w[j] => i = j
  BY DEF Distinct
<1>6. Distinct(u)
  <2> SUFFICES ASSUME NEW i \in 1 .. n + 1, NEW j \in 1 .. n + 1, u[i] = u[j]
               PROVE  i = j
    BY <1>2 DEF Distinct
  <2> QED
    BY <1>1, <1>2, <1>4, <1>5
<1> HIDE DEF n, d, u
<1>7. ASSUME NEW i \in 1 .. n PROVE d[u[i]] = e[w[i]]
  BY <1>1, <1>2, <1>3
<1>8. ASSUME NEW i \in 1 .. n + 1, NEW f
      PROVE  From(d, u, i, f) <=> From(e, w, i, f) \/ f \in Elements(g)
  <2>1. \A j : j \in i .. n + 1 <=> j \in i .. n \/ j = n + 1
    BY <1>1
  <2>2. \A j \in i .. n : j \in 1 .. n
    BY <1>1
  <2>3. From(d, u, i, f) <=> \E j \in i .. n + 1 : f \in Elements(d[u[j]])
    BY <1>2 DEF From
  <2>4. From(e, w, i, f) <=> \E j \in i .. n : f \in Elements(e[w[j]])
    BY DEF From, n
  <2> QED
    BY <1>2, <1>3, <1>7, <2>1, <2>2, <2>3, <2>4
<1> QED
  BY <1>2, <1>3, <1>6, <1>7, <1>8 DEF n, d, u, AppendFacts

\* The first snake is taken off, and its vector is cleared.
TailFacts(w, e) ==
  LET s == Head(w)
      u == Tail(w)
      d == Cleared(e, Head(w))
  IN  /\ Distinct(u) /\ u \in Seq(Snakes) /\ Len(u) = Len(w) - 1
      /\ Elements(u) = Elements(w) \ {s} /\ s \in Elements(w)
      /\ Len(w) \in Nat \ {0} /\ w[1] = s
      /\ \A i \in 1 .. Len(w) - 1 : d[u[i]] = e[w[i + 1]]
      /\ d[s] = <<>> /\ \A t \in Snakes : t # s => d[t] = e[t]
      /\ \A i \in Nat \ {0} : \A f : From(d, u, i, f) <=> From(e, w, i + 1, f)
      /\ \A f : From(e, w, 1, f) <=> f \in Elements(e[s]) \/ From(e, w, 2, f)

LEMMA FromTail ==
  ASSUME NEW w \in Seq(Snakes), w # <<>>, Distinct(w), NEW e \in [Snakes -> Seq(Spots)]
  PROVE  TailFacts(w, e)
<1> DEFINE n == Len(w)
           s == Head(w)
           u == Tail(w)
           d == Cleared(e, s)
<1>1. /\ s = w[1] /\ s \in Snakes /\ n \in Nat \ {0}
      /\ u \in Seq(Snakes) /\ Len(u) = n - 1
      /\ \A i \in 1 .. n - 1 : u[i] = w[i + 1]
      /\ Elements(w) = Elements(u) \cup {s}
  BY TailIs
<1>2. \A i \in 1 .. n : w[i] \in Snakes
  BY ElementOfSeq
<1>3. \A i, j \in 1 .. n : w[i] = w[j] => i = j
  BY DEF Distinct
<1>4. /\ \A i, f : From(e, w, i, f) <=> \E j \in i .. n : f \in Elements(e[w[j]])
      /\ \A i, f : From(d, u, i, f) <=> \E j \in i .. n - 1 : f \in Elements(d[u[j]])
  BY <1>1 DEF From
<1>5. Elements(u) = {u[i] : i \in 1 .. n - 1}
  BY <1>1 DEF Elements
<1> HIDE DEF n, s, u, d
<1>6. ASSUME NEW i \in 1 .. n - 1
      PROVE  i + 1 \in 1 .. n /\ w[i + 1] # s /\ w[i + 1] \in Snakes
  <2>1. i + 1 \in 1 .. n /\ i + 1 # 1 /\ 1 \in 1 .. n
    BY <1>1
  <2> QED
    BY <1>1, <1>2, <1>3, <2>1
<1>7. d[s] = <<>> /\ \A t \in Snakes : t # s => d[t] = e[t]
  BY <1>1 DEF d, Cleared
<1>8. ASSUME NEW i \in 1 .. n - 1 PROVE d[u[i]] = e[w[i + 1]]
  BY <1>1, <1>6, <1>7
<1>9. s \notin Elements(u)
  BY <1>1, <1>5, <1>6
<1>10. Distinct(u)
  <2> SUFFICES ASSUME NEW i \in 1 .. n - 1, NEW j \in 1 .. n - 1, u[i] = u[j]
               PROVE  i = j
    BY <1>1 DEF Distinct
  <2>1. i + 1 = j + 1
    BY <1>1, <1>3, <1>6
  <2> QED
    BY <2>1
<1>11. ASSUME NEW i \in Nat \ {0}, NEW f
       PROVE  From(d, u, i, f) <=> From(e, w, i + 1, f)
  <2>1. ASSUME NEW j \in i .. n - 1, f \in Elements(d[u[j]])
        PROVE  \E k \in i + 1 .. n : f \in Elements(e[w[k]])
    <3>1. j \in 1 .. n - 1 /\ j + 1 \in i + 1 .. n
      BY <1>1
    <3> QED
      BY <1>8, <2>1, <3>1
  <2>2. ASSUME NEW k \in i + 1 .. n, f \in Elements(e[w[k]])
        PROVE  \E j \in i .. n - 1 : f \in Elements(d[u[j]])
    <3>1. k - 1 \in 1 .. n - 1 /\ k - 1 \in i .. n - 1 /\ (k - 1) + 1 = k
      BY <1>1
    <3>2. d[u[k - 1]] = e[w[k]]
      BY <1>8, <3>1
    <3> QED
      BY <2>2, <3>1, <3>2
  <2> QED
    BY <1>4, <2>1, <2>2
<1>12. ASSUME NEW f
       PROVE  From(e, w, 1, f) <=> f \in Elements(e[s]) \/ From(e, w, 2, f)
  <2>1. \A j : j \in 1 .. n <=> j = 1 \/ j \in 2 .. n
    BY <1>1
  <2> QED
    BY <1>1, <1>4, <2>1
<1> QED
  BY <1>1, <1>7, <1>8, <1>9, <1>10, <1>11, <1>12 DEF n, s, u, d, TailFacts

LEMMA InitLists == Init => ListsInv
<1>1. Elements(<<>>) = {} /\ Distinct(<<>>)
  BY DEF Elements, Distinct
<1> QED
  BY <1>1 DEF Init, ListsInv

LEMMA StepLists == TypeOK /\ FoodSorted /\ ListsInv /\ [Next]_vars => ListsInv'
<1> SUFFICES ASSUME TypeOK, FoodSorted, ListsInv, [Next]_vars PROVE ListsInv'
  OBVIOUS
<1>0. food \in Lists
  BY ListsAre DEF TypeOK
<1>a. Elements(<<>>) = {}
  BY DEF Elements
<1>b. changes \in Seq(Snakes)
  BY DEF TypeOK
<1>c. eaten \in [Snakes -> Seq(Spots)] /\ spawn \in [Snakes -> Seq(Spots)]
  BY DEF TypeOK, Foods
<1>1. CASE UNCHANGED vars
  BY <1>1 DEF vars, worldVars, timerVars, clientVars, ListsInv
<1>2. CASE on_timer
  BY <1>2, <1>a DEF on_timer, worldVars, clientVars, ListsInv
<1>3. CASE CheckSnakeBounds
  BY <1>3 DEF CheckSnakeBounds, worldVars, clientVars, ListsInv
<1>4. CASE BroadcastDone
  BY <1>4 DEF BroadcastDone, worldVars, clientVars, ListsInv
<1>5. ASSUME NEW s \in Players, on_open(s) PROVE ListsInv'
  BY <1>5 DEF on_open, timerVars, ListsInv
<1>6. ASSUME NEW s \in Players, on_close(s) PROVE ListsInv'
  BY <1>6 DEF on_close, timerVars, ListsInv
<1>7. ASSUME NEW s \in Snakes, Rest(s) PROVE ListsInv'
  BY <1>7 DEF Rest, worldVars, clientVars, ListsInv
<1>8. ASSUME NEW s \in Snakes, NEW h \in Spots, Move(s, h) PROVE ListsInv'
  <2>1. PICK got, fs : /\ Fed(food', got, fs)
                       /\ eaten' = Filled(eaten, s, got)
                       /\ spawn' = Filled(spawn, s, fs)
    BY <1>0, <1>8, MoveIs
  <2>2. got \in Seq(Spots) /\ fs \in Seq(Spots)
    BY <2>1 DEF Fed
  <2>3. s \notin Elements(changes) /\ eaten[s] = <<>> /\ spawn[s] = <<>>
    BY <1>8 DEF Move, ListsInv
  <2>4. changes' = Append(changes, s)
    BY <1>8 DEF Move
  <2>5. Distinct(changes)
    BY DEF ListsInv
  <2>6. /\ Distinct(changes') /\ Elements(changes') = Elements(changes) \cup {s}
        /\ \A t \in Snakes : t # s => eaten'[t] = eaten[t]
    <3>1. AppendFacts(changes, s, eaten, got)
      BY <1>b, <1>c, <2>2, <2>3, <2>5, FromAppend
    <3> QED
      BY <2>1, <2>4, <3>1 DEF AppendFacts
  <2>7. \A t \in Snakes : t # s => spawn'[t] = spawn[t]
    BY <1>c, <2>1 DEF Filled
  <2> QED
    BY <1>8, <2>6, <2>7 DEF Move, ListsInv
<1>9. ASSUME NEW s \in Snakes, BroadcastDeath(s) \/ BroadcastMove(s) PROVE ListsInv'
  <2>1. /\ phase = "send" /\ phase' = phase /\ todo' = todo
        /\ changes # <<>> /\ s = Head(changes) /\ changes' = Tail(changes)
        /\ eaten' = Cleared(eaten, s) /\ spawn' = Cleared(spawn, s)
    BY <1>9 DEF BroadcastDeath, Dies, BroadcastMove, Cleared
  <2>2. Distinct(changes)
    BY DEF ListsInv
  <2>3. /\ Distinct(changes') /\ Elements(changes') = Elements(changes) \ {s}
        /\ eaten'[s] = <<>> /\ \A t \in Snakes : t # s => eaten'[t] = eaten[t]
    <3>1. TailFacts(changes, eaten)
      BY <1>b, <1>c, <2>1, <2>2, FromTail
    <3> QED
      BY <2>1, <3>1 DEF TailFacts
  <2>4. spawn'[s] = <<>> /\ \A t \in Snakes : t # s => spawn'[t] = spawn[t]
    BY <1>c, <2>1 DEF Cleared
  <2> QED
    BY <2>1, <2>3, <2>4 DEF ListsInv
<1>10. ASSUME NEW s \in Snakes, NEW p \in Spots, on_dead_food_spawn(s, p) PROVE ListsInv'
  <2>1. /\ phase' = phase /\ todo' = todo /\ changes' = changes /\ eaten' = eaten
        /\ changes # <<>> /\ s = Head(changes)
    BY <1>10 DEF on_dead_food_spawn, Dies, timerVars
  <2>2. \A t \in Snakes : t # s => spawn'[t] = spawn[t]
    BY <1>10, <1>c DEF on_dead_food_spawn
  <2>3. s \in Elements(changes)
    BY <1>b, <2>1, TailIs
  <2> QED
    BY <2>1, <2>2, <2>3 DEF ListsInv
<1> QED
  BY <1>1, <1>2, <1>3, <1>4, <1>5, <1>6, <1>7, <1>8, <1>9, <1>10 DEF Next

\* A move and a broadcast, as far as the lists are concerned.
Moved(s, got, fs) ==
  /\ Fed(food', got, fs) /\ s \notin Elements(changes)
  /\ Elements(changes') = Elements(changes) \cup {s}
  /\ Len(changes) \in Nat /\ Len(changes') = Len(changes) + 1
  /\ eaten'[changes'[Len(changes) + 1]] = got /\ spawn'[changes'[Len(changes) + 1]] = fs
  /\ \A i \in 1 .. Len(changes) : /\ eaten'[changes'[i]] = eaten[changes[i]]
                                  /\ spawn'[changes'[i]] = spawn[changes[i]]
  /\ \A i \in 1 .. Len(changes) + 1 : \A f :
       /\ EatenFrom(i, f)' <=> EatenFrom(i, f) \/ f \in Elements(got)
       /\ SpawnedFrom(i, f)' <=> SpawnedFrom(i, f) \/ f \in Elements(fs)

Sent(s) ==
  /\ s \in Elements(changes) /\ Elements(changes') = Elements(changes) \ {s}
  /\ Len(changes) \in Nat \ {0} /\ Len(changes') = Len(changes) - 1 /\ changes[1] = s
  /\ \A i \in 1 .. Len(changes) - 1 : /\ eaten'[changes'[i]] = eaten[changes[i + 1]]
                                      /\ spawn'[changes'[i]] = spawn[changes[i + 1]]
  /\ \A i \in Nat \ {0} : \A f : /\ EatenFrom(i, f)' <=> EatenFrom(i + 1, f)
                                 /\ SpawnedFrom(i, f)' <=> SpawnedFrom(i + 1, f)
  /\ \A f : /\ EatenFrom(1, f) <=> f \in Elements(eaten[s]) \/ EatenFrom(2, f)
            /\ SpawnedFrom(1, f) <=> f \in Elements(spawn[s]) \/ SpawnedFrom(2, f)

LEMMA MovedLists ==
  ASSUME TypeOK, FoodSorted, ListsInv, NEW s \in Snakes, NEW h \in Spots, Move(s, h)
  PROVE  \E got, fs : Moved(s, got, fs)
<1>1. food \in Lists
  BY ListsAre DEF TypeOK
<1>2. PICK got, fs : /\ Fed(food', got, fs)
                     /\ eaten' = Filled(eaten, s, got)
                     /\ spawn' = Filled(spawn, s, fs)
  BY <1>1, MoveIs
<1>3. got \in Seq(Spots) /\ fs \in Seq(Spots)
  BY <1>2 DEF Fed
<1>4. s \notin Elements(changes) /\ eaten[s] = <<>> /\ spawn[s] = <<>> /\ Distinct(changes)
  BY DEF Move, ListsInv
<1>5. changes' = Append(changes, s)
  BY DEF Move
<1>6. changes \in Seq(Snakes) /\ Len(changes) \in Nat
  BY LenProperties DEF TypeOK
<1>7. eaten \in [Snakes -> Seq(Spots)] /\ spawn \in [Snakes -> Seq(Spots)]
  BY DEF TypeOK, Foods
<1>8. AppendFacts(changes, s, eaten, got)
  BY <1>3, <1>4, <1>6, <1>7, FromAppend
<1>9. AppendFacts(changes, s, spawn, fs)
  BY <1>3, <1>4, <1>6, <1>7, FromAppend
<1>10. /\ Elements(changes') = Elements(changes) \cup {s}
       /\ Len(changes') = Len(changes) + 1
       /\ eaten'[changes'[Len(changes) + 1]] = got
       /\ \A i \in 1 .. Len(changes) : eaten'[changes'[i]] = eaten[changes[i]]
       /\ \A i \in 1 .. Len(changes) + 1 : \A f :
            From(eaten', changes', i, f) <=> From(eaten, changes, i, f) \/ f \in Elements(got)
  BY <1>2, <1>5, <1>8 DEF AppendFacts
<1>11. /\ spawn'[changes'[Len(changes) + 1]] = fs
       /\ \A i \in 1 .. Len(changes) : spawn'[changes'[i]] = spawn[changes[i]]
       /\ \A i \in 1 .. Len(changes) + 1 : \A f :
            From(spawn', changes', i, f) <=> From(spawn, changes, i, f) \/ f \in Elements(fs)
  BY <1>2, <1>5, <1>9 DEF AppendFacts
<1>12. Moved(s, got, fs)
  BY <1>2, <1>4, <1>6, <1>10, <1>11 DEF Moved, EatenFrom, SpawnedFrom
<1> QED
  BY <1>12

LEMMA SentLists ==
  ASSUME TypeOK, ListsInv, NEW s \in Snakes, BroadcastDeath(s) \/ BroadcastMove(s)
  PROVE  Sent(s)
<1>1. /\ changes # <<>> /\ s = Head(changes) /\ changes' = Tail(changes)
      /\ eaten' = Cleared(eaten, s) /\ spawn' = Cleared(spawn, s)
  BY DEF BroadcastDeath, Dies, BroadcastMove, Cleared
<1>2. changes \in Seq(Snakes) /\ Distinct(changes)
  BY DEF TypeOK, ListsInv
<1>3. eaten \in [Snakes -> Seq(Spots)] /\ spawn \in [Snakes -> Seq(Spots)]
  BY DEF TypeOK, Foods
<1>4. TailFacts(changes, eaten)
  BY <1>1, <1>2, <1>3, FromTail
<1>5. TailFacts(changes, spawn)
  BY <1>1, <1>2, <1>3, FromTail
<1>6. /\ s \in Elements(changes) /\ Elements(changes') = Elements(changes) \ {s}
      /\ Len(changes) \in Nat \ {0} /\ Len(changes') = Len(changes) - 1 /\ changes[1] = s
      /\ \A i \in 1 .. Len(changes) - 1 : eaten'[changes'[i]] = eaten[changes[i + 1]]
      /\ \A i \in Nat \ {0} : \A f :
           From(eaten', changes', i, f) <=> From(eaten, changes, i + 1, f)
      /\ \A f : From(eaten, changes, 1, f) <=>
                  f \in Elements(eaten[s]) \/ From(eaten, changes, 2, f)
  BY <1>1, <1>4 DEF TailFacts
<1>7. /\ \A i \in 1 .. Len(changes) - 1 : spawn'[changes'[i]] = spawn[changes[i + 1]]
      /\ \A i \in Nat \ {0} : \A f :
           From(spawn', changes', i, f) <=> From(spawn, changes, i + 1, f)
      /\ \A f : From(spawn, changes, 1, f) <=>
                  f \in Elements(spawn[s]) \/ From(spawn, changes, 2, f)
  BY <1>1, <1>5 DEF TailFacts
<1> QED
  BY <1>6, <1>7 DEF Sent, EatenFrom, SpawnedFrom

\* A part of a dying snake, as far as the lists are concerned.
Parted(s, fs) ==
  /\ Fed(food', <<>>, fs) /\ changes' = changes /\ eaten' = eaten
  /\ Len(changes) \in Nat \ {0} /\ changes[1] = s
  /\ Elements(spawn'[s]) = Elements(spawn[s]) \cup Elements(fs)
  /\ \A i \in 2 .. Len(changes) : /\ changes[i] \in Snakes \ {s}
                                  /\ spawn'[changes[i]] = spawn[changes[i]]
  /\ \A i \in Nat \ {0} : \A f : SpawnedFrom(i, f) => SpawnedFrom(i, f)'
  /\ \A f \in Elements(fs) : SpawnedFrom(1, f)'
  /\ twins' = twins \cup Doubled(food') \cup
                {f \in Elements(fs) : \E t \in Snakes \ {s} : f \in Elements(eaten[t])}

LEMMA PartedLists ==
  ASSUME TypeOK, FoodSorted, ListsInv, NEW s \in Snakes, NEW p \in Spots,
         on_dead_food_spawn(s, p)
  PROVE  \E fs : Parted(s, fs)
<1>1. food \in Lists
  BY ListsAre DEF TypeOK
<1>2. PICK fs : /\ Fed(food', <<>>, fs) /\ spawn' = Filled(spawn, s, fs)
                /\ twins' = twins \cup Doubled(food') \cup
                              {f \in Elements(fs) : \E t \in Snakes \ {s} :
                                                      f \in Elements(eaten[t])}
  BY <1>1, PartIs
<1>3. /\ changes # <<>> /\ s = Head(changes) /\ changes' = changes /\ eaten' = eaten
      /\ changes \in Seq(Snakes) /\ Distinct(changes)
  BY DEF on_dead_food_spawn, Dies, timerVars, TypeOK, ListsInv
<1>4. Len(changes) \in Nat \ {0} /\ changes[1] = s
  BY <1>3, TailIs
<1>5. spawn \in [Snakes -> Seq(Spots)] /\ fs \in Seq(Spots)
  BY <1>2 DEF TypeOK, Foods, Fed
<1>6. Elements(spawn[s] \o fs) = Elements(spawn[s]) \cup Elements(fs)
  BY <1>5, ConcatElements
<1>7. /\ spawn'[s] = spawn[s] \o fs
      /\ \A t \in Snakes : t # s => spawn'[t] = spawn[t]
  BY <1>2, <1>5 DEF Filled
<1>8. \A i \in 1 .. Len(changes) : changes[i] \in Snakes
  BY <1>3, ElementOfSeq
<1>9. \A i \in 2 .. Len(changes) : /\ changes[i] \in Snakes \ {s}
                                   /\ spawn'[changes[i]] = spawn[changes[i]]
  <2> SUFFICES ASSUME NEW i \in 2 .. Len(changes) PROVE changes[i] \in Snakes \ {s}
    BY <1>7
  <2>1. i \in 1 .. Len(changes) /\ 1 \in 1 .. Len(changes) /\ i # 1
    BY <1>4
  <2> QED
    BY <1>3, <1>4, <1>8, <2>1 DEF Distinct
<1>10. ASSUME NEW i \in Nat \ {0}, NEW f, SpawnedFrom(i, f) PROVE SpawnedFrom(i, f)'
  <2>1. PICK j \in i .. Len(changes) : f \in Elements(spawn[changes[j]])
    BY <1>10 DEF SpawnedFrom, From
  <2>2. j \in 1 .. Len(changes)
    BY <1>4
  <2>3. f \in Elements(spawn'[changes[j]])
    BY <1>6, <1>7, <1>8, <2>1, <2>2
  <2> QED
    BY <1>3, <2>3 DEF SpawnedFrom, From
<1>11. ASSUME NEW f \in Elements(fs) PROVE SpawnedFrom(1, f)'
  <2>1. 1 \in 1 .. Len(changes)
    BY <1>4
  <2>2. f \in Elements(spawn'[changes[1]])
    BY <1>4, <1>6, <1>7
  <2> QED
    BY <1>3, <2>1, <2>2 DEF SpawnedFrom, From
<1>12. Parted(s, fs)
  BY <1>2, <1>3, <1>4, <1>6, <1>7, <1>9, <1>10, <1>11 DEF Parted
<1> QED
  BY <1>12

\* Nothing is to be sent while changes is empty.
LEMMA NothingFrom ==
  ASSUME changes = <<>>, NEW f
  PROVE  ~EatenFrom(1, f) /\ ~SpawnedFrom(1, f)
BY DEF EatenFrom, SpawnedFrom, From

-----------------------------------------------------------------------------
(* No food is drawn that is gone *)

LEMMA InitGhost == Init => GhostInv
BY DEF Init, GhostInv

LEMMA StepGhost ==
  TypeOK /\ FoodSorted /\ ListsInv /\ GhostInv /\ [Next]_vars => GhostInv'
<1> SUFFICES ASSUME TypeOK, FoodSorted, ListsInv, GhostInv, [Next]_vars
             PROVE  GhostInv'
  OBVIOUS
<1>a. ASSUME UNCHANGED <<food, eaten, spawn, changes>>,
             \A k \in joined' : drawn'[k] \subseteq Lying \/ (k \in joined /\ drawn'[k] = drawn[k])
      PROVE  GhostInv'
  <2>1. Lying' = Lying
    BY <1>a DEF Lying
  <2>2. \A i, f : EatenFrom(i, f)' <=> EatenFrom(i, f)
    BY <1>a DEF EatenFrom, From
  <2> QED
    BY <1>a, <2>1, <2>2 DEF GhostInv
<1>1. CASE UNCHANGED vars
  BY <1>1, <1>a DEF vars, worldVars, timerVars, clientVars
<1>2. CASE on_timer
  BY <1>2, <1>a DEF on_timer, worldVars, clientVars
<1>3. CASE CheckSnakeBounds
  BY <1>3, <1>a DEF CheckSnakeBounds, worldVars, clientVars
<1>4. CASE BroadcastDone
  BY <1>4, <1>a DEF BroadcastDone, worldVars, clientVars
<1>5. ASSUME NEW s \in Players, on_open(s) PROVE GhostInv'
  <2>1. PICK V \in SUBSET Visible : drawn' = [drawn EXCEPT ![s] = AfterSet({}, V)]
    BY <1>5 DEF on_open
  <2>2. AfterSet({}, V) \subseteq Lying
    BY VisibleAssumption DEF AfterSet, Lying
  <2>3. joined' = joined \cup {s} /\ joined \subseteq Players
    BY <1>5 DEF on_open, TypeOK
  <2>4. drawn \in [Players -> SUBSET Foods]
    BY DEF TypeOK
  <2>5. \A k \in joined' : drawn'[k] \subseteq Lying \/ (k \in joined /\ drawn'[k] = drawn[k])
    BY <2>1, <2>2, <2>3, <2>4
  <2> QED
    BY <1>5, <1>a, <2>5 DEF on_open, timerVars
<1>6. ASSUME NEW s \in Players, on_close(s) PROVE GhostInv'
  <2>1. drawn' = [drawn EXCEPT ![s] = {}] /\ joined' \subseteq joined
    BY <1>6 DEF on_close
  <2>2. joined \subseteq Players /\ drawn \in [Players -> SUBSET Foods]
    BY DEF TypeOK
  <2>3. \A k \in joined' : drawn'[k] \subseteq Lying \/ (k \in joined /\ drawn'[k] = drawn[k])
    BY <2>1, <2>2
  <2> QED
    BY <1>6, <1>a, <2>3 DEF on_close, timerVars
<1>7. ASSUME NEW s \in Snakes, Rest(s) PROVE GhostInv'
  BY <1>7, <1>a DEF Rest, worldVars, clientVars
<1>8. ASSUME NEW s \in Snakes, NEW h \in Spots, Move(s, h) PROVE GhostInv'
  <2>1. PICK got, fs : Moved(s, got, fs)
    BY <1>8, MovedLists
  <2> DEFINE n == Len(changes)
  <2>2. /\ n \in Nat /\ Len(changes') = n + 1
        /\ spawn'[changes'[n + 1]] = fs
        /\ \A i \in 1 .. n : spawn'[changes'[i]] = spawn[changes[i]]
        /\ \A i \in 1 .. n + 1 : \A f :
             EatenFrom(i, f)' <=> EatenFrom(i, f) \/ f \in Elements(got)
    BY <2>1 DEF Moved
  <2>3. Elements(fs) \subseteq Lying' /\ Lying \subseteq Lying' \cup Elements(got)
    BY <2>1, FedLying DEF Moved
  <2>4. joined' = joined /\ drawn' = drawn
    BY <1>8 DEF Move, clientVars
  <2>5. /\ \A i \in 1 .. n : \A f \in Elements(spawn[changes[i]]) :
             f \in Lying \/ EatenFrom(i + 1, f)
        /\ \A k \in joined : \A f \in drawn[k] : f \in Lying \/ EatenFrom(1, f)
    BY DEF GhostInv
  <2> HIDE DEF n
  <2>6. ASSUME NEW i \in 1 .. n + 1, NEW f \in Elements(spawn'[changes'[i]])
        PROVE  f \in Lying' \/ EatenFrom(i + 1, f)'
    <3>1. CASE i = n + 1
      BY <2>2, <2>3, <3>1
    <3>2. CASE i # n + 1
      <4>1. i \in 1 .. n /\ i + 1 \in 1 .. n + 1
        BY <2>2, <3>2
      <4>2. f \in Lying \/ EatenFrom(i + 1, f)
        BY <2>2, <2>5, <4>1
      <4> QED
        BY <2>2, <2>3, <4>1, <4>2
    <3> QED
      BY <3>1, <3>2
  <2>7. ASSUME NEW k \in joined, NEW f \in drawn[k]
        PROVE  f \in Lying' \/ EatenFrom(1, f)'
    <3>1. 1 \in 1 .. n + 1
      BY <2>2
    <3> QED
      BY <2>2, <2>3, <2>5, <3>1
  <2> QED
    BY <2>2, <2>4, <2>6, <2>7 DEF GhostInv
<1>9. ASSUME NEW s \in Snakes, BroadcastDeath(s) \/ BroadcastMove(s), Lying \subseteq Lying',
             joined' = joined,
             \A k \in joined : \A f \in drawn'[k] :
               f \in Lying' \/ f \in (drawn[k] \ Elements(eaten[s])) \cup Elements(spawn[s])
      PROVE  GhostInv'
  <2> DEFINE n == Len(changes)
  <2>1. Sent(s)
    BY <1>9, SentLists
  <2>2. /\ n \in Nat \ {0} /\ Len(changes') = n - 1 /\ changes[1] = s
        /\ \A i \in 1 .. n - 1 : spawn'[changes'[i]] = spawn[changes[i + 1]]
        /\ \A i \in Nat \ {0} : \A f : EatenFrom(i, f)' <=> EatenFrom(i + 1, f)
        /\ \A f : EatenFrom(1, f) <=> f \in Elements(eaten[s]) \/ EatenFrom(2, f)
    BY <2>1 DEF Sent
  <2>3. /\ \A i \in 1 .. n : \A f \in Elements(spawn[changes[i]]) :
             f \in Lying \/ EatenFrom(i + 1, f)
        /\ \A k \in joined : \A f \in drawn[k] : f \in Lying \/ EatenFrom(1, f)
    BY DEF GhostInv
  <2> HIDE DEF n
  <2>4. ASSUME NEW i \in 1 .. n - 1, NEW f \in Elements(spawn'[changes'[i]])
        PROVE  f \in Lying' \/ EatenFrom(i + 1, f)'
    <3>1. i + 1 \in 1 .. n /\ i + 1 \in Nat \ {0}
      BY <2>2
    <3>2. f \in Lying \/ EatenFrom((i + 1) + 1, f)
      BY <2>2, <2>3, <3>1
    <3> QED
      BY <1>9, <2>2, <3>1, <3>2
  <2>5. ASSUME NEW k \in joined, NEW f \in drawn'[k]
        PROVE  f \in Lying' \/ EatenFrom(1, f)'
    <3>1. 1 \in 1 .. n /\ 1 \in Nat \ {0} /\ 1 + 1 = 2
      BY <2>2
    <3>2. CASE f \in drawn[k] \ Elements(eaten[s])
      BY <1>9, <2>2, <2>3, <3>1, <3>2
    <3>3. CASE f \in Elements(spawn[s])
      <4>1. f \in Lying \/ EatenFrom(1 + 1, f)
        BY <2>2, <2>3, <3>1, <3>3
      <4> QED
        BY <1>9, <2>2, <3>1, <4>1
    <3> QED
      BY <1>9, <3>2, <3>3
  <2> QED
    BY <1>9, <2>2, <2>4, <2>5 DEF GhostInv
<1>10. ASSUME NEW s \in Snakes, BroadcastDeath(s) PROVE GhostInv'
  <2>1. Lying' = Lying
    BY <1>10 DEF BroadcastDeath, Lying
  <2>2. joined \subseteq Players /\ joined' = joined
    BY <1>10 DEF TypeOK, BroadcastDeath
  <2>3. \A k \in joined : drawn'[k] = (drawn[k] \ Elements(eaten[s])) \cup Elements(spawn[s])
    BY <1>10, <2>2, SendFoodUpdateIs DEF BroadcastDeath, DeathSent
  <2> QED
    BY <1>9, <1>10, <2>1, <2>2, <2>3
<1>11. ASSUME NEW s \in Snakes, BroadcastMove(s) PROVE GhostInv'
  <2>1. Lying' = Lying
    BY <1>11 DEF BroadcastMove, Lying
  <2>2. joined \subseteq Players /\ joined' = joined
    BY <1>11 DEF TypeOK, BroadcastMove
  <2>3. ASSUME NEW k \in joined, NEW f \in drawn'[k]
        PROVE  f \in Lying \/ f \in (drawn[k] \ Elements(eaten[s])) \cup Elements(spawn[s])
    <3>1. drawn'[k] = IF k = s THEN SendPOVUpdateTo(SendFoodUpdate(drawn[k], s), s)
                               ELSE SendFoodUpdate(drawn[k], s)
      BY <1>11, <2>2 DEF BroadcastMove
    <3>2. ASSUME k = s PROVE came[s] \subseteq GridSectors
      BY <2>2, <3>2, VisibleAssumption DEF TypeOK
    <3>3. ASSUME k = s, NEW d
          PROVE  SendPOVUpdateTo(d, s) \subseteq d \cup Lying
      BY <3>2, <3>3 DEF SendPOVUpdateTo, AfterSet, AfterRemove, Lying
    <3> QED
      BY <3>1, <3>3, SendFoodUpdateIs
  <2> QED
    BY <1>9, <1>11, <2>1, <2>2, <2>3
<1>12. ASSUME NEW s \in Snakes, NEW p \in Spots, on_dead_food_spawn(s, p) PROVE GhostInv'
  <2>1. PICK fs : Parted(s, fs)
    BY <1>12, PartedLists
  <2> DEFINE n == Len(changes)
  <2>2. /\ n \in Nat \ {0} /\ changes[1] = s /\ changes' = changes /\ eaten' = eaten
        /\ Elements(spawn'[s]) = Elements(spawn[s]) \cup Elements(fs)
        /\ \A i \in 2 .. n : spawn'[changes[i]] = spawn[changes[i]]
    BY <2>1 DEF Parted
  <2>3. Elements(fs) \subseteq Lying' /\ Lying \subseteq Lying'
    <3>1. Elements(<<>>) = {}
      BY DEF Elements
    <3> QED
      BY <2>1, <3>1, FedLying DEF Parted
  <2>4. \A i, f : EatenFrom(i, f)' <=> EatenFrom(i, f)
    BY <2>2 DEF EatenFrom, From
  <2>5. joined' = joined /\ drawn' = drawn
    BY <1>12 DEF on_dead_food_spawn, clientVars
  <2>6. /\ \A i \in 1 .. n : \A f \in Elements(spawn[changes[i]]) :
             f \in Lying \/ EatenFrom(i + 1, f)
        /\ \A k \in joined : \A f \in drawn[k] : f \in Lying \/ EatenFrom(1, f)
    BY DEF GhostInv
  <2> HIDE DEF n
  <2>7. ASSUME NEW i \in 1 .. n, NEW f \in Elements(spawn'[changes[i]])
        PROVE  f \in Lying' \/ EatenFrom(i + 1, f)'
    <3>1. CASE i = 1
      BY <2>2, <2>3, <2>4, <2>6, <3>1
    <3>2. CASE i # 1
      <4>1. i \in 2 .. n
        BY <2>2, <3>2
      <4> QED
        BY <2>2, <2>3, <2>4, <2>6, <4>1
    <3> QED
      BY <3>1, <3>2
  <2> QED
    BY <2>2, <2>3, <2>4, <2>5, <2>6, <2>7 DEF GhostInv, n
<1> QED
  BY <1>1, <1>2, <1>3, <1>4, <1>5, <1>6, <1>7, <1>8, <1>10, <1>11, <1>12 DEF Next

-----------------------------------------------------------------------------
(* The views *)

LEMMA InitView == Init => ViewInv
<1>1. Elements(<<>>) = {}
  BY DEF Elements
<1> QED
  BY <1>1, SnakesAssumption DEF Init, ViewInv

LEMMA StepView ==
  TypeOK /\ FoodSorted /\ ListsInv /\ ViewInv /\ [Next]_vars => ViewInv'
<1> SUFFICES ASSUME TypeOK, FoodSorted, ListsInv, ViewInv, [Next]_vars
             PROVE  ViewInv'
  OBVIOUS
<1>a. /\ view \in [Players -> SUBSET Visible]
      /\ came \in [Players -> SUBSET Visible] /\ left \in [Players -> SUBSET Visible]
  BY DEF TypeOK
<1>b. Elements(<<>>) = {}
  BY DEF Elements
<1>1. CASE UNCHANGED vars
  BY <1>1 DEF vars, worldVars, timerVars, clientVars, ViewInv
<1>2. CASE on_timer
  BY <1>2 DEF on_timer, worldVars, clientVars, ViewInv
<1>3. CASE CheckSnakeBounds
  BY <1>3 DEF CheckSnakeBounds, worldVars, clientVars, ViewInv
<1>4. CASE BroadcastDone
  BY <1>4 DEF BroadcastDone, worldVars, clientVars, ViewInv
<1>5. ASSUME NEW s \in Players, on_open(s) PROVE ViewInv'
  <2>1. /\ s \notin joined /\ joined' = joined \cup {s} /\ alive' = alive \cup {s}
        /\ came' = came /\ left' = left /\ todo' = todo /\ changes' = changes
        /\ \E V \in SUBSET Visible : view' = [view EXCEPT ![s] = V]
    BY <1>5 DEF on_open, timerVars
  <2>2. came[s] = {} /\ left[s] = {}
    BY <2>1 DEF ViewInv
  <2>3. \A k \in Players : k # s => view'[k] = view[k]
    BY <1>a, <2>1
  <2> QED
    BY <2>1, <2>2, <2>3 DEF ViewInv
<1>6. ASSUME NEW s \in Players, on_close(s) PROVE ViewInv'
  <2>1. /\ joined' = joined \ {s} /\ alive' = alive \ {s} /\ phase = "idle"
        /\ view' = [view EXCEPT ![s] = {}]
        /\ came' = [came EXCEPT ![s] = {}] /\ left' = [left EXCEPT ![s] = {}]
        /\ todo' = todo /\ changes' = changes
    BY <1>6 DEF on_close, timerVars
  <2>2. /\ came'[s] = {} /\ left'[s] = {}
        /\ \A k \in Players : k # s => /\ view'[k] = view[k]
                                       /\ came'[k] = came[k] /\ left'[k] = left[k]
    BY <1>a, <2>1
  <2>3. todo = {}
    BY <2>1 DEF ListsInv
  <2> QED
    BY <2>1, <2>2, <2>3 DEF ViewInv
<1>7. ASSUME NEW s \in Snakes, Rest(s) PROVE ViewInv'
  BY <1>7 DEF Rest, worldVars, clientVars, ViewInv
<1>8. ASSUME NEW s \in Snakes, NEW h \in Spots, Move(s, h) PROVE ViewInv'
  <2>1. /\ s \in todo /\ todo' = todo \ {s} /\ alive' = alive /\ joined' = joined
    BY <1>8 DEF Move, clientVars
  <2>2. s \notin Elements(changes) /\ Elements(changes') = Elements(changes) \cup {s}
    <3>1. PICK got, fs : Moved(s, got, fs)
      BY <1>8, MovedLists
    <3> QED
      BY <3>1 DEF Moved
  <2>3. \A k \in Players : k # s => /\ view'[k] = view[k]
                                    /\ came'[k] = came[k] /\ left'[k] = left[k]
    BY <1>8, <1>a DEF Move
  <2>4. ASSUME s \in Players PROVE s \in joined /\ left'[s] \cap view'[s] = {}
    <3>1. s \in joined /\ left[s] = {}
      BY <2>1, <2>2, <2>4 DEF ViewInv
    <3>2. PICK V \in SUBSET Visible : /\ view' = [view EXCEPT ![s] = V]
                                      /\ left' = [left EXCEPT ![s] = @ \cup (view[s] \ V)]
      BY <1>8, <2>4 DEF Move
    <3>3. view'[s] = V /\ left'[s] = left[s] \cup (view[s] \ V)
      BY <1>a, <2>4, <3>2
    <3> QED
      BY <3>1, <3>3
  <2> QED
    BY <2>1, <2>2, <2>3, <2>4 DEF ViewInv
<1>9. ASSUME NEW s \in Snakes, BroadcastDeath(s) PROVE ViewInv'
  <2>1. Elements(changes') = Elements(changes) \ {s}
    BY <1>9, SentLists DEF Sent
  <2>2. /\ view' = view /\ came' = came /\ left' = left /\ todo' = todo /\ joined' = joined
        /\ alive' = alive \ {s} /\ phase = "send"
    BY <1>9 DEF BroadcastDeath, Dies, MarkDead
  <2>3. todo = {}
    BY <2>2 DEF ListsInv
  <2> QED
    BY <2>1, <2>2, <2>3 DEF ViewInv
<1>10. ASSUME NEW s \in Snakes, BroadcastMove(s) PROVE ViewInv'
  <2>1. Elements(changes') = Elements(changes) \ {s}
    BY <1>10, SentLists DEF Sent
  <2>2. view' = view /\ todo' = todo /\ joined' = joined /\ alive' = alive
    BY <1>10 DEF BroadcastMove
  <2>3. /\ s \in Players => came'[s] = {} /\ left'[s] = {}
        /\ \A k \in Players : k # s => came'[k] = came[k] /\ left'[k] = left[k]
    BY <1>10, <1>a DEF BroadcastMove
  <2> QED
    BY <2>1, <2>2, <2>3 DEF ViewInv
<1>11. ASSUME NEW s \in Snakes, NEW p \in Spots, on_dead_food_spawn(s, p) PROVE ViewInv'
  BY <1>11 DEF on_dead_food_spawn, timerVars, clientVars, ViewInv
<1> QED
  BY <1>1, <1>2, <1>3, <1>4, <1>5, <1>6, <1>7, <1>8, <1>9, <1>10, <1>11 DEF Next

-----------------------------------------------------------------------------
(* Food in view is drawn *)

\* A position with two foods is one where food lies.
LEMMA DoubledLies ==
  ASSUME NEW lists, NEW f \in Doubled(lists)
  PROVE  \E c \in GridSectors : f \in Elements(lists[c])
BY DEF Doubled

LEMMA InitTwin == Init => TwinInv
BY DEF Init, TwinInv

\* What a broadcast of s leaves of what client k knows: food that is not in
\* twins and that k drew, or that s dropped, is drawn after SendFoodUpdate, or
\* dropped by a snake that comes later.
LEMMA SentKnown ==
  ASSUME TypeOK, TwinInv, NEW s \in Snakes, Sent(s), NEW k \in joined,
         NEW f \in Lying \ twins, f \in drawn[k] \/ SpawnedFrom(1, f)
  PROVE  f \in SendFoodUpdate(drawn[k], s) \/ SpawnedFrom(1, f)'
<1>1. /\ SpawnedFrom(1, f) <=> f \in Elements(spawn[s]) \/ SpawnedFrom(2, f)
      /\ SpawnedFrom(1, f)' <=> SpawnedFrom(2, f)
      /\ Len(changes) \in Nat \ {0} /\ changes[1] = s
  <2>1. 1 \in Nat \ {0} /\ 1 + 1 = 2
    OBVIOUS
  <2> QED
    BY <2>1 DEF Sent
<1>2. f \in Elements(eaten[s]) => SpawnedFrom(1, f)
  <2>1. 1 \in 1 .. Len(changes)
    BY <1>1
  <2> QED
    BY <1>1, <2>1 DEF TwinInv
<1>3. SendFoodUpdate(drawn[k], s) = (drawn[k] \ Elements(eaten[s])) \cup Elements(spawn[s])
  BY SendFoodUpdateIs
<1> QED
  BY <1>1, <1>2, <1>3

LEMMA StepTwin ==
  TypeOK /\ FoodSorted /\ ListsInv /\ ViewInv /\ TwinInv /\ [Next]_vars => TwinInv'
<1> SUFFICES ASSUME TypeOK, FoodSorted, ListsInv, ViewInv, TwinInv, [Next]_vars
             PROVE  TwinInv'
  OBVIOUS
<1>a. /\ joined \subseteq Players /\ drawn \in [Players -> SUBSET Foods]
      /\ view \in [Players -> SUBSET Visible]
      /\ came \in [Players -> SUBSET Visible] /\ left \in [Players -> SUBSET Visible]
  BY DEF TypeOK
<1>b. Elements(<<>>) = {}
  BY DEF Elements
<1>c. /\ \A f : f \in Lying <=> \E c \in GridSectors : f \in Elements(food[c])
      /\ \A f : f \in Lying' <=> \E c \in GridSectors : f \in Elements(food'[c])
  BY DEF Lying
<1>d. \A k \in Players : view[k] \subseteq GridSectors
  BY <1>a, VisibleAssumption
<1>e. ASSUME UNCHANGED <<food, eaten, spawn, changes, twins>>,
             \A k \in joined' \cap alive' : \A c \in view'[k] :
               \/ Elements(food[c]) \subseteq drawn'[k]
               \/ /\ k \in joined \cap alive /\ c \in view[k]
                  /\ drawn'[k] = drawn[k] /\ came'[k] = came[k]
      PROVE  TwinInv'
  <2>1. Lying' = Lying
    BY <1>e DEF Lying
  <2>2. \A i, f : SpawnedFrom(i, f)' <=> SpawnedFrom(i, f)
    BY <1>e DEF SpawnedFrom, From
  <2>3. Doubled(food)' = Doubled(food)
    BY <1>e
  <2>4. ASSUME NEW k \in joined' \cap alive', NEW c \in view'[k], NEW f \in Elements(food[c]),
               SectorOf(f) = c, f \notin twins
        PROVE  f \in drawn'[k] \/ c \in came'[k] \/ SpawnedFrom(1, f)'
    <3>1. CASE Elements(food[c]) \subseteq drawn'[k]
      BY <2>4, <3>1
    <3>2. CASE /\ k \in joined \cap alive /\ c \in view[k]
               /\ drawn'[k] = drawn[k] /\ came'[k] = came[k]
      BY <2>2, <2>4, <3>2 DEF TwinInv, Known
    <3> QED
      BY <1>e, <3>1, <3>2
  <2> QED
    BY <1>e, <2>1, <2>2, <2>3, <2>4 DEF TwinInv, Known
<1>1. CASE UNCHANGED vars
  BY <1>1, <1>e DEF vars, worldVars, timerVars, clientVars
<1>2. CASE on_timer
  BY <1>2, <1>e DEF on_timer, worldVars, clientVars
<1>3. CASE CheckSnakeBounds
  BY <1>3, <1>e DEF CheckSnakeBounds, worldVars, clientVars
<1>4. CASE BroadcastDone
  BY <1>4, <1>e DEF BroadcastDone, worldVars, clientVars
<1>5. ASSUME NEW s \in Players, on_open(s) PROVE TwinInv'
  <2>1. PICK V \in SUBSET Visible : /\ view' = [view EXCEPT ![s] = V]
                                    /\ drawn' = [drawn EXCEPT ![s] = AfterSet({}, V)]
    BY <1>5 DEF on_open
  <2>2. /\ view'[s] = V /\ drawn'[s] = AfterSet({}, V)
        /\ \A k \in Players : k # s => view'[k] = view[k] /\ drawn'[k] = drawn[k]
    BY <1>a, <2>1
  <2>3. \A c \in V : Elements(food[c]) \subseteq AfterSet({}, V)
    BY DEF AfterSet
  <2>4. /\ joined' = joined \cup {s} /\ alive' = alive \cup {s}
        /\ UNCHANGED <<food, eaten, spawn, changes, twins, came>>
    BY <1>5 DEF on_open, timerVars
  <2>5. ASSUME NEW k \in joined' \cap alive', NEW c \in view'[k]
        PROVE  \/ Elements(food[c]) \subseteq drawn'[k]
               \/ /\ k \in joined \cap alive /\ c \in view[k]
                  /\ drawn'[k] = drawn[k] /\ came'[k] = came[k]
    BY <1>a, <2>2, <2>3, <2>4
  <2> QED
    BY <1>e, <2>4, <2>5
<1>6. ASSUME NEW s \in Players, on_close(s) PROVE TwinInv'
  <2>1. /\ joined' = joined \ {s} /\ alive' = alive \ {s}
        /\ view' = [view EXCEPT ![s] = {}] /\ came' = [came EXCEPT ![s] = {}]
        /\ drawn' = [drawn EXCEPT ![s] = {}]
        /\ UNCHANGED <<food, eaten, spawn, changes, twins>>
    BY <1>6 DEF on_close, timerVars
  <2>2. \A k \in Players : k # s => /\ view'[k] = view[k] /\ came'[k] = came[k]
                                    /\ drawn'[k] = drawn[k]
    BY <1>a, <2>1
  <2> QED
    BY <1>a, <1>e, <2>1, <2>2
<1>7. ASSUME NEW s \in Snakes, Rest(s) PROVE TwinInv'
  BY <1>7, <1>e DEF Rest, worldVars, clientVars
<1>8. ASSUME NEW s \in Snakes, NEW h \in Spots, Move(s, h) PROVE TwinInv'
  <2>1. PICK got, fs : Moved(s, got, fs)
    BY <1>8, MovedLists
  <2> DEFINE n == Len(changes)
  <2>2. /\ n \in Nat /\ Len(changes') = n + 1
        /\ eaten'[changes'[n + 1]] = got
        /\ \A i \in 1 .. n : eaten'[changes'[i]] = eaten[changes[i]]
        /\ \A i \in 1 .. n + 1 : \A f :
             SpawnedFrom(i, f)' <=> SpawnedFrom(i, f) \/ f \in Elements(fs)
    BY <2>1 DEF Moved
  <2>3. /\ Lying' \subseteq Lying \cup Elements(fs)
        /\ Elements(got) \cap Lying' \subseteq Doubled(food) \cup Elements(fs)
    BY <2>1, FedLying DEF Moved
  <2>4. \A c \in GridSectors : Elements(food'[c]) \subseteq Elements(food[c]) \cup Elements(fs)
    BY <2>1 DEF Moved, Fed
  <2>5. /\ joined' = joined /\ alive' = alive /\ drawn' = drawn
        /\ twins' = (twins \cup Doubled(food')) \cap Lying'
    BY <1>8 DEF Move, clientVars
  <2> HIDE DEF n
  <2>6. \A f \in Lying' \ twins' : f \in Lying \ twins \/ f \in Elements(fs)
    BY <2>3, <2>5
  <2>7. Doubled(food') \subseteq twins'
    BY <1>c, <2>5, DoubledLies
  <2>8. ASSUME NEW j \in 1 .. n + 1, NEW f \in Elements(eaten'[changes'[j]]),
               f \in Lying' \ twins'
        PROVE  SpawnedFrom(j, f)'
    <3>1. CASE j = n + 1
      <4>1. f \notin Doubled(food)
        BY <2>5, <2>8 DEF TwinInv
      <4> QED
        BY <2>2, <2>3, <2>8, <3>1, <4>1
    <3>2. CASE j # n + 1
      <4>1. j \in 1 .. n
        BY <2>2, <3>2
      <4>2. f \in Lying \ twins => SpawnedFrom(j, f)
        BY <2>2, <4>1 DEF TwinInv, n
      <4> QED
        BY <2>2, <2>6, <2>8, <4>2
    <3> QED
      BY <3>1, <3>2
  <2>9. ASSUME NEW k \in joined \cap alive, NEW c \in view'[k], NEW f \in Elements(food'[c]),
               SectorOf(f) = c, f \notin twins'
        PROVE  f \in drawn[k] \/ c \in came'[k] \/ SpawnedFrom(1, f)'
    <3>1. k \in Players
      BY <1>a
    <3>2. /\ view'[k] \subseteq Visible /\ came[k] \subseteq came'[k]
          /\ c \in view[k] \/ c \in came'[k]
      <4>1. CASE k = s
        <5>1. PICK V \in SUBSET Visible : /\ view' = [view EXCEPT ![s] = V]
                                          /\ came' = [came EXCEPT ![s] = @ \cup (V \ view[s])]
          BY <1>8, <3>1, <4>1 DEF Move
        <5>2. view'[k] = V /\ came'[k] = came[k] \cup (V \ view[k])
          BY <1>a, <3>1, <4>1, <5>1
        <5> QED
          BY <5>2
      <4>2. CASE k # s
        <5>1. view'[k] = view[k] /\ came'[k] = came[k]
          BY <1>8, <1>a, <3>1, <4>2 DEF Move
        <5> QED
          BY <1>a, <3>1, <5>1
      <4> QED
        BY <4>1, <4>2
    <3>3. c \in GridSectors /\ f \in Lying'
      BY <1>c, <3>2, VisibleAssumption
    <3>4. 1 \in 1 .. n + 1
      BY <2>2
    <3>5. CASE f \in Elements(fs)
      BY <2>2, <3>4, <3>5
    <3>6. CASE f \notin Elements(fs)
      <4>1. f \in Elements(food[c]) /\ f \notin twins
        BY <2>4, <2>6, <2>9, <3>3, <3>6
      <4>2. c \in view[k] => Known(k, c, f)
        BY <2>9, <4>1 DEF TwinInv
      <4> QED
        BY <2>2, <3>2, <3>4, <4>2 DEF Known
    <3> QED
      BY <3>5, <3>6
  <2> QED
    BY <2>2, <2>5, <2>7, <2>8, <2>9 DEF TwinInv, Known
<1>9. ASSUME NEW s \in Snakes, BroadcastDeath(s) \/ BroadcastMove(s),
             food' = food, twins' = twins,
             \A k \in joined' \cap alive' : \A c \in view[k] : \A f \in Spots :
               SectorOf(f) = c =>
                 /\ f \in SendFoodUpdate(drawn[k], s) => f \in drawn'[k]
                 /\ c \in came[k] /\ f \in Elements(food[c]) => f \in drawn'[k] \/ c \in came'[k],
             joined' = joined, alive' \subseteq alive, view' = view
      PROVE  TwinInv'
  <2>1. Sent(s)
    BY <1>9, SentLists
  <2> DEFINE n == Len(changes)
  <2>2. /\ n \in Nat \ {0} /\ Len(changes') = n - 1
        /\ \A i \in 1 .. n - 1 : eaten'[changes'[i]] = eaten[changes[i + 1]]
        /\ \A i \in Nat \ {0} : \A f : SpawnedFrom(i, f)' <=> SpawnedFrom(i + 1, f)
    BY <2>1 DEF Sent
  <2>3. Lying' = Lying
    BY <1>9 DEF Lying
  <2> HIDE DEF n
  <2>4. ASSUME NEW j \in 1 .. n - 1, NEW f \in Elements(eaten'[changes'[j]]),
               f \in Lying \ twins
        PROVE  SpawnedFrom(j, f)'
    <3>1. j \in Nat \ {0} /\ j + 1 \in 1 .. n
      BY <2>2
    <3>2. f \in Elements(eaten[changes[j + 1]])
      BY <2>2
    <3>3. SpawnedFrom(j + 1, f)
      BY <2>4, <3>1, <3>2 DEF TwinInv, n
    <3> QED
      BY <2>2, <3>1, <3>3
  <2>5. ASSUME NEW k \in joined' \cap alive', NEW c \in view[k], NEW f \in Elements(food[c]),
               SectorOf(f) = c, f \notin twins
        PROVE  f \in drawn'[k] \/ c \in came'[k] \/ SpawnedFrom(1, f)'
    <3>1. k \in joined \cap alive /\ k \in Players /\ c \in GridSectors
      BY <1>9, <1>a, <1>d
    <3>2. f \in Spots /\ f \in Lying \ twins
      <4>1. food[c] \in Seq(Spots)
        BY <3>1 DEF TypeOK, Foods
      <4> QED
        BY <1>c, <2>5, <3>1, <4>1, SeqOfElements
    <3>3. Known(k, c, f)
      BY <2>5, <3>1 DEF TwinInv
    <3>4. CASE c \in came[k]
      BY <1>9, <2>5, <3>2, <3>4
    <3>5. CASE f \in drawn[k] \/ SpawnedFrom(1, f)
      <4>1. f \in SendFoodUpdate(drawn[k], s) \/ SpawnedFrom(1, f)'
        BY <2>1, <3>1, <3>2, <3>5, SentKnown
      <4> QED
        BY <1>9, <2>5, <3>2, <4>1
    <3> QED
      BY <3>3, <3>4, <3>5 DEF Known
  <2>6. Doubled(food') \subseteq twins'
    BY <1>9 DEF TwinInv
  <2> QED
    BY <1>9, <2>2, <2>3, <2>4, <2>5, <2>6 DEF TwinInv, Known
<1>10. ASSUME NEW s \in Snakes, BroadcastDeath(s) PROVE TwinInv'
  <2>1. /\ joined' = joined /\ alive' = alive \ {s} /\ view' = view /\ came' = came
        /\ food' = food /\ twins' = twins
    BY <1>10 DEF BroadcastDeath, MarkDead
  <2>2. \A k \in joined : drawn'[k] = SendFoodUpdate(drawn[k], s)
    BY <1>10, <1>a DEF BroadcastDeath, DeathSent
  <2>3. \A k \in joined' \cap alive' : \A c \in view[k] : \A f \in Spots :
          SectorOf(f) = c =>
            /\ f \in SendFoodUpdate(drawn[k], s) => f \in drawn'[k]
            /\ c \in came[k] /\ f \in Elements(food[c]) => f \in drawn'[k] \/ c \in came'[k]
    BY <2>1, <2>2
  <2>4. alive' \subseteq alive
    BY <2>1
  <2> QED
    BY <1>9, <1>10, <2>1, <2>3, <2>4
<1>11. ASSUME NEW s \in Snakes, BroadcastMove(s) PROVE TwinInv'
  <2>1. /\ joined' = joined /\ alive' = alive /\ view' = view
        /\ food' = food /\ twins' = twins
    BY <1>11 DEF BroadcastMove
  <2>3. ASSUME NEW k \in joined' \cap alive', NEW c \in view[k], NEW f \in Spots,
               SectorOf(f) = c
        PROVE  /\ f \in SendFoodUpdate(drawn[k], s) => f \in drawn'[k]
               /\ c \in came[k] /\ f \in Elements(food[c]) => f \in drawn'[k] \/ c \in came'[k]
    <3>1. k \in joined \cap alive /\ k \in Players
      BY <1>a, <2>1
    <3>2. drawn'[k] = IF k = s THEN SendPOVUpdateTo(SendFoodUpdate(drawn[k], s), s)
                               ELSE SendFoodUpdate(drawn[k], s)
      BY <1>11, <3>1 DEF BroadcastMove
    <3>3. CASE k # s
      <4>1. came'[k] = came[k]
        BY <1>11, <1>a, <3>1, <3>3 DEF BroadcastMove
      <4> QED
        BY <3>2, <3>3, <4>1
    <3>4. CASE k = s
      <4>1. c \notin left[s]
        BY <3>1, <3>4 DEF ViewInv
      <4>2. ASSUME NEW d
            PROVE  /\ f \in d => f \in SendPOVUpdateTo(d, s)
                   /\ c \in came[s] /\ f \in Elements(food[c]) => f \in SendPOVUpdateTo(d, s)
        BY <2>3, <4>1 DEF SendPOVUpdateTo, AfterSet, AfterRemove
      <4> QED
        BY <3>2, <3>4, <4>2
    <3> QED
      BY <3>3, <3>4
  <2>4. alive' \subseteq alive
    BY <2>1
  <2> QED
    BY <1>9, <1>11, <2>1, <2>3, <2>4
<1>12. ASSUME NEW s \in Snakes, NEW p \in Spots, on_dead_food_spawn(s, p) PROVE TwinInv'
  <2>1. PICK fs : Parted(s, fs)
    BY <1>12, PartedLists
  <2> DEFINE n == Len(changes)
  <2>2. /\ n \in Nat \ {0} /\ changes[1] = s /\ changes' = changes /\ eaten' = eaten
        /\ \A i \in 2 .. n : changes[i] \in Snakes \ {s}
        /\ \A i \in Nat \ {0} : \A f : SpawnedFrom(i, f) => SpawnedFrom(i, f)'
        /\ \A f \in Elements(fs) : SpawnedFrom(1, f)'
        /\ twins' = twins \cup Doubled(food') \cup
                      {f \in Elements(fs) : \E t \in Snakes \ {s} : f \in Elements(eaten[t])}
    BY <2>1 DEF Parted
  <2>3. /\ joined' = joined /\ alive' = alive /\ drawn' = drawn
        /\ view' = view /\ came' = came
    BY <1>12 DEF on_dead_food_spawn, clientVars
  <2>4. \A c \in GridSectors : Elements(food'[c]) \subseteq Elements(food[c]) \cup Elements(fs)
    BY <2>1 DEF Parted, Fed
  <2>5. /\ twins \subseteq twins' /\ Doubled(food') \subseteq twins'
        /\ \A f \in Elements(fs) \ twins' : \A t \in Snakes \ {s} : f \notin Elements(eaten[t])
    BY <2>2
  <2>6. \A f \in Lying' : f \in Lying \/ f \in Elements(fs)
    BY <1>c, <2>4
  <2> HIDE DEF n
  <2>7. ASSUME NEW j \in 1 .. n, NEW f \in Elements(eaten[changes[j]]), f \in Lying' \ twins'
        PROVE  SpawnedFrom(j, f)'
    <3>1. j \in Nat \ {0}
      BY <2>2
    <3>2. CASE f \in Lying
      <4>1. SpawnedFrom(j, f)
        BY <2>5, <2>7, <3>2 DEF TwinInv, n
      <4> QED
        BY <2>2, <3>1, <4>1
    <3>3. CASE f \in Elements(fs)
      <4>1. j = 1
        <5>1. j # 1 => j \in 2 .. n
          BY <2>2
        <5> QED
          BY <2>2, <2>5, <2>7, <3>3, <5>1
      <4> QED
        BY <2>2, <3>3, <4>1
    <3> QED
      BY <2>6, <2>7, <3>2, <3>3
  <2>8. ASSUME NEW k \in joined \cap alive, NEW c \in view[k], NEW f \in Elements(food'[c]),
               SectorOf(f) = c, f \notin twins'
        PROVE  f \in drawn[k] \/ c \in came[k] \/ SpawnedFrom(1, f)'
    <3>1. c \in GridSectors
      BY <1>a, <1>d
    <3>2. CASE f \in Elements(fs)
      BY <2>2, <3>2
    <3>3. CASE f \in Elements(food[c])
      <4>1. Known(k, c, f)
        BY <2>5, <2>8, <3>3 DEF TwinInv
      <4>2. 1 \in Nat \ {0}
        OBVIOUS
      <4> QED
        BY <2>2, <4>1, <4>2 DEF Known
    <3> QED
      BY <2>4, <3>1, <3>2, <3>3
  <2> QED
    BY <2>2, <2>3, <2>5, <2>7, <2>8 DEF TwinInv, Known, n
<1> QED
  BY <1>1, <1>2, <1>3, <1>4, <1>5, <1>6, <1>7, <1>8, <1>10, <1>11, <1>12 DEF Next

-----------------------------------------------------------------------------
(* The theorems *)

\* The inductive invariant.
FoodInv ==
  /\ TypeOK /\ FoodSorted /\ ListsInv
  /\ GhostInv /\ ViewInv /\ TwinInv

LEMMA FoodInvHolds == Spec => []FoodInv
<1>1. Init => FoodInv
  BY InitTypeOK, InitLists, InitGhost, InitView, InitTwin DEF FoodInv
<1>2. FoodInv /\ [Next]_vars => FoodInv'
  BY StepTypeOK, StepLists, StepGhost, StepView, StepTwin DEF FoodInv
<1> QED
  BY <1>1, <1>2, PTL DEF Spec

\* The types of the food lists, the snakes' vectors, the views and the clients'
\* screens, through every handler and every step of a tick; the snakes that die
\* are among those in World::changes.
THEOREM FoodTypeCorrect == Spec => []TypeOK
<1>1. FoodInv => TypeOK
  BY DEF FoodInv
<1> QED
  BY <1>1, FoodInvHolds, PTL

\* Sector::Insert and UpdateEatenFood keep Sector::food in the order of x that
\* the lower_bound of both relies on.
THEOREM FoodStaysSorted == Spec => []FoodSorted
<1>1. FoodInv => FoodSorted
  BY DEF FoodInv
<1> QED
  BY <1>1, FoodInvHolds, PTL

\* The two loops of Snake::UpdateEatenFood take food in reach only, none twice,
\* lose none, and stop at a food out of reach, on every list and for every head.
THEOREM ScansAreExact == Spec => []ScanIsExact
<1>1. FoodInv => ScanIsExact
  <2> SUFFICES ASSUME FoodInv,
                      NEW c \in {SectorOf(p) : p \in Spots}, NEW h \in Spots
               PROVE  LET r == UpdateEatenFood(food[c], h)
                          i == Cardinality({j \in 1 .. Len(r.list) : r.list[j][1] < h[1]})
                      IN  /\ \A j \in 1 .. Len(r.got) : InReach(r.got[j], h)
                          /\ i > 0 => ~InReach(r.list[i], h)
                          /\ i < Len(r.list) => ~InReach(r.list[i + 1], h)
                          /\ \A f \in Elements(food[c]) :
                               Times(food[c], f) = Times(r.list, f) + Times(r.got, f)
    BY DEF ScanIsExact
  <2> DEFINE v == food[c]
             r == UpdateEatenFood(v, h)
             left_of == {j \in 1 .. Len(r.list) : r.list[j][1] < h[1]}
  <2>1. c \in GridSectors /\ h[1] \in Int
    BY SpotIs
  <2>2. food \in Lists
    BY ListsAre DEF FoodInv, TypeOK
  <2>3. v \in Seq(Spots) /\ InOrder(v) /\ Elements(v) \subseteq Spots
    BY <2>1, <2>2, SeqOfElements DEF Lists
  <2>4. Scanned(r, v, h) /\ StopsLeft(r, h) /\ StopsRight(r, h)
    BY <2>3, UpdateEatenFoodIs
  <2> HIDE DEF v, r
  <2>5. /\ r.list \in Seq(Spots) /\ Len(r.list) \in Nat /\ r.i \in 0 .. Len(r.list)
        /\ \A j \in 1 .. Len(r.list) : r.list[j][1] \in Int
    <3>1. r.list \in Seq(Spots) /\ r.i \in Nat /\ r.i <= Len(r.list)
      BY <2>4 DEF Scanned, Scan
    <3>2. Len(r.list) \in Nat /\ \A j \in 1 .. Len(r.list) : r.list[j] \in Spots
      BY <3>1, LenProperties, ElementOfSeq
    <3> QED
      BY <3>1, <3>2, SpotIs
  <2>6. left_of = 1 .. r.i
    <3>1. /\ \A j \in 1 .. r.i : r.list[j][1] < h[1]
          /\ \A j \in r.i + 1 .. Len(r.list) : h[1] <= r.list[j][1]
      BY <2>4 DEF Scanned
    <3> QED
      BY <2>1, <2>5, <3>1
  <2> HIDE DEF left_of
  <2>7. Cardinality(left_of) = r.i
    <3>1. ASSUME NEW m \in Nat PROVE Cardinality(1 .. m) = m
      <4>1. Cardinality(1 .. m) = IF 1 > m THEN 0 ELSE m - 1 + 1
        BY FS_Interval
      <4> QED
        BY <4>1
    <3>2. r.i \in Nat
      BY <2>5
    <3> QED
      BY <2>6, <3>1, <3>2
  <2>8. /\ \A j \in 1 .. Len(r.got) : InReach(r.got[j], h)
        /\ \A f \in Spots : Times(v, f) = Times(r.list, f) + Times(r.got, f)
    BY <2>4 DEF Scanned
  <2>9. /\ r.i > 0 => ~InReach(r.list[r.i], h)
        /\ r.i < Len(r.list) => ~InReach(r.list[r.i + 1], h)
    BY <2>4 DEF StopsLeft, StopsRight
  <2> QED
    BY <2>3, <2>7, <2>8, <2>9 DEF v, r, left_of
<1> QED
  BY <1>1, FoodInvHolds, PTL

\* Between handlers no client draws food that is gone: SendFoodUpdate of the
\* snake that ate it has taken it off every screen, also when the snake died in
\* that tick (BroadcastUpdates), and none drew it again afterwards.
THEOREM NoGhosts == Spec => []NoGhostFood
<1>1. FoodInv => NoGhostFood
  BY NothingFrom DEF FoodInv, ListsInv, GhostInv, NoGhostFood
<1> QED
  BY <1>1, FoodInvHolds, PTL

\* Between handlers the client of a live snake draws the food of the sectors in
\* its view, whoever dropped it (SendFoodUpdate) and however the sector came
\* into view (on_open and SendPOVUpdateTo), but for the positions in twins.
THEOREM ViewsAreDrawn == Spec => []ViewedFoodDrawn
<1>1. FoodInv => ViewedFoodDrawn
  <2> SUFFICES ASSUME FoodInv, phase = "idle", NEW k \in joined \cap alive,
                      NEW c \in view[k], NEW f \in Elements(food[c]),
                      SectorOf(f) = c, f \notin twins
               PROVE  f \in drawn[k]
    BY DEF ViewedFoodDrawn
  <2>1. changes = <<>>
    BY DEF FoodInv, ListsInv
  <2>2. ~SpawnedFrom(1, f) /\ Elements(changes) = {}
    BY <2>1, NothingFrom DEF Elements
  <2>3. came[k] = {}
    BY <2>2 DEF FoodInv, ViewInv, TypeOK
  <2>4. Known(k, c, f)
    BY DEF FoodInv, TwinInv
  <2> QED
    BY <2>2, <2>3, <2>4 DEF Known
<1> QED
  BY <1>1, FoodInvHolds, PTL
=============================================================================
