-------------------------- MODULE SectorGridProofs --------------------------
(***************************************************************************)
(* What the loops over the sorted vectors of SectorGrid compute, for every *)
(* vector of every length: std::lower_bound, BoundBox::Insert, IsPresent   *)
(* and Sort, and the loops of UpdateBoxNewSectors and UpdateBoxOldSectors. *)
(*                                                                         *)
(* A loop is a recursive function over its rounds.  That there is such a   *)
(* function, and that an invariant of the loop holds in every round, are   *)
(* shown once, with a set for the states that satisfy the invariant.       *)
(***************************************************************************)
EXTENDS SectorGrid, SequenceTheorems, WellFoundedInduction, TLAPS

-----------------------------------------------------------------------------
(* Loops *)

LEMMA LeastNumber ==
  ASSUME NEW S \in SUBSET Nat, S # {}
  PROVE  \E m \in S : \A k \in S : m <= k
<1> DEFINE R == OpToRel(<, Nat)
<1>1. IsWellFoundedOn(R, Nat)
  BY NatLessThanWellFounded
<1>2. \A x, y \in Nat : x < y => <<x, y>> \in R
  BY DEF OpToRel
<1> HIDE DEF R
<1>3. \E x \in S : \A y \in S : ~ (<<y, x>> \in R)
  BY <1>1, WFMin
<1>4. PICK m \in S : \A y \in S : ~ (<<y, m>> \in R)
  BY <1>3
<1>5. ASSUME NEW k \in S PROVE m <= k
  <2>1. m \in Nat /\ k \in Nat
    OBVIOUS
  <2>2. ~ (k < m)
    BY <1>2, <1>4, <2>1
  <2> QED
    BY <2>1, <2>2
<1> QED
  BY <1>5

\* If the first state of a loop is good and every round leads from a good state
\* to a good one, all are good; which ones are good may depend on the round.
LEMMA LoopInvariant ==
  ASSUME NEW n \in Nat, NEW f, NEW Good,
         f[0] \in Good[0],
         \A k \in 1 .. n : f[k - 1] \in Good[k - 1] => f[k] \in Good[k]
  PROVE  \A k \in 0 .. n : f[k] \in Good[k]
<1> DEFINE Bad == {k \in 0 .. n : f[k] \notin Good[k]}
<1> SUFFICES ASSUME Bad # {} PROVE FALSE
  OBVIOUS
<1>1. Bad \in SUBSET Nat
  OBVIOUS
<1>2. PICK m \in Bad : \A k \in Bad : m <= k
  BY <1>1, LeastNumber
<1>3. m \in 0 .. n /\ f[m] \notin Good[m]
  OBVIOUS
<1>4. m # 0
  BY <1>3
<1>5. m - 1 \in 0 .. n /\ m \in 1 .. n /\ ~ (m <= m - 1)
  BY <1>3, <1>4
<1>6. m - 1 \notin Bad
  BY <1>2, <1>5
<1> QED
  BY <1>3, <1>5, <1>6

\* f is a loop of n rounds over states in S, which starts in x and whose rounds
\* are the functions g.
IsLoop(f, n, S, x, g) ==
  /\ f \in [0 .. n -> S] /\ f[0] = x
  /\ \A k \in 1 .. n : f[k] = g[k][f[k - 1]]

LEMMA LoopExists ==
  ASSUME NEW n \in Nat, NEW S, NEW x \in S, NEW g \in [1 .. n -> [S -> S]]
  PROVE  \E f : IsLoop(f, n, S, x, g)
<1> DEFINE Loop(m) == {f \in [0 .. m -> S] :
                         f[0] = x /\ \A k \in 1 .. m : f[k] = g[k][f[k - 1]]}
           Good == [m \in 0 .. n |-> {k \in {m} : Loop(m) # {}}]
           id == [m \in 0 .. n |-> m]
<1>1. id[0] \in Good[0]
  <2>1. [k \in 0 .. 0 |-> x] \in Loop(0)
    OBVIOUS
  <2> QED
    BY <2>1
<1>2. ASSUME NEW m \in 1 .. n, id[m - 1] \in Good[m - 1]
      PROVE  id[m] \in Good[m]
  <2>1. m - 1 \in 0 .. n /\ m \in 0 .. n
    OBVIOUS
  <2>2. Loop(m - 1) # {}
    BY <1>2, <2>1
  <2>3. PICK f : f \in Loop(m - 1)
    BY <2>2
  <2>4. /\ f \in [0 .. m - 1 -> S] /\ f[0] = x
        /\ \A k \in 1 .. m - 1 : f[k] = g[k][f[k - 1]]
    BY <2>3
  <2> DEFINE h == [k \in 0 .. m |-> IF k = m THEN g[m][f[m - 1]] ELSE f[k]]
  <2>5. f[m - 1] \in S
    BY <2>4
  <2>6. g[m][f[m - 1]] \in S
    BY <2>5
  <2>7. h \in [0 .. m -> S]
    BY <2>4, <2>6
  <2>8. h[0] = x
    BY <2>4
  <2>9. ASSUME NEW k \in 1 .. m PROVE h[k] = g[k][h[k - 1]]
    <3>1. h[k - 1] = f[k - 1]
      OBVIOUS
    <3> QED
      BY <2>4, <3>1
  <2>10. h \in Loop(m)
    BY <2>7, <2>8, <2>9
  <2> HIDE DEF h, Loop
  <2> QED
    BY <2>1, <2>10
<1> HIDE DEF Good, id
<1>3. \A m \in 0 .. n : id[m] \in Good[m]
  BY <1>1, <1>2, LoopInvariant
<1>4. id[n] \in Good[n] /\ n \in 0 .. n
  BY <1>3
<1>5. Loop(n) # {}
  BY <1>4 DEF Good
<1> QED
  BY <1>5 DEF IsLoop

-----------------------------------------------------------------------------
(* Vectors *)

\* A vector that goes up from each element to the next does so altogether.
LEMMA RisesThroughout ==
  ASSUME NEW v \in Seq(Int), \A i \in 1 .. Len(v) - 1 : v[i] <= v[i + 1],
         NEW i \in 1 .. Len(v), NEW j \in 1 .. Len(v), i <= j
  PROVE  v[i] <= v[j]
<1> DEFINE n == Len(v) - i
           f == [k \in 0 .. n |-> v[i + k]]
           Good == [k \in 0 .. n |-> {x \in Int : v[i] <= x}]
<1>1. n \in Nat /\ v[i] \in Int
  BY LenProperties
<1>2. f[0] \in Good[0]
  BY <1>1
<1>3. ASSUME NEW k \in 1 .. n, f[k - 1] \in Good[k - 1]
      PROVE  f[k] \in Good[k]
  <2>1. /\ k - 1 \in 0 .. n /\ k \in 0 .. n
        /\ i + k - 1 \in 1 .. Len(v) - 1 /\ i + k \in 1 .. Len(v)
    BY <1>1
  <2>2. v[i] <= v[i + (k - 1)]
    BY <1>3, <2>1
  <2>3. v[i + k - 1] <= v[(i + k - 1) + 1]
    BY <2>1
  <2>4. i + (k - 1) = i + k - 1 /\ (i + k - 1) + 1 = i + k
    OBVIOUS
  <2>5. v[i + k - 1] \in Int /\ v[i + k] \in Int
    BY <2>1, LenProperties
  <2>6. v[i] <= v[i + k]
    BY <1>1, <2>2, <2>3, <2>4, <2>5
  <2> QED
    BY <2>1, <2>5, <2>6
<1> HIDE DEF f, Good
<1>4. \A k \in 0 .. n : f[k] \in Good[k]
  BY <1>1, <1>2, <1>3, LoopInvariant
<1>5. j - i \in 0 .. n /\ i + (j - i) = j
  OBVIOUS
<1>6. f[j - i] = v[j] /\ f[j - i] \in Good[j - i]
  BY <1>4, <1>5 DEF f
<1> QED
  BY <1>5, <1>6 DEF Good

LEMMA SortedRises ==
  ASSUME NEW v \in Seq(Int), Sorted(v),
         NEW i \in 1 .. Len(v), NEW j \in 1 .. Len(v), i < j
  PROVE  v[i] < v[j]
<1>1. \A k \in 1 .. Len(v) : v[k] \in Int
  BY LenProperties
<1>2. \A k \in 1 .. Len(v) - 1 : v[k] < v[k + 1]
  BY DEF Sorted
<1>3. \A k \in 1 .. Len(v) - 1 : v[k] <= v[k + 1]
  BY <1>1, <1>2
<1>4. i \in 1 .. Len(v) - 1 /\ i + 1 \in 1 .. Len(v) /\ i + 1 <= j
  BY LenProperties
<1>5. v[i + 1] <= v[j]
  BY <1>3, <1>4, RisesThroughout
<1>6. v[i] < v[i + 1]
  BY <1>2, <1>4
<1> QED
  BY <1>1, <1>4, <1>5, <1>6

\* w is v with e put in at position i: vector::insert.
Inserted(w, v, i, e) ==
  /\ Len(w) = Len(v) + 1
  /\ \A j \in 1 .. Len(v) + 1 : w[j] = IF j < i THEN v[j]
                                       ELSE IF j = i THEN e ELSE v[j - 1]

LEMMA InsertAtIs ==
  ASSUME NEW S, NEW v \in Seq(S), NEW i \in 1 .. Len(v) + 1, NEW e \in S
  PROVE  /\ InsertAt(v, i, e) \in Seq(S)
         /\ Inserted(InsertAt(v, i, e), v, i, e)
<1> DEFINE a == SubSeq(v, 1, i - 1)
           c == SubSeq(v, i, Len(v))
           b == a \o <<e>>
<1>1. Len(v) \in Nat /\ \A k \in 1 .. Len(v) : v[k] \in S
  BY LenProperties, ElementOfSeq
<1>2. /\ a \in Seq(S) /\ Len(a) = i - 1
      /\ \A k \in 1 .. i - 1 : a[k] = v[k]
  <2>1. \A k \in 1 .. i - 1 : v[k] \in S
    BY <1>1
  <2>2. /\ a \in Seq(S) /\ Len(a) = IF 1 <= i - 1 THEN i - 1 - 1 + 1 ELSE 0
        /\ \A k \in 1 .. i - 1 - 1 + 1 : a[k] = v[1 + k - 1]
    BY <1>1, <2>1, SubSeqProperties
  <2> HIDE DEF a
  <2>3. i - 1 - 1 + 1 = i - 1 /\ \A k \in 1 .. i - 1 : 1 + k - 1 = k
    BY <1>1
  <2> QED
    BY <1>1, <2>2, <2>3
<1>3. /\ c \in Seq(S) /\ Len(c) = Len(v) - i + 1
      /\ \A k \in 1 .. Len(v) - i + 1 : c[k] = v[i + k - 1]
  <2>1. \A k \in i .. Len(v) : v[k] \in S
    BY <1>1
  <2>2. /\ c \in Seq(S) /\ Len(c) = IF i <= Len(v) THEN Len(v) - i + 1 ELSE 0
        /\ \A k \in 1 .. Len(v) - i + 1 : c[k] = v[i + k - 1]
    BY <1>1, <2>1, SubSeqProperties
  <2> HIDE DEF c
  <2> QED
    BY <1>1, <2>2
<1> HIDE DEF a, c
<1>4. <<e>> \in Seq(S) /\ Len(<<e>>) = 1 /\ <<e>>[1] = e
  OBVIOUS
<1>5. /\ b \in Seq(S) /\ Len(b) = i
      /\ \A k \in 1 .. i : b[k] = IF k <= i - 1 THEN a[k] ELSE e
  <2>1. /\ b \in Seq(S) /\ Len(b) = Len(a) + Len(<<e>>)
        /\ \A k \in 1 .. Len(a) + Len(<<e>>) :
             b[k] = IF k <= Len(a) THEN a[k] ELSE <<e>>[k - Len(a)]
    BY <1>2, <1>4, ConcatProperties
  <2> HIDE DEF b
  <2>2. Len(a) + Len(<<e>>) = i
    BY <1>1, <1>2, <1>4
  <2>3. ASSUME NEW k \in 1 .. i, ~ (k <= i - 1) PROVE k - Len(a) = 1
    BY <1>1, <1>2, <2>3
  <2> QED
    BY <1>2, <1>4, <2>1, <2>2, <2>3
<1> HIDE DEF b
<1>6. /\ b \o c \in Seq(S) /\ Len(b \o c) = Len(b) + Len(c)
      /\ \A k \in 1 .. Len(b) + Len(c) :
           (b \o c)[k] = IF k <= Len(b) THEN b[k] ELSE c[k - Len(b)]
  BY <1>3, <1>5, ConcatProperties
<1>7. InsertAt(v, i, e) = b \o c
  BY DEF InsertAt, a, b, c
<1>8. Len(b) + Len(c) = Len(v) + 1
  BY <1>1, <1>3, <1>5
<1>9. ASSUME NEW j \in 1 .. Len(v) + 1
      PROVE  (b \o c)[j] = IF j < i THEN v[j] ELSE IF j = i THEN e ELSE v[j - 1]
  <2>1. CASE j < i
    <3>1. j \in 1 .. i - 1 /\ j \in 1 .. i /\ j <= Len(b)
      BY <1>1, <1>5, <2>1
    <3> QED
      BY <1>2, <1>5, <1>6, <1>8, <2>1, <3>1
  <2>2. CASE j = i
    <3>1. j \in 1 .. i /\ ~ (j <= i - 1) /\ j <= Len(b)
      BY <1>1, <1>5, <2>2
    <3> QED
      BY <1>5, <1>6, <1>8, <2>2, <3>1
  <2>3. CASE j > i
    <3>1. /\ ~ (j <= Len(b)) /\ j - i \in 1 .. Len(v) - i + 1
          /\ i + (j - i) - 1 = j - 1 /\ ~ (j < i) /\ j # i
      BY <1>1, <1>5, <2>3
    <3> QED
      BY <1>3, <1>5, <1>6, <1>8, <3>1
  <2>4. j < i \/ j = i \/ j > i
    BY <1>1
  <2> QED
    BY <2>1, <2>2, <2>3, <2>4
<1> QED
  BY <1>6, <1>7, <1>8, <1>9 DEF Inserted

-----------------------------------------------------------------------------
(* std::lower_bound *)

LEMMA SearchIs ==
  ASSUME NEW v \in Seq(Int), NEW s \in Int
  PROVE  \E search :
           /\ search[0] = [first |-> 0, len |-> Len(v)]
           /\ \A k \in 1 .. Len(v) : search[k] = Halved(v, s, search[k - 1])
           /\ LowerBound(v, s) = search[Len(v)].first
<1> DEFINE search[k \in 0 .. Len(v)] ==
             IF k = 0 THEN [first |-> 0, len |-> Len(v)]
             ELSE Halved(v, s, search[k - 1])
           S == [first : Int, len : Int]
           g == [k \in 1 .. Len(v) |-> [r \in S |-> Halved(v, s, r)]]
           x == [first |-> 0, len |-> Len(v)]
<1>1. Len(v) \in Nat /\ x \in S
  BY LenProperties
<1>2. ASSUME NEW r \in S PROVE Halved(v, s, r) \in S
  <2> DEFINE half == r.len \div 2
  <2>1. r.first \in Int /\ r.len \in Int /\ half \in Int
    OBVIOUS
  <2> HIDE DEF half
  <2>2. /\ [first |-> r.first + half + 1, len |-> r.len - half - 1] \in S
        /\ [first |-> r.first, len |-> half] \in S
    BY <2>1
  <2> QED
    BY <2>2 DEF Halved, half
<1>3. g \in [1 .. Len(v) -> [S -> S]]
  BY <1>2
<1> HIDE DEF S, g, x
<1>4. PICK f : IsLoop(f, Len(v), S, x, g)
  BY <1>1, <1>3, LoopExists
<1>5. /\ f \in [0 .. Len(v) -> S] /\ f[0] = x
      /\ \A k \in 1 .. Len(v) : f[k] = g[k][f[k - 1]]
  BY <1>4 DEF IsLoop
<1>6. ASSUME NEW k \in 1 .. Len(v) PROVE f[k] = Halved(v, s, f[k - 1])
  <2>1. f[k - 1] \in S
    BY <1>1, <1>5
  <2> QED
    BY <1>5, <2>1 DEF g
<1>7. \E h : h = [k \in 0 .. Len(v) |->
                    IF k = 0 THEN x ELSE Halved(v, s, h[k - 1])]
  <2>1. f = [k \in 0 .. Len(v) |-> IF k = 0 THEN x ELSE Halved(v, s, f[k - 1])]
    BY <1>1, <1>5, <1>6
  <2> QED
    BY <2>1
<1>8. search = [k \in 0 .. Len(v) |->
                  IF k = 0 THEN x ELSE Halved(v, s, search[k - 1])]
  BY <1>7 DEF x
<1>9. LowerBound(v, s) = search[Len(v)].first
  BY DEF LowerBound
<1> HIDE DEF search
<1>10. search[0] = x
  BY <1>1, <1>8
<1>11. \A k \in 1 .. Len(v) : search[k] = Halved(v, s, search[k - 1])
  BY <1>1, <1>8
<1> QED
  BY <1>9, <1>10, <1>11 DEF x

\* Rising(v): what lower_bound needs of a vector.
Rising(v) == \A i \in 1 .. Len(v) - 1 : v[i] <= v[i + 1]

\* lower_bound stays in the vector, and in a vector that is in order it finds
\* the place: all elements before it are less, all others are not.
LEMMA LowerBoundIs ==
  ASSUME NEW v \in Seq(Int), NEW s \in Int
  PROVE  /\ LowerBound(v, s) \in 0 .. Len(v)
         /\ Rising(v) => /\ \A i \in 1 .. LowerBound(v, s) : v[i] < s
                         /\ \A i \in LowerBound(v, s) + 1 .. Len(v) : s <= v[i]
<1> DEFINE n == Len(v)
           Found(r) == /\ \A i \in 1 .. r.first : v[i] < s
                       /\ \A i \in r.first + r.len + 1 .. n : s <= v[i]
           Good == [k \in 0 .. n |->
                      {r \in [first : 0 .. n, len : 0 .. n - k] :
                         r.first + r.len <= n /\ (Rising(v) => Found(r))}]
<1>1. n \in Nat /\ \A i \in 1 .. n : v[i] \in Int
  BY LenProperties
<1>2. PICK search :
        /\ search[0] = [first |-> 0, len |-> n]
        /\ \A k \in 1 .. n : search[k] = Halved(v, s, search[k - 1])
        /\ LowerBound(v, s) = search[n].first
  BY SearchIs
<1>3. search[0] \in Good[0]
  BY <1>1, <1>2
<1>4. ASSUME NEW k \in 1 .. n, search[k - 1] \in Good[k - 1]
      PROVE  search[k] \in Good[k]
  <2> DEFINE r == search[k - 1]
             half == r.len \div 2
             low == r.first + half + 1
             t == search[k]
  <2>1. k - 1 \in 0 .. n /\ k \in 0 .. n
    BY <1>1
  <2>2. /\ r \in [first : 0 .. n, len : 0 .. n - (k - 1)]
        /\ r.first + r.len <= n /\ (Rising(v) => Found(r))
    BY <1>4, <2>1
  <2>3. r.first \in 0 .. n /\ r.len \in 0 .. n - (k - 1)
    BY <2>2
  <2>4. t = IF r.len = 0 THEN r
            ELSE IF v[low] < s THEN [first |-> low, len |-> r.len - half - 1]
                 ELSE [first |-> r.first, len |-> half]
    BY <1>2 DEF Halved
  <2>5. half \in Nat /\ (r.len # 0 => half < r.len)
    BY <1>1, <2>3
  <2> HIDE DEF r, half, t
  <2> SUFFICES /\ t \in [first : 0 .. n, len : 0 .. n - k]
               /\ t.first + t.len <= n /\ (Rising(v) => Found(t))
    BY <2>1 DEF t
  <2>6. CASE r.len = 0
    <3>1. r \in [first : 0 .. n, len : 0 .. n - k]
      BY <1>1, <2>2, <2>3, <2>6
    <3> QED
      BY <2>2, <2>4, <2>6, <3>1
  <2>7. CASE r.len # 0 /\ v[low] < s
    <3>1. /\ t = [first |-> low, len |-> r.len - half - 1]
          /\ t.first = low /\ t.len = r.len - half - 1
      BY <2>4, <2>7
    <3>2. /\ low \in 1 .. n /\ r.len - half - 1 \in 0 .. n - k
          /\ low + (r.len - half - 1) = r.first + r.len
      <4>1. r.first \in Int /\ r.len \in Int /\ half \in Int /\ half < r.len
        BY <1>1, <2>3, <2>5, <2>7
      <4>2. 0 <= r.first /\ 0 <= half /\ r.len <= n - (k - 1)
        BY <1>1, <2>3, <2>5
      <4> QED
        BY <1>1, <2>2, <4>1, <4>2
    <3>3. ASSUME Rising(v) PROVE Found(t)
      <4>1. ASSUME NEW i \in 1 .. low PROVE v[i] < s
        <5>1. i \in 1 .. n /\ i <= low
          BY <1>1, <3>2
        <5>2. v[i] <= v[low]
          BY <3>2, <3>3, <5>1, RisesThroughout DEF Rising
        <5> QED
          BY <1>1, <2>7, <3>2, <5>1, <5>2
      <4>2. \A i \in t.first + t.len + 1 .. n : s <= v[i]
        BY <2>2, <3>1, <3>2, <3>3
      <4> QED
        BY <3>1, <4>1, <4>2
    <3> QED
      BY <1>1, <2>2, <2>3, <3>1, <3>2, <3>3
  <2>8. CASE r.len # 0 /\ ~ (v[low] < s)
    <3>1. /\ t = [first |-> r.first, len |-> half]
          /\ t.first = r.first /\ t.len = half
      BY <2>4, <2>8
    <3>2. /\ half \in 0 .. n - k /\ r.first + half <= n
          /\ low \in 1 .. n /\ low = r.first + half + 1
      <4>1. r.first \in Int /\ r.len \in Int /\ half \in Int /\ half < r.len
        BY <1>1, <2>3, <2>5, <2>8
      <4>2. 0 <= r.first /\ 0 <= half /\ r.len <= n - (k - 1)
        BY <1>1, <2>3, <2>5
      <4> QED
        BY <1>1, <2>2, <4>1, <4>2
    <3>3. ASSUME Rising(v) PROVE Found(t)
      <4>1. ASSUME NEW i \in low .. n PROVE s <= v[i]
        <5>1. i \in 1 .. n /\ low <= i
          BY <1>1, <3>2
        <5>2. v[low] <= v[i]
          BY <3>2, <3>3, <5>1, RisesThroughout DEF Rising
        <5> QED
          BY <1>1, <2>8, <3>2, <5>1, <5>2
      <4>2. \A i \in 1 .. t.first : v[i] < s
        BY <2>2, <3>1, <3>3
      <4> QED
        BY <3>1, <3>2, <4>1, <4>2
    <3> QED
      BY <1>1, <2>2, <2>3, <3>1, <3>2, <3>3
  <2> QED
    BY <2>6, <2>7, <2>8
<1> HIDE DEF Good
<1>5. \A k \in 0 .. n : search[k] \in Good[k]
  BY <1>1, <1>3, <1>4, LoopInvariant
<1> DEFINE r == search[n]
<1>6. /\ r \in [first : 0 .. n, len : 0 .. n - n] /\ (Rising(v) => Found(r))
  BY <1>1, <1>5 DEF Good
<1> HIDE DEF r
<1>7. r.first \in 0 .. n /\ r.len = 0
  BY <1>1, <1>6
<1>8. r.first + r.len + 1 = r.first + 1
  BY <1>1, <1>7
<1> QED
  BY <1>2, <1>6, <1>7, <1>8 DEF r

-----------------------------------------------------------------------------
(* BoundBox *)

LEMMA InsertAtElements ==
  ASSUME NEW S, NEW v \in Seq(S), NEW i \in 1 .. Len(v) + 1, NEW e \in S
  PROVE  Elements(InsertAt(v, i, e)) = Elements(v) \cup {e}
<1> DEFINE w == InsertAt(v, i, e)
           n == Len(v)
<1>1. /\ Len(w) = n + 1
      /\ \A j \in 1 .. n + 1 : w[j] = IF j < i THEN v[j]
                                      ELSE IF j = i THEN e ELSE v[j - 1]
  <2>1. Inserted(w, v, i, e)
    BY InsertAtIs
  <2> QED
    BY <2>1 DEF Inserted
<1>2. n \in Nat
  BY LenProperties
<1> HIDE DEF w
<1>3. ASSUME NEW j \in 1 .. n + 1 PROVE w[j] \in Elements(v) \cup {e}
  <2>1. CASE j < i
    <3>1. j \in 1 .. n /\ w[j] = v[j]
      BY <1>1, <1>2, <2>1
    <3> QED
      BY <3>1 DEF Elements
  <2>2. CASE j = i
    BY <1>1, <2>2
  <2>3. CASE j > i
    <3>1. j - 1 \in 1 .. n /\ ~ (j < i) /\ j # i
      BY <1>2, <2>3
    <3>2. w[j] = v[j - 1]
      BY <1>1, <3>1
    <3> QED
      BY <3>1, <3>2 DEF Elements
  <2>4. j < i \/ j = i \/ j > i
    BY <1>2
  <2> QED
    BY <2>1, <2>2, <2>3, <2>4
<1>4. e \in Elements(w)
  <2>1. i \in 1 .. n + 1 /\ w[i] = e
    BY <1>1, <1>2
  <2> QED
    BY <1>1, <2>1 DEF Elements
<1>5. ASSUME NEW j \in 1 .. n PROVE v[j] \in Elements(w)
  <2>1. CASE j < i
    <3>1. j \in 1 .. n + 1 /\ w[j] = v[j]
      BY <1>1, <1>2, <2>1
    <3> QED
      BY <1>1, <3>1 DEF Elements
  <2>2. CASE ~ (j < i)
    <3>1. j + 1 \in 1 .. n + 1 /\ ~ (j + 1 < i) /\ j + 1 # i /\ (j + 1) - 1 = j
      BY <1>2, <2>2
    <3>2. w[j + 1] = v[j]
      BY <1>1, <3>1
    <3> QED
      BY <1>1, <3>1, <3>2 DEF Elements
  <2> QED
    BY <2>1, <2>2
<1>6. Elements(w) \subseteq Elements(v) \cup {e}
  <2>1. Elements(w) = {w[j] : j \in 1 .. n + 1}
    BY <1>1 DEF Elements
  <2> QED
    BY <1>3, <2>1
<1>7. Elements(v) \subseteq Elements(w)
  <2>1. Elements(v) = {v[j] : j \in 1 .. n}
    BY DEF Elements
  <2> QED
    BY <1>5, <2>1
<1> QED
  BY <1>4, <1>6, <1>7 DEF w

LEMMA SortedIsRising ==
  ASSUME NEW v \in Seq(Int), Sorted(v)
  PROVE  Rising(v)
<1>1. \A k \in 1 .. Len(v) : v[k] \in Int
  BY LenProperties
<1>2. Len(v) \in Nat
  BY LenProperties
<1> QED
  BY <1>1, <1>2 DEF Sorted, Rising

\* IsPresent finds exactly what is there, if the vector is sorted.
LEMMA IsPresentIs ==
  ASSUME NEW v \in Seq(Int), NEW s \in Int, Sorted(v)
  PROVE  IsPresent(v, s) <=> s \in Elements(v)
<1> DEFINE b == LowerBound(v, s)
           n == Len(v)
<1>1. n \in Nat /\ \A i \in 1 .. n : v[i] \in Int
  BY LenProperties
<1>2. /\ b \in 0 .. n
      /\ \A i \in 1 .. b : v[i] < s
      /\ \A i \in b + 1 .. n : s <= v[i]
  BY LowerBoundIs, SortedIsRising
<1>3. IsPresent(v, s) <=> b < n /\ v[b + 1] = s
  BY DEF IsPresent
<1> HIDE DEF b
<1>4. ASSUME b < n, v[b + 1] = s PROVE s \in Elements(v)
  <2>1. b + 1 \in 1 .. n
    BY <1>1, <1>2, <1>4
  <2> QED
    BY <1>4, <2>1 DEF Elements
<1>5. ASSUME s \in Elements(v) PROVE b < n /\ v[b + 1] = s
  <2>1. PICK i \in 1 .. n : v[i] = s
    BY <1>5 DEF Elements
  <2>2. i \notin 1 .. b
    BY <1>1, <1>2, <2>1
  <2>3. b + 1 <= i /\ b + 1 \in 1 .. n /\ b < n
    BY <1>1, <1>2, <2>2
  <2>4. b + 1 = i
    <3> SUFFICES ASSUME b + 1 < i PROVE FALSE
      BY <1>1, <1>2, <2>3
    <3>1. v[b + 1] < v[i]
      BY <2>3, SortedRises
    <3>2. s <= v[b + 1]
      BY <1>1, <1>2, <2>3
    <3> QED
      BY <1>1, <2>1, <2>3, <3>1, <3>2
  <2> QED
    BY <2>1, <2>3, <2>4
<1> QED
  BY <1>3, <1>4, <1>5

\* Insert puts a sector in and keeps the vector sorted.
LEMMA InsertIs ==
  ASSUME NEW v \in Seq(Int), NEW s \in Int
  PROVE  /\ Insert(v, s) \in Seq(Int)
         /\ Len(Insert(v, s)) = Len(v) + 1
         /\ Elements(Insert(v, s)) = Elements(v) \cup {s}
         /\ Sorted(v) /\ s \notin Elements(v) => Sorted(Insert(v, s))
<1> DEFINE b == LowerBound(v, s)
           n == Len(v)
           w == Insert(v, s)
<1>1. n \in Nat /\ \A i \in 1 .. n : v[i] \in Int
  BY LenProperties
<1>2. /\ b \in 0 .. n
      /\ Rising(v) => /\ \A i \in 1 .. b : v[i] < s
                      /\ \A i \in b + 1 .. n : s <= v[i]
  BY LowerBoundIs
<1>3. w = InsertAt(v, b + 1, s)
  BY DEF Insert
<1> HIDE DEF b, w
<1>4. b + 1 \in 1 .. n + 1
  BY <1>1, <1>2
<1>5. /\ w \in Seq(Int) /\ Len(w) = n + 1
      /\ \A j \in 1 .. n + 1 : w[j] = IF j < b + 1 THEN v[j]
                                      ELSE IF j = b + 1 THEN s ELSE v[j - 1]
  <2>1. w \in Seq(Int) /\ Inserted(w, v, b + 1, s)
    BY <1>3, <1>4, InsertAtIs
  <2> QED
    BY <2>1 DEF Inserted
<1>6. Elements(w) = Elements(v) \cup {s}
  BY <1>3, <1>4, InsertAtElements
<1>7. ASSUME Sorted(v), s \notin Elements(v) PROVE Sorted(w)
  <2>1. /\ \A i \in 1 .. b : v[i] < s
        /\ \A i \in b + 1 .. n : s <= v[i] /\ v[i] # s
    <3>1. \A i \in 1 .. n : v[i] # s
      BY <1>7 DEF Elements
    <3>2. \A i \in b + 1 .. n : i \in 1 .. n
      BY <1>1, <1>2
    <3> QED
      BY <1>2, <1>7, <3>1, <3>2, SortedIsRising
  <2>2. \A i \in 1 .. n - 1 : v[i] < v[i + 1]
    BY <1>7 DEF Sorted
  <2> SUFFICES ASSUME NEW j \in 1 .. n PROVE w[j] < w[j + 1]
    BY <1>1, <1>5 DEF Sorted
  <2>3. j \in 1 .. n + 1 /\ j + 1 \in 1 .. n + 1 /\ (j + 1) - 1 = j
    BY <1>1
  <2>4. CASE j < b
    <3>1. j \in 1 .. n - 1 /\ j < b + 1 /\ j + 1 < b + 1
      BY <1>1, <1>2, <2>4
    <3>2. w[j] = v[j] /\ w[j + 1] = v[j + 1]
      BY <1>5, <2>3, <3>1
    <3> QED
      BY <2>2, <3>1, <3>2
  <2>5. CASE j = b
    <3>1. j \in 1 .. b /\ j < b + 1 /\ j + 1 = b + 1 /\ ~ (j + 1 < b + 1)
      BY <1>1, <1>2, <2>5
    <3>2. w[j] = v[j] /\ w[j + 1] = s
      BY <1>5, <2>3, <3>1
    <3> QED
      BY <2>1, <3>1, <3>2
  <2>6. CASE j = b + 1
    <3>1. j \in b + 1 .. n /\ ~ (j < b + 1) /\ ~ (j + 1 < b + 1) /\ j + 1 # b + 1
      BY <1>1, <1>2, <2>6
    <3>2. w[j] = s /\ w[j + 1] = v[j]
      BY <1>5, <2>3, <2>6, <3>1
    <3> QED
      BY <1>1, <2>1, <3>1, <3>2
  <2>7. CASE j > b + 1
    <3>1. /\ ~ (j < b + 1) /\ j # b + 1 /\ ~ (j + 1 < b + 1) /\ j + 1 # b + 1
          /\ j - 1 \in 1 .. n - 1 /\ (j - 1) + 1 = j
      BY <1>1, <1>2, <2>7
    <3>2. w[j] = v[j - 1] /\ w[j + 1] = v[j]
      BY <1>5, <2>3, <3>1
    <3> QED
      BY <2>2, <3>1, <3>2
  <2>8. j < b \/ j = b \/ j = b + 1 \/ j > b + 1
    BY <1>1, <1>2
  <2> QED
    BY <2>4, <2>5, <2>6, <2>7, <2>8
<1> QED
  BY <1>5, <1>6, <1>7 DEF w

-----------------------------------------------------------------------------
(* UpdateBoxNewSectors *)

\* A sector's number is in the vector of sectors.
LEMMA IndexInGrid ==
  ASSUME NEW i \in 0 .. Edge - 1, NEW j \in 0 .. Edge - 1
  PROVE  get_index(i, j) \in GridSectors
<1>1. Edge \in Nat /\ Edge > 0
  BY EdgeAssumption
<1>2. j * Edge \in Nat /\ j * Edge <= (Edge - 1) * Edge
  BY <1>1
<1>3. (Edge - 1) * Edge = Edge * Edge - Edge /\ Edge * Edge \in Nat
  BY <1>1
<1> QED
  BY <1>1, <1>2, <1>3 DEF get_index, GridSectors

\* The rounds of two nested loops are numbered row by row.
LEMMA RoundOf ==
  ASSUME NEW m \in Nat \ {0}, NEW a \in 0 .. m - 1, NEW b \in 0 .. m - 1
  PROVE  /\ b * m + a \in 0 .. m * m - 1
         /\ (b * m + a) % m = a /\ (b * m + a) \div m = b
<1>1. b * m \in Nat /\ b * m <= (m - 1) * m /\ (m - 1) * m = m * m - m
  OBVIOUS
<1>2. b * m + a \in 0 .. m * m - 1
  BY <1>1
<1> DEFINE x == b * m + a
           q == x \div m
           r == x % m
<1>3. x \in Int /\ q \in Int /\ r \in 0 .. m - 1 /\ x = m * q + r
  BY <1>1
<1>4. x = b * m + a
  OBVIOUS
<1> HIDE DEF q, r, x
<1>5. CASE q >= b + 1
  <2>1. m * q >= m * (b + 1) /\ m * (b + 1) = b * m + m
    BY <1>3, <1>5
  <2> QED
    BY <1>1, <1>3, <1>4, <2>1
<1>6. CASE q <= b - 1
  <2>1. m * q <= m * (b - 1) /\ m * (b - 1) = b * m - m
    BY <1>3, <1>6
  <2> QED
    BY <1>1, <1>3, <1>4, <2>1
<1>7. CASE q = b
  <2>1. m * q = b * m
    BY <1>7
  <2>2. r = a
    BY <1>1, <1>3, <1>4, <2>1
  <2> QED
    BY <1>2, <1>7, <2>2 DEF q, r, x
<1> QED
  BY <1>3, <1>5, <1>6, <1>7

LEMMA PlaceOf ==
  ASSUME NEW m \in Nat \ {0}, NEW x \in 0 .. m * m - 1
  PROVE  x % m \in 0 .. m - 1 /\ x \div m \in 0 .. m - 1
<1> DEFINE q == x \div m
           r == x % m
           mm == m * m
<1>1. mm \in Nat /\ x \in Nat /\ x <= mm - 1
  OBVIOUS
<1>2. q \in Nat /\ r \in 0 .. m - 1 /\ x = m * q + r
  BY <1>1
<1> HIDE DEF q, r
<1>3. CASE q >= m
  <2>1. m * q >= mm
    BY <1>2, <1>3
  <2> HIDE DEF mm
  <2>2. m * q \in Int
    BY <1>2
  <2> QED
    BY <1>1, <1>2, <2>1, <2>2
<1> QED
  BY <1>2, <1>3 DEF q, r

\* The sectors of the grid that the first k rounds come to.
Visited(p, n, k) ==
  {get_index(Column(p, n, j), Row(p, n, j)) :
     j \in {l \in 1 .. k : /\ Column(p, n, l) \in 0 .. Edge - 1
                           /\ Row(p, n, l) \in 0 .. Edge - 1}}

LEMMA VisitedIsAround ==
  ASSUME NEW p \in Int \X Int, NEW n \in Nat
  PROVE  Visited(p, n, (2 * n + 1) * (2 * n + 1)) = Around(p, n)
<1> DEFINE m == 2 * n + 1
           cx == Cell(p[1])
           cy == Cell(p[2])
<1>1. m \in Nat \ {0} /\ m * m \in Nat /\ m = 2 * n + 1
  OBVIOUS
<1>2. cx \in Int /\ cy \in Int
  BY DEF Cell, sector_size
<1>3. \A k : /\ Column(p, n, k) = cx - n + ((k - 1) % m)
             /\ Row(p, n, k) = cy - n + ((k - 1) \div m)
  BY DEF Column, Row
<1>4. Around(p, n) =
        {get_index(i, j) : i \in (cx - n .. cx + n) \cap (0 .. Edge - 1),
                           j \in (cy - n .. cy + n) \cap (0 .. Edge - 1)}
  BY DEF Around
<1>5. Visited(p, n, m * m) =
        {get_index(Column(p, n, j), Row(p, n, j)) :
           j \in {l \in 1 .. m * m : /\ Column(p, n, l) \in 0 .. Edge - 1
                                     /\ Row(p, n, l) \in 0 .. Edge - 1}}
  BY DEF Visited
<1> HIDE DEF m, cx, cy
<1>6. ASSUME NEW k \in 1 .. m * m
      PROVE  Column(p, n, k) \in cx - n .. cx + n /\ Row(p, n, k) \in cy - n .. cy + n
  <2>1. k - 1 \in 0 .. m * m - 1
    BY <1>1
  <2>2. (k - 1) % m \in 0 .. m - 1 /\ (k - 1) \div m \in 0 .. m - 1
    BY <1>1, <2>1, PlaceOf
  <2> DEFINE a == (k - 1) % m
             b == (k - 1) \div m
  <2>3. a \in 0 .. 2 * n /\ b \in 0 .. 2 * n
    BY <1>1, <2>2
  <2>4. Column(p, n, k) = cx - n + a /\ Row(p, n, k) = cy - n + b
    BY <1>3
  <2> HIDE DEF a, b
  <2> QED
    BY <1>2, <2>3, <2>4
<1>7. ASSUME NEW i \in cx - n .. cx + n, NEW j \in cy - n .. cy + n
      PROVE  \E k \in 1 .. m * m : Column(p, n, k) = i /\ Row(p, n, k) = j
  <2>1. PICK a \in Int, b \in Int : a = i - cx + n /\ b = j - cy + n
    BY <1>2
  <2>2. a \in 0 .. m - 1 /\ b \in 0 .. m - 1
    BY <1>1, <1>2, <2>1
  <2>3. /\ b * m + a \in 0 .. m * m - 1
        /\ (b * m + a) % m = a /\ (b * m + a) \div m = b
    BY <1>1, <2>2, RoundOf
  <2>4. PICK x \in 0 .. m * m - 1 : x % m = a /\ x \div m = b
    BY <2>3
  <2>5. x + 1 \in 1 .. m * m /\ (x + 1) - 1 = x
    BY <1>1
  <2>6. Column(p, n, x + 1) = cx - n + a /\ Row(p, n, x + 1) = cy - n + b
    BY <1>3, <2>4, <2>5
  <2>7. cx - n + a = i /\ cy - n + b = j
    BY <1>2, <2>1
  <2> QED
    BY <2>5, <2>6, <2>7
<1>8. Visited(p, n, m * m) \subseteq Around(p, n)
  BY <1>4, <1>5, <1>6
<1>9. Around(p, n) \subseteq Visited(p, n, m * m)
  <2> SUFFICES ASSUME NEW i \in (cx - n .. cx + n) \cap (0 .. Edge - 1),
                      NEW j \in (cy - n .. cy + n) \cap (0 .. Edge - 1)
               PROVE  get_index(i, j) \in Visited(p, n, m * m)
    BY <1>4
  <2>1. PICK k \in 1 .. m * m : Column(p, n, k) = i /\ Row(p, n, k) = j
    BY <1>7
  <2> QED
    BY <1>5, <2>1
<1> QED
  BY <1>8, <1>9 DEF m

\* A vector is one over every set that has its elements.
LEMMA SeqOfElements ==
  ASSUME NEW S, NEW v \in Seq(S)
  PROVE  /\ Elements(v) \subseteq S
         /\ \A T : Elements(v) \subseteq T => v \in Seq(T)
<1>1. /\ Len(v) \in Nat /\ v \in [1 .. Len(v) -> S]
  BY LenProperties
<1>2. Elements(v) \subseteq S
  BY <1>1 DEF Elements
<1>3. ASSUME NEW T, Elements(v) \subseteq T PROVE v \in Seq(T)
  <2>1. \A i \in 1 .. Len(v) : v[i] \in T
    BY <1>3 DEF Elements
  <2>2. v \in [1 .. Len(v) -> T]
    BY <1>1, <2>1
  <2> QED
    BY <1>1, <2>2
<1> QED
  BY <1>2, <1>3

LEMMA NewRoundIs ==
  ASSUME NEW w \in Seq(Int), NEW p \in Int \X Int, NEW n \in Nat, NEW near,
         NEW k \in Nat \ {0}
  PROVE  /\ NewRound(w, p, n, near, k) \in Seq(Int)
         /\ Sorted(w) => Sorted(NewRound(w, p, n, near, k))
         /\ Sorted(w) =>
              Elements(NewRound(w, p, n, near, k)) =
                Elements(w) \cup
                  (IF /\ Column(p, n, k) \in 0 .. Edge - 1
                      /\ Row(p, n, k) \in 0 .. Edge - 1
                   THEN {get_index(Column(p, n, k), Row(p, n, k))} \cap near
                   ELSE {})
<1> DEFINE s == get_index(Column(p, n, k), Row(p, n, k))
           inside == /\ Column(p, n, k) \in 0 .. Edge - 1
                     /\ Row(p, n, k) \in 0 .. Edge - 1
           u == NewRound(w, p, n, near, k)
<1>1. u = IF inside /\ s \in near /\ ~IsPresent(w, s) THEN Insert(w, s) ELSE w
  BY DEF NewRound
<1>2. inside => s \in Int
  BY IndexInGrid, EdgeAssumption DEF GridSectors
<1> HIDE DEF s, inside, u
<1>3. CASE inside /\ s \in near /\ ~IsPresent(w, s)
  <2>1. /\ u \in Seq(Int) /\ Elements(u) = Elements(w) \cup {s}
        /\ Sorted(w) /\ s \notin Elements(w) => Sorted(u)
    BY <1>1, <1>2, <1>3, InsertIs
  <2>2. Sorted(w) => s \notin Elements(w)
    BY <1>2, <1>3, IsPresentIs
  <2> QED
    BY <1>3, <2>1, <2>2 DEF s, inside, u
<1>4. CASE ~ (inside /\ s \in near /\ ~IsPresent(w, s))
  <2>1. u = w
    BY <1>1, <1>4
  <2>2. Sorted(w) /\ inside /\ s \in near => s \in Elements(w)
    BY <1>2, <1>4, IsPresentIs
  <2> QED
    BY <2>1, <2>2 DEF s, inside, u
<1> QED
  BY <1>3, <1>4

\* UpdateBoxNewSectors adds the sectors of near in the square around p that
\* were missing, and keeps the vector sorted.
LEMMA WithNewIs ==
  ASSUME NEW v \in Seq(Int), Sorted(v), NEW p \in Int \X Int, NEW n \in Nat,
         NEW near
  PROVE  /\ WithNew(v, p, n, near) \in Seq(Int)
         /\ Sorted(WithNew(v, p, n, near))
         /\ Elements(WithNew(v, p, n, near)) =
              Elements(v) \cup (Around(p, n) \cap near)
<1> DEFINE N == (2 * n + 1) * (2 * n + 1)
           loop[k \in 0 .. N] ==
             IF k = 0 THEN v ELSE NewRound(loop[k - 1], p, n, near, k)
           S == Seq(Int)
           g == [k \in 1 .. N |-> [w \in S |-> NewRound(w, p, n, near, k)]]
<1>1. N \in Nat
  OBVIOUS
<1>2. WithNew(v, p, n, near) = loop[N]
  BY DEF WithNew
<1>3. Visited(p, n, N) = Around(p, n)
  BY VisitedIsAround
<1> HIDE DEF N
<1>4. g \in [1 .. N -> [S -> S]]
  BY <1>1, NewRoundIs
<1>5. v \in S
  OBVIOUS
<1> HIDE DEF S, g
<1>6. PICK f : IsLoop(f, N, S, v, g)
  BY <1>1, <1>4, <1>5, LoopExists
<1>7. /\ f \in [0 .. N -> S] /\ f[0] = v
      /\ \A k \in 1 .. N : f[k] = g[k][f[k - 1]]
  BY <1>6 DEF IsLoop
<1>8. ASSUME NEW k \in 1 .. N PROVE f[k] = NewRound(f[k - 1], p, n, near, k)
  <2>1. f[k - 1] \in S
    BY <1>1, <1>7
  <2> QED
    BY <1>7, <2>1 DEF g
<1>9. \E h : h = [k \in 0 .. N |->
                    IF k = 0 THEN v ELSE NewRound(h[k - 1], p, n, near, k)]
  <2>1. f = [k \in 0 .. N |->
               IF k = 0 THEN v ELSE NewRound(f[k - 1], p, n, near, k)]
    BY <1>1, <1>7, <1>8
  <2> QED
    BY <2>1
<1>10. loop = [k \in 0 .. N |->
                 IF k = 0 THEN v ELSE NewRound(loop[k - 1], p, n, near, k)]
  BY <1>9
<1> HIDE DEF loop
<1>11. /\ loop[0] = v
       /\ \A k \in 1 .. N : loop[k] = NewRound(loop[k - 1], p, n, near, k)
  BY <1>1, <1>10
<1> DEFINE Good == [k \in 0 .. N |->
                      {w \in Seq(Int) :
                         /\ Sorted(w)
                         /\ Elements(w) =
                              Elements(v) \cup (Visited(p, n, k) \cap near)}]
<1>12. loop[0] \in Good[0]
  <2>1. Visited(p, n, 0) = {}
    BY DEF Visited
  <2> QED
    BY <1>1, <1>11, <2>1
<1>13. ASSUME NEW k \in 1 .. N, loop[k - 1] \in Good[k - 1]
       PROVE  loop[k] \in Good[k]
  <2> DEFINE w == loop[k - 1]
             u == loop[k]
             here == IF /\ Column(p, n, k) \in 0 .. Edge - 1
                        /\ Row(p, n, k) \in 0 .. Edge - 1
                     THEN {get_index(Column(p, n, k), Row(p, n, k))} ELSE {}
  <2>1. k - 1 \in 0 .. N /\ k \in 0 .. N /\ k \in Nat \ {0}
    BY <1>1
  <2>2. /\ w \in Seq(Int) /\ Sorted(w)
        /\ Elements(w) = Elements(v) \cup (Visited(p, n, k - 1) \cap near)
    BY <1>13, <2>1
  <2>3. u = NewRound(w, p, n, near, k)
    BY <1>11
  <2> HIDE DEF w, u
  <2>4. /\ u \in Seq(Int) /\ Sorted(u)
        /\ Elements(u) = Elements(w) \cup (here \cap near)
    BY <2>1, <2>2, <2>3, NewRoundIs
  <2>5. Visited(p, n, k) = Visited(p, n, k - 1) \cup here
    <3>1. \A j : j \in 1 .. k <=> j \in 1 .. k - 1 \/ j = k
      BY <2>1
    <3> QED
      BY <3>1 DEF Visited
  <2> HIDE DEF here
  <2>6. Elements(u) = Elements(v) \cup (Visited(p, n, k) \cap near)
    BY <2>2, <2>4, <2>5
  <2> QED
    BY <2>1, <2>4, <2>6 DEF u
<1> HIDE DEF Good
<1>14. \A k \in 0 .. N : loop[k] \in Good[k]
  BY <1>1, <1>12, <1>13, LoopInvariant
<1>15. loop[N] \in Good[N] /\ N \in 0 .. N
  BY <1>1, <1>14
<1>16. /\ loop[N] \in Seq(Int) /\ Sorted(loop[N])
       /\ Elements(loop[N]) = Elements(v) \cup (Visited(p, n, N) \cap near)
  BY <1>15 DEF Good
<1> QED
  BY <1>2, <1>3, <1>16

-----------------------------------------------------------------------------
(* UpdateBoxOldSectors *)

\* No element twice.
Distinct(v) == \A i, j \in 1 .. Len(v) : v[i] = v[j] => i = j

LEMMA SortedIsDistinct ==
  ASSUME NEW v \in Seq(Int), Sorted(v)
  PROVE  Distinct(v)
<1> SUFFICES ASSUME NEW i \in 1 .. Len(v), NEW j \in 1 .. Len(v), v[i] = v[j]
             PROVE  i = j
  BY DEF Distinct
<1>1. Len(v) \in Nat /\ v[i] \in Int /\ v[j] \in Int
  BY LenProperties
<1>2. CASE i < j
  <2>1. v[i] < v[j]
    BY <1>2, SortedRises
  <2> QED
    BY <1>1, <2>1
<1>3. CASE j < i
  <2>1. v[j] < v[i]
    BY <1>3, SortedRises
  <2> QED
    BY <1>1, <2>1
<1> QED
  BY <1>1, <1>2, <1>3

\* BoundBox::Sort orders a vector without losing or doubling anything.
LEMMA SortIs ==
  ASSUME NEW v \in Seq(Int), Distinct(v)
  PROVE  Sort(v) \in Seq(Int) /\ Sorted(Sort(v)) /\ Elements(Sort(v)) = Elements(v)
<1> DEFINE N == Len(v)
           loop[k \in 0 .. N] == IF k = 0 THEN <<>> ELSE Insert(loop[k - 1], v[k])
           S == Seq(Int)
           e == <<>>
           g == [k \in 1 .. N |-> [w \in S |-> Insert(w, v[k])]]
<1>1. N \in Nat /\ \A k \in 1 .. N : v[k] \in Int
  BY LenProperties
<1>2. Sort(v) = loop[N]
  BY DEF Sort
<1>3. Elements(v) = {v[j] : j \in 1 .. N}
  BY DEF Elements
<1>4. \A i, j \in 1 .. N : v[i] = v[j] => i = j
  BY DEF Distinct
<1> HIDE DEF N
<1>5. g \in [1 .. N -> [S -> S]]
  BY <1>1, InsertIs
<1>6. e \in S
  OBVIOUS
<1>7. Sorted(e) /\ Elements(e) = {}
  BY DEF Sorted, Elements
<1> HIDE DEF S, g, e
<1>8. PICK f : IsLoop(f, N, S, e, g)
  BY <1>1, <1>5, <1>6, LoopExists
<1>9. /\ f \in [0 .. N -> S] /\ f[0] = e
      /\ \A k \in 1 .. N : f[k] = g[k][f[k - 1]]
  BY <1>8 DEF IsLoop
<1>10. ASSUME NEW k \in 1 .. N PROVE f[k] = Insert(f[k - 1], v[k])
  <2>1. f[k - 1] \in S
    BY <1>1, <1>9
  <2> QED
    BY <1>9, <2>1 DEF g
<1>11. \E h : h = [k \in 0 .. N |-> IF k = 0 THEN e ELSE Insert(h[k - 1], v[k])]
  <2>1. f = [k \in 0 .. N |-> IF k = 0 THEN e ELSE Insert(f[k - 1], v[k])]
    BY <1>1, <1>9, <1>10
  <2> QED
    BY <2>1
<1>12. loop = [k \in 0 .. N |-> IF k = 0 THEN e ELSE Insert(loop[k - 1], v[k])]
  BY <1>11 DEF e
<1> HIDE DEF loop
<1>13. loop[0] = e /\ \A k \in 1 .. N : loop[k] = Insert(loop[k - 1], v[k])
  BY <1>1, <1>12
<1> DEFINE Good == [k \in 0 .. N |->
                      {w \in Seq(Int) :
                         Sorted(w) /\ Elements(w) = {v[j] : j \in 1 .. k}}]
<1>14. loop[0] \in Good[0]
  <2>1. {v[j] : j \in 1 .. 0} = {} /\ e \in Seq(Int)
    BY DEF e
  <2> QED
    BY <1>1, <1>7, <1>13, <2>1
<1>15. ASSUME NEW k \in 1 .. N, loop[k - 1] \in Good[k - 1]
       PROVE  loop[k] \in Good[k]
  <2> DEFINE w == loop[k - 1]
             u == loop[k]
  <2>1. k - 1 \in 0 .. N /\ k \in 0 .. N /\ v[k] \in Int
    BY <1>1
  <2>2. /\ w \in Seq(Int) /\ Sorted(w) /\ Elements(w) = {v[j] : j \in 1 .. k - 1}
    BY <1>15, <2>1
  <2>3. u = Insert(w, v[k])
    BY <1>13
  <2> HIDE DEF w, u
  <2>4. v[k] \notin Elements(w)
    <3> SUFFICES ASSUME NEW j \in 1 .. k - 1 PROVE v[j] # v[k]
      BY <2>2
    <3>1. j \in 1 .. N /\ j # k
      BY <1>1
    <3> QED
      BY <1>4, <3>1
  <2>5. u \in Seq(Int) /\ Sorted(u) /\ Elements(u) = Elements(w) \cup {v[k]}
    BY <2>1, <2>2, <2>3, <2>4, InsertIs
  <2>6. Elements(u) = {v[j] : j \in 1 .. k}
    <3>1. \A j : j \in 1 .. k <=> j \in 1 .. k - 1 \/ j = k
      BY <1>1, <2>1
    <3> QED
      BY <2>2, <2>5, <3>1
  <2> QED
    BY <2>1, <2>5, <2>6 DEF u
<1> HIDE DEF Good
<1>16. \A k \in 0 .. N : loop[k] \in Good[k]
  BY <1>1, <1>14, <1>15, LoopInvariant
<1>17. loop[N] \in Good[N] /\ N \in 0 .. N
  BY <1>1, <1>16
<1>18. /\ loop[N] \in Seq(Int) /\ Sorted(loop[N])
       /\ Elements(loop[N]) = {v[j] : j \in 1 .. N}
  BY <1>17 DEF Good
<1> QED
  BY <1>2, <1>3, <1>18

\* RemoveUnsorted takes the element at i out of a vector that has none twice.
LEMMA RemoveUnsortedIs ==
  ASSUME NEW v \in Seq(Int), NEW i \in 1 .. Len(v), Distinct(v)
  PROVE  /\ RemoveUnsorted(v, i) \in Seq(Int)
         /\ Len(RemoveUnsorted(v, i)) = Len(v) - 1
         /\ \A j \in 1 .. Len(v) - 1 : j < i => RemoveUnsorted(v, i)[j] = v[j]
         /\ Distinct(RemoveUnsorted(v, i))
         /\ Elements(RemoveUnsorted(v, i)) = Elements(v) \ {v[i]}
<1> DEFINE n == Len(v)
           f == Front(v)
           w == RemoveUnsorted(v, i)
<1>1. n \in Nat /\ n > 0 /\ \A j \in 1 .. n : v[j] \in Int
  BY LenProperties
<1>2. f \in Seq(Int) /\ Len(f) = n - 1 /\ \A j \in 1 .. n - 1 : f[j] = v[j]
  <2>1. \A j \in 1 .. n - 1 : v[j] \in Int
    BY <1>1
  <2>2. f = SubSeq(v, 1, n - 1)
    BY DEF Front
  <2>3. /\ f \in Seq(Int) /\ Len(f) = IF 1 <= n - 1 THEN n - 1 - 1 + 1 ELSE 0
        /\ \A j \in 1 .. n - 1 - 1 + 1 : f[j] = v[1 + j - 1]
    BY <1>1, <2>1, <2>2, SubSeqProperties
  <2> HIDE DEF f, n
  <2>4. Len(f) = n - 1
    BY <1>1, <2>3
  <2>5. ASSUME NEW j \in 1 .. n - 1 PROVE f[j] = v[j]
    <3>1. j \in 1 .. n - 1 - 1 + 1 /\ 1 + j - 1 = j
      BY <1>1
    <3> QED
      BY <2>3, <3>1
  <2> QED
    BY <2>3, <2>4, <2>5
<1>3. w = IF i < n THEN [f EXCEPT ![i] = v[n]] ELSE f
  BY DEF RemoveUnsorted, Last
<1> HIDE DEF f, w
<1>4. /\ w \in Seq(Int) /\ Len(w) = n - 1
      /\ \A j \in 1 .. n - 1 : w[j] = IF j = i THEN v[n] ELSE v[j]
  <2>1. CASE i < n
    <3>1. i \in 1 .. Len(f) /\ v[n] \in Int
      BY <1>1, <1>2, <2>1
    <3>2. w = [f EXCEPT ![i] = v[n]]
      BY <1>3, <2>1
    <3>3. /\ w \in Seq(Int) /\ Len(w) = Len(f)
          /\ \A j \in 1 .. Len(f) : w[j] = IF j = i THEN v[n] ELSE f[j]
      BY <1>2, <3>1, <3>2, ExceptSeq
    <3> QED
      BY <1>2, <3>3
  <2>2. CASE ~ (i < n)
    <3>1. \A j \in 1 .. n - 1 : j # i
      BY <1>1, <2>2
    <3> QED
      BY <1>2, <1>3, <2>2, <3>1
  <2> QED
    BY <2>1, <2>2
<1>5. \A j, k \in 1 .. n : v[j] = v[k] => j = k
  BY DEF Distinct
<1>6. \A j \in 1 .. n - 1 : j < i => w[j] = v[j]
  BY <1>1, <1>4
<1>7. Distinct(w)
  <2> SUFFICES ASSUME NEW j \in 1 .. n - 1, NEW k \in 1 .. n - 1, w[j] = w[k]
               PROVE  j = k
    BY <1>4 DEF Distinct
  <2>1. j \in 1 .. n /\ k \in 1 .. n /\ n \in 1 .. n /\ j # n /\ k # n
    BY <1>1
  <2> QED
    BY <1>4, <1>5, <2>1
<1>8. Elements(w) = Elements(v) \ {v[i]}
  <2>1. Elements(w) = {w[j] : j \in 1 .. n - 1} /\ Elements(v) = {v[j] : j \in 1 .. n}
    BY <1>4 DEF Elements
  <2>2. ASSUME NEW j \in 1 .. n - 1 PROVE w[j] \in Elements(v) \ {v[i]}
    <3>1. j \in 1 .. n /\ n \in 1 .. n /\ j # n
      BY <1>1
    <3>2. w[j] \in Elements(v)
      BY <1>4, <2>1, <3>1
    <3>3. w[j] # v[i]
      <4>1. CASE j = i
        BY <1>4, <1>5, <3>1, <4>1
      <4>2. CASE j # i
        BY <1>4, <1>5, <3>1, <4>2
      <4> QED
        BY <4>1, <4>2
    <3> QED
      BY <3>2, <3>3
  <2>3. ASSUME NEW j \in 1 .. n, v[j] # v[i] PROVE v[j] \in Elements(w)
    <3>1. j # i
      BY <2>3
    <3>2. CASE j = n
      <4>1. i \in 1 .. n - 1
        BY <1>1, <3>1, <3>2
      <4>2. w[i] = v[j]
        BY <1>4, <3>2, <4>1
      <4> QED
        BY <2>1, <4>1, <4>2
    <3>3. CASE j # n
      <4>1. j \in 1 .. n - 1
        BY <1>1, <3>3
      <4>2. w[j] = v[j]
        BY <1>4, <3>1, <4>1
      <4> QED
        BY <2>1, <4>1, <4>2
    <3> QED
      BY <3>2, <3>3
  <2> QED
    BY <2>1, <2>2, <2>3
<1> QED
  BY <1>4, <1>6, <1>7, <1>8 DEF w

\* The loop of UpdateBoxOldSectors keeps the sectors of near and no others,
\* although the last element jumps to the place of one that leaves; if none
\* leaves the vector is as it was.
LEMMA SweepIs ==
  ASSUME NEW v \in Seq(Int), Distinct(v), NEW near
  PROVE  /\ Sweep(v, near) \in Seq(Int)
         /\ Distinct(Sweep(v, near))
         /\ Elements(Sweep(v, near)) = Elements(v) \cap near
         /\ Len(Sweep(v, near)) = Len(v) => Sweep(v, near) = v
<1> DEFINE N == Len(v)
           S == [list : {w \in Seq(Int) : Distinct(w)}, i : Nat \ {0}]
           x == [list |-> v, i |-> 1]
           loop[k \in 0 .. N] ==
             IF k = 0 THEN [list |-> v, i |-> 1] ELSE SweepStep(loop[k - 1], near)
           g == [k \in 1 .. N |-> [r \in S |-> SweepStep(r, near)]]
<1>1. N \in Nat
  BY LenProperties
<1>2. Sweep(v, near) = loop[N].list
  BY DEF Sweep
<1>3. ASSUME NEW r \in S PROVE SweepStep(r, near) \in S
  <2>1. /\ r.list \in Seq(Int) /\ Distinct(r.list) /\ r.i \in Nat \ {0}
        /\ Len(r.list) \in Nat
    BY LenProperties
  <2>2. CASE r.i > Len(r.list)
    BY <2>2 DEF SweepStep
  <2>3. CASE ~ (r.i > Len(r.list)) /\ r.list[r.i] \in near
    <3>1. SweepStep(r, near) = [list |-> r.list, i |-> r.i + 1]
      BY <2>3 DEF SweepStep
    <3> QED
      BY <2>1, <3>1
  <2>4. CASE ~ (r.i > Len(r.list)) /\ r.list[r.i] \notin near
    <3>1. SweepStep(r, near) = [list |-> RemoveUnsorted(r.list, r.i), i |-> r.i]
      BY <2>4 DEF SweepStep
    <3>2. r.i \in 1 .. Len(r.list)
      BY <2>1, <2>4
    <3>3. /\ RemoveUnsorted(r.list, r.i) \in Seq(Int)
          /\ Distinct(RemoveUnsorted(r.list, r.i))
      BY <2>1, <3>2, RemoveUnsortedIs
    <3> QED
      BY <2>1, <3>1, <3>3
  <2> QED
    BY <2>2, <2>3, <2>4
<1>4. g \in [1 .. N -> [S -> S]]
  BY <1>3
<1>5. x \in S
  OBVIOUS
<1> HIDE DEF N, S, g, x
<1>6. PICK f : IsLoop(f, N, S, x, g)
  BY <1>1, <1>4, <1>5, LoopExists
<1>7. /\ f \in [0 .. N -> S] /\ f[0] = x
      /\ \A k \in 1 .. N : f[k] = g[k][f[k - 1]]
  BY <1>6 DEF IsLoop
<1>8. ASSUME NEW k \in 1 .. N PROVE f[k] = SweepStep(f[k - 1], near)
  <2>1. f[k - 1] \in S
    BY <1>1, <1>7
  <2> QED
    BY <1>7, <2>1 DEF g
<1>9. \E h : h = [k \in 0 .. N |-> IF k = 0 THEN x ELSE SweepStep(h[k - 1], near)]
  <2>1. f = [k \in 0 .. N |-> IF k = 0 THEN x ELSE SweepStep(f[k - 1], near)]
    BY <1>1, <1>7, <1>8
  <2> QED
    BY <2>1
<1>10. loop = [k \in 0 .. N |-> IF k = 0 THEN x ELSE SweepStep(loop[k - 1], near)]
  BY <1>9 DEF x
<1> HIDE DEF loop
<1>11. loop[0] = x /\ \A k \in 1 .. N : loop[k] = SweepStep(loop[k - 1], near)
  BY <1>1, <1>10
<1> DEFINE Inv(r, k) ==
             /\ r.list \in Seq(Int) /\ Distinct(r.list)
             /\ r.i \in Nat \ {0} /\ r.i + N = Len(r.list) + k + 1
             /\ \A j \in 1 .. Len(r.list) : j < r.i => r.list[j] \in near
             /\ Elements(r.list) \subseteq Elements(v)
             /\ Elements(v) \cap near \subseteq Elements(r.list)
             /\ Len(r.list) <= N /\ (Len(r.list) = N => r.list = v)
           Good == [k \in 0 .. N |-> {r \in S : Inv(r, k)}]
<1>12. loop[0] \in Good[0]
  <2>1. x.list = v /\ x.i = 1
    BY DEF x
  <2>2. Inv(x, 0)
    BY <1>1, <2>1 DEF N
  <2> QED
    BY <1>1, <1>5, <1>11, <2>2
<1>13. ASSUME NEW k \in 1 .. N, loop[k - 1] \in Good[k - 1]
       PROVE  loop[k] \in Good[k]
  <2> DEFINE r == loop[k - 1]
             t == loop[k]
             w == r.list
             u == RemoveUnsorted(w, r.i)
  <2>1. k - 1 \in 0 .. N /\ k \in 0 .. N
    BY <1>1
  <2>2. r \in S /\ Inv(r, k - 1)
    BY <1>13, <2>1
  <2>3. t = SweepStep(r, near)
    BY <1>11
  <2>4. t \in S
    BY <1>3, <2>2, <2>3 DEF S
  <2> HIDE DEF r, t, Inv
  <2>5. /\ w \in Seq(Int) /\ Distinct(w)
        /\ r.i \in Nat \ {0} /\ r.i + N = Len(w) + (k - 1) + 1
        /\ \A j \in 1 .. Len(w) : j < r.i => w[j] \in near
        /\ Elements(w) \subseteq Elements(v)
        /\ Elements(v) \cap near \subseteq Elements(w)
        /\ Len(w) <= N /\ (Len(w) = N => w = v)
        /\ Len(w) \in Nat
    BY <2>2, LenProperties DEF Inv
  <2>6. r.i \in 1 .. Len(w) /\ ~ (r.i > Len(w))
    BY <1>1, <2>5
  <2> SUFFICES Inv(t, k)
    BY <2>1, <2>4 DEF t
  <2>7. CASE w[r.i] \in near
    <3>1. t = [list |-> w, i |-> r.i + 1]
      BY <2>3, <2>6, <2>7 DEF SweepStep
    <3>2. t.list = w /\ t.i = r.i + 1
      BY <3>1
    <3>3. r.i + 1 \in Nat \ {0} /\ r.i + 1 + N = Len(w) + k + 1
      <4> DEFINE a == r.i
                 l == Len(w)
      <4>1. a \in Nat /\ l \in Nat /\ a + N = l + (k - 1) + 1
        BY <2>5
      <4> HIDE DEF a, l
      <4>2. a + 1 \in Nat \ {0} /\ a + 1 + N = l + k + 1
        BY <1>1, <4>1
      <4> QED
        BY <4>2 DEF a, l
    <3>4. ASSUME NEW j \in 1 .. Len(w), j < r.i + 1 PROVE w[j] \in near
      <4>1. j < r.i \/ j = r.i
        BY <2>5, <3>4
      <4> QED
        BY <2>5, <2>7, <4>1
    <3> QED
      BY <2>5, <3>2, <3>3, <3>4 DEF Inv
  <2>8. CASE w[r.i] \notin near
    <3>1. t = [list |-> u, i |-> r.i]
      BY <2>3, <2>6, <2>8 DEF SweepStep
    <3>2. t.list = u /\ t.i = r.i
      BY <3>1
    <3>3. /\ u \in Seq(Int) /\ Len(u) = Len(w) - 1
          /\ \A j \in 1 .. Len(w) - 1 : j < r.i => u[j] = w[j]
          /\ Distinct(u) /\ Elements(u) = Elements(w) \ {w[r.i]}
      BY <2>5, <2>6, RemoveUnsortedIs
    <3> HIDE DEF u, w
    <3>4. r.i + N = Len(u) + k + 1 /\ Len(u) <= N /\ Len(u) # N
      BY <1>1, <2>5, <3>3
    <3>5. ASSUME NEW j \in 1 .. Len(u), j < r.i PROVE u[j] \in near
      <4>1. j \in 1 .. Len(w) - 1 /\ j \in 1 .. Len(w)
        BY <2>5, <3>3
      <4> QED
        BY <2>5, <3>3, <3>5, <4>1
    <3>6. /\ Elements(u) \subseteq Elements(v)
          /\ Elements(v) \cap near \subseteq Elements(u)
      BY <2>5, <2>8, <3>3
    <3> QED
      BY <2>5, <3>2, <3>3, <3>4, <3>5, <3>6 DEF Inv
  <2> QED
    BY <2>7, <2>8
<1> HIDE DEF Good, Inv
<1>14. \A k \in 0 .. N : loop[k] \in Good[k]
  BY <1>1, <1>12, <1>13, LoopInvariant
<1>15. Inv(loop[N], N)
  BY <1>1, <1>14 DEF Good
<1> DEFINE w == loop[N].list
           i == loop[N].i
<1>16. /\ w \in Seq(Int) /\ Distinct(w)
       /\ i \in Nat \ {0} /\ i + N = Len(w) + N + 1
       /\ \A j \in 1 .. Len(w) : j < i => w[j] \in near
       /\ Elements(w) \subseteq Elements(v)
       /\ Elements(v) \cap near \subseteq Elements(w)
       /\ (Len(w) = N => w = v)
       /\ Len(w) \in Nat
  BY <1>15, LenProperties DEF Inv
<1> HIDE DEF w, i
<1>17. \A j \in 1 .. Len(w) : j < i
  BY <1>1, <1>16
<1>18. Elements(w) \subseteq near
  BY <1>16, <1>17 DEF Elements
<1>19. Elements(w) = Elements(v) \cap near
  BY <1>16, <1>18
<1> QED
  BY <1>2, <1>16, <1>19 DEF N, w

\* What stays is sorted again.
LEMMA KeptIs ==
  ASSUME NEW v \in Seq(Int), Sorted(v), NEW near
  PROVE  /\ Kept(v, near) \in Seq(Int)
         /\ Sorted(Kept(v, near))
         /\ Elements(Kept(v, near)) = Elements(v) \cap near
<1> DEFINE w == Sweep(v, near)
<1>1. Kept(v, near) = IF Len(w) # Len(v) THEN Sort(w) ELSE w
  BY DEF Kept
<1>2. /\ w \in Seq(Int) /\ Distinct(w) /\ Elements(w) = Elements(v) \cap near
      /\ Len(w) = Len(v) => w = v
  BY SortedIsDistinct, SweepIs
<1> HIDE DEF w
<1>3. Sort(w) \in Seq(Int) /\ Sorted(Sort(w)) /\ Elements(Sort(w)) = Elements(w)
  BY <1>2, SortIs
<1> QED
  BY <1>1, <1>2, <1>3
=============================================================================
