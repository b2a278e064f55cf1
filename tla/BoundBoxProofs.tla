--------------------------- MODULE BoundBoxProofs ---------------------------
(***************************************************************************)
(* Proofs about the two bound boxes of a snake, ViewPort and SnakeBox, for *)
(* every size of the map and of the view, for every snake and every way it *)
(* may move.                                                               *)
(***************************************************************************)
EXTENDS ViewPort, SnakeBox, SectorGridProofs, FiniteSetTheorems

-----------------------------------------------------------------------------
(* The client's sectors *)

\* A view's sectors are numbers, sorted.
Ordered(v) == v \in Seq(GridSectors) /\ Sorted(v)

LEMMA GridIsInt == GridSectors \subseteq Int
  BY EdgeAssumption DEF GridSectors

LEMMA AroundInGrid ==
  ASSUME NEW p \in Int \X Int, NEW n \in Nat
  PROVE  Around(p, n) \subseteq GridSectors
  BY IndexInGrid DEF Around

LEMMA OrderedIs ==
  ASSUME NEW v, Ordered(v)
  PROVE  v \in Seq(Int) /\ Sorted(v) /\ Elements(v) \subseteq GridSectors
<1>1. v \in Seq(GridSectors) /\ Sorted(v)
  BY DEF Ordered
<1>2. v \in Seq(Int)
  BY <1>1, GridIsInt, SeqMonotonic
<1>3. Elements(v) \subseteq GridSectors
  BY <1>1, SeqOfElements
<1> QED
  BY <1>1, <1>2, <1>3

LEMMA IsOrdered ==
  ASSUME NEW v \in Seq(Int), Sorted(v), Elements(v) \subseteq GridSectors
  PROVE  Ordered(v)
<1>1. v \in Seq(GridSectors)
  BY SeqOfElements
<1> QED
  BY <1>1 DEF Ordered

\* WithNew and Kept on the vectors of views.
LEMMA OrderedWithNew ==
  ASSUME NEW v, Ordered(v), NEW p \in Int \X Int, NEW n \in Nat, NEW near
  PROVE  /\ Ordered(WithNew(v, p, n, near))
         /\ Elements(WithNew(v, p, n, near)) = Elements(v) \cup (Around(p, n) \cap near)
<1> DEFINE w == WithNew(v, p, n, near)
<1>1. v \in Seq(Int) /\ Sorted(v) /\ Elements(v) \subseteq GridSectors
  BY OrderedIs
<1>2. /\ w \in Seq(Int) /\ Sorted(w)
      /\ Elements(w) = Elements(v) \cup (Around(p, n) \cap near)
  BY <1>1, WithNewIs
<1> HIDE DEF w
<1>3. Elements(w) \subseteq GridSectors
  BY <1>1, <1>2, AroundInGrid
<1>4. Ordered(w)
  BY <1>2, <1>3, IsOrdered
<1> QED
  BY <1>2, <1>4 DEF w

LEMMA OrderedKept ==
  ASSUME NEW v, Ordered(v), NEW near
  PROVE  Ordered(Kept(v, near)) /\ Elements(Kept(v, near)) = Elements(v) \cap near
<1> DEFINE w == Kept(v, near)
<1>1. v \in Seq(Int) /\ Sorted(v) /\ Elements(v) \subseteq GridSectors
  BY OrderedIs
<1>2. w \in Seq(Int) /\ Sorted(w) /\ Elements(w) = Elements(v) \cap near
  BY <1>1, KeptIs
<1> HIDE DEF w
<1>3. Ordered(w)
  BY <1>1, <1>2, IsOrdered
<1> QED
  BY <1>2, <1>3 DEF w

\* The empty vector of a view before InitBoxNewSectors.
LEMMA OrderedEmpty == Ordered(<<>>) /\ Elements(<<>>) = {}
  BY DEF Ordered, Sorted, Elements

\* While the changes of the view are still to be sent, they are what turns the
\* sectors the client has into those of the view.
Pending ==
  phase = "broadcast" => Elements(sectors) = (known \cup new_sectors) \ old_sectors

NothingPending == phase = "idle" => new_sectors = {} /\ old_sectors = {}

IInv ==
  /\ TypeOK
  /\ new_sectors \subseteq GridSectors
  /\ ClientSeesView
  /\ DeltasAreExact
  /\ Pending
  /\ NothingPending

LEMMA InitIInv == Init => IInv
<1> SUFFICES ASSUME Init PROVE IInv
  OBVIOUS
<1>1. head \in Int \X Int /\ vp = head /\ phase = "idle"
  BY PositionsAssumption DEF Init
<1>2. sectors = WithNew(<<>>, head, Reach, View(Around(head, Reach), vp))
  BY DEF Init
<1>3. Reach \in Nat
  BY ReachAssumption
<1>4. Ordered(sectors)
  BY <1>1, <1>2, <1>3, OrderedEmpty, OrderedWithNew
<1>5. Elements(sectors) \subseteq GridSectors
  BY <1>4, OrderedIs
<1>6. new_sectors = {} /\ old_sectors = {} /\ known = Elements(sectors)
  BY DEF Init
<1>7. TypeOK
  BY <1>1, <1>4, <1>5, <1>6 DEF TypeOK, Ordered
<1> QED
  BY <1>1, <1>6, <1>7
  DEF IInv, ClientSeesView, DeltasAreExact, Pending, NothingPending

\* What a Tick does to the vector of the view: `grown' is the vector between
\* UpdateBoxNewSectors and UpdateBoxOldSectors.
LEMMA TickView ==
  ASSUME IInv, NEW d \in Moves, Tick(d)
  PROVE  \E grown :
           /\ Ordered(grown)
           /\ Elements(grown) = Elements(sectors) \cup
                (IF Crossed(head', head)
                 THEN View(Around(head', Reach), vp) ELSE {})
           /\ Ordered(sectors')
           /\ Elements(sectors') = View(Elements(grown), head')
           /\ new_sectors' = Elements(grown) \ Elements(sectors)
           /\ old_sectors' = Elements(grown) \ Elements(sectors')
           /\ head' \in Int \X Int /\ vp' = head'
<1>1. /\ head \in Int \X Int /\ Ordered(sectors)
      /\ new_sectors = {} /\ old_sectors = {}
  BY DEF IInv, TypeOK, NothingPending, Tick, Ordered
<1>2. head' = <<head[1] + d[1], head[2] + d[2]>> /\ vp' = head'
  BY DEF Tick
<1>3. head' \in Int \X Int
  BY <1>1, <1>2, PositionsAssumption
<1> DEFINE p == head'
<1>4. PICK grown : /\ grown = NewSectors(p)
                   /\ sectors' = Kept(grown, View(Elements(grown), p))
                   /\ new_sectors' = Registered(new_sectors,
                                                Elements(grown) \ Elements(sectors))
                   /\ old_sectors' = Registered(old_sectors,
                                       Elements(grown) \ View(Elements(grown), p))
  BY <1>2 DEF Tick
<1>5. grown = IF Crossed(p, head)
              THEN WithNew(sectors, p, Reach, View(Around(p, Reach), vp))
              ELSE sectors
  BY <1>4 DEF NewSectors
<1> HIDE DEF p
<1>6. p \in Int \X Int /\ Reach \in Nat
  BY <1>3, ReachAssumption DEF p
<1>7. /\ Ordered(grown)
      /\ Elements(grown) = Elements(sectors) \cup
           (IF Crossed(p, head) THEN View(Around(p, Reach), vp) ELSE {})
  <2>1. CASE Crossed(p, head)
    <3>1. /\ Ordered(grown)
          /\ Elements(grown) = Elements(sectors) \cup
               (Around(p, Reach) \cap View(Around(p, Reach), vp))
      BY <1>1, <1>5, <1>6, <2>1, OrderedWithNew
    <3>2. View(Around(p, Reach), vp) \subseteq Around(p, Reach)
      BY DEF View
    <3> QED
      BY <2>1, <3>1, <3>2
  <2>2. CASE ~Crossed(p, head)
    BY <1>1, <1>5, <2>2
  <2> QED
    BY <2>1, <2>2
<1>8. /\ Ordered(sectors')
      /\ Elements(sectors') = Elements(grown) \cap View(Elements(grown), p)
  BY <1>4, <1>7, OrderedKept
<1>9. View(Elements(grown), p) \subseteq Elements(grown)
  BY DEF View
<1>10. Elements(sectors') = View(Elements(grown), p)
  BY <1>8, <1>9
<1>11. /\ new_sectors' = Elements(grown) \ Elements(sectors)
       /\ old_sectors' = Elements(grown) \ Elements(sectors')
  BY <1>1, <1>4, <1>10 DEF Registered
<1> QED
  BY <1>2, <1>3, <1>7, <1>8, <1>10, <1>11 DEF p

LEMMA TickIInv ==
  ASSUME IInv, NEW d \in Moves, Tick(d)
  PROVE  IInv'
<1>1. PICK grown :
           /\ Ordered(grown)
           /\ Elements(sectors) \subseteq Elements(grown)
           /\ Ordered(sectors')
           /\ Elements(sectors') \subseteq Elements(grown)
           /\ new_sectors' = Elements(grown) \ Elements(sectors)
           /\ old_sectors' = Elements(grown) \ Elements(sectors')
           /\ head' \in Int \X Int /\ vp' = head'
  BY TickView DEF View
<1>2. known' = known /\ known = Elements(sectors) /\ phase' = "broadcast"
  BY DEF IInv, ClientSeesView, Tick
<1>3. Elements(grown) \subseteq GridSectors
  BY <1>1, OrderedIs
<1>4. TypeOK' /\ new_sectors' \subseteq GridSectors
  BY <1>1, <1>2, <1>3 DEF TypeOK, Ordered
<1>5. Elements(sectors)' = Elements(sectors')
  BY DEF Elements
<1>6. /\ new_sectors' \cap known' = {}
      /\ old_sectors' \subseteq known' \cup new_sectors'
      /\ Elements(sectors)' = (known' \cup new_sectors') \ old_sectors'
  BY <1>1, <1>2, <1>5
<1> QED
  BY <1>2, <1>4, <1>6
  DEF IInv, ClientSeesView, DeltasAreExact, Pending, NothingPending

LEMMA NextIInv == IInv /\ [Next]_vars => IInv'
<1> SUFFICES ASSUME IInv, [Next]_vars PROVE IInv'
  OBVIOUS
<1>1. CASE \E d \in Moves : Tick(d)
  BY <1>1, TickIInv
<1>2. CASE SendPOVUpdate
  <2> USE <1>2 DEF SendPOVUpdate
  <2>1. known' = Elements(sectors) /\ phase' = "idle"
    BY DEF AfterPOVUpdate, IInv, Pending
  <2>2. Elements(sectors) \subseteq GridSectors
    BY OrderedIs DEF IInv, TypeOK, Ordered
  <2>3. TypeOK' /\ new_sectors' \subseteq GridSectors
    BY <2>1, <2>2 DEF IInv, TypeOK
  <2> QED
    BY <2>1, <2>3
    DEF IInv, ClientSeesView, DeltasAreExact, Pending, NothingPending, Elements
<1>3. CASE Die
  BY <1>3 DEF Die, IInv, TypeOK, ClientSeesView, DeltasAreExact, Pending,
              NothingPending
<1>4. CASE UNCHANGED vars
  BY <1>4 DEF vars, IInv, TypeOK, ClientSeesView, DeltasAreExact, Pending,
              NothingPending
<1> QED
  BY <1>1, <1>2, <1>3, <1>4 DEF Next

LEMMA Invariance == Spec => []IInv
  BY InitIInv, NextIInv, PTL DEF Spec

-----------------------------------------------------------------------------
(* The view is around the head *)

\* The coordinates of a sector.
LEMMA CoordinatesOf ==
  ASSUME NEW i \in 0 .. Edge - 1, NEW j \in 0 .. Edge - 1
  PROVE  SectorX(get_index(i, j)) = i /\ SectorY(get_index(i, j)) = j
  BY EdgeAssumption, RoundOf DEF SectorX, SectorY, get_index

\* A product is bounded by the bounds of its factors.
LEMMA SquareBound ==
  ASSUME NEW x \in Int, NEW b \in Nat, -b <= x, x <= b
  PROVE  x * x \in Int /\ x * x <= b * b
<1>1. CASE x >= 0
  <2>1. x * x <= x * b
    BY <1>1
  <2>2. x * b <= b * b
    BY <1>1
  <2> QED
    BY <2>1, <2>2
<1>2. CASE x < 0
  <2>1. PICK y \in Nat : y = -x
    BY <1>2
  <2>2. y <= b /\ x * x = y * y
    BY <2>1
  <2>3. y * y <= y * b
    BY <2>2
  <2>4. y * b <= b * b
    BY <2>2
  <2> QED
    BY <2>2, <2>3, <2>4
<1> QED
  BY <1>1, <1>2

\* A sector is in view if its centre is at most Reach sectors away each way:
\* the diagonal of that square is within the radius, half a sector included.
LEMMA NearIsInView ==
  ASSUME NEW s \in Int, NEW p \in Int \X Int, NEW dx \in Int, NEW dy \in Int,
         dx = p[1] - (SectorX(s) * 300 + 150), dy = p[2] - (SectorY(s) * 300 + 150),
         -(300 * Reach) <= dx, dx <= 300 * Reach,
         -(300 * Reach) <= dy, dy <= 300 * Reach
  PROVE  InView(s, p)
<1> DEFINE b == 300 * Reach
           r == Reach * Reach
           twice == (2 * Reach + 1) * 425
<1>1. Reach \in Nat /\ b \in Nat /\ r \in Nat
  BY ReachAssumption
<1>2. dx * dx \in Int /\ dx * dx <= b * b /\ dy * dy \in Int /\ dy * dy <= b * b
  BY <1>1, SquareBound
<1>3. b * b = 90000 * r
  BY <1>1
<1>4. twice * twice = 722500 * r + 722500 * Reach + 180625
  BY <1>1
<1>5. CentreDistance2(s, p, 1) = dx * dx + dy * dy
  <2>1. SectorX(s) \in Int /\ SectorY(s) \in Int
    BY EdgeAssumption DEF SectorX, SectorY
  <2>2. /\ p[1] - 1 * (SectorX(s) * 300 + 300 \div 2) = dx
        /\ p[2] - 1 * (SectorY(s) * 300 + 300 \div 2) = dy
    BY <2>1
  <2> QED
    BY <2>2 DEF CentreDistance2, sector_size
<1> DEFINE bb == b * b
           xx == dx * dx
           yy == dy * dy
           tt == twice * twice
<1>6. InView(s, p) <=> 4 * (xx + yy) <= tt
  BY <1>5 DEF InView, sector_diag_size
<1>7. /\ xx \in Int /\ yy \in Int /\ xx <= bb /\ yy <= bb /\ bb = 90000 * r
      /\ tt = 722500 * r + 722500 * Reach + 180625
  BY <1>2, <1>3, <1>4
<1> HIDE DEF bb, xx, yy, tt, r
<1>8. 4 * (xx + yy) <= 720000 * r /\ 720000 * r <= tt
  BY <1>1, <1>7
<1> QED
  BY <1>1, <1>6, <1>7, <1>8

\* The sectors up to Reach - 1 away from a position are in view from every
\* position up to half a sector away each way.
LEMMA AroundIsInView ==
  ASSUME NEW p \in Int \X Int, NEW q \in Int \X Int,
         -150 <= q[1] - p[1], q[1] - p[1] <= 150,
         -150 <= q[2] - p[2], q[2] - p[2] <= 150,
         NEW s \in Around(p, Reach - 1)
  PROVE  InView(s, q)
<1>1. Reach \in Nat /\ Reach > 0
  BY ReachAssumption
<1> DEFINE n == Reach - 1
           cx == p[1] \div 300
           cy == p[2] \div 300
<1>2. PICK i \in (cx - n .. cx + n) \cap (0 .. Edge - 1),
           j \in (cy - n .. cy + n) \cap (0 .. Edge - 1) : s = get_index(i, j)
  BY DEF Around, Cell, sector_size
<1>3. SectorX(s) = i /\ SectorY(s) = j /\ s \in Int
  BY <1>2, CoordinatesOf, IndexInGrid, GridIsInt
<1>4. /\ cx \in Int /\ 300 * cx <= p[1] /\ p[1] < 300 * cx + 300
      /\ cy \in Int /\ 300 * cy <= p[2] /\ p[2] < 300 * cy + 300
  OBVIOUS
<1> HIDE DEF cx, cy
<1>5. PICK dx \in Int, dy \in Int :
        dx = q[1] - (i * 300 + 150) /\ dy = q[2] - (j * 300 + 150)
  OBVIOUS
<1>6. -(300 * Reach) <= dx /\ dx <= 300 * Reach
  BY <1>1, <1>2, <1>4, <1>5
<1>7. -(300 * Reach) <= dy /\ dy <= 300 * Reach
  BY <1>1, <1>2, <1>4, <1>5
<1> QED
  BY <1>3, <1>5, <1>6, <1>7, NearIsInView

LEMMA AroundGrows ==
  ASSUME NEW p \in Int \X Int
  PROVE  Around(p, Reach - 1) \subseteq Around(p, Reach)
<1>1. Reach \in Nat
  BY ReachAssumption
<1> DEFINE cx == Cell(p[1])
           cy == Cell(p[2])
<1>2. cx \in Int /\ cy \in Int
  BY DEF Cell, sector_size
<1>3. \A n : Around(p, n) =
        {get_index(i, j) : i \in (cx - n .. cx + n) \cap (0 .. Edge - 1),
                           j \in (cy - n .. cy + n) \cap (0 .. Edge - 1)}
  BY DEF Around
<1> HIDE DEF cx, cy
<1>4. /\ cx - (Reach - 1) .. cx + (Reach - 1) \subseteq cx - Reach .. cx + Reach
      /\ cy - (Reach - 1) .. cy + (Reach - 1) \subseteq cy - Reach .. cy + Reach
  BY <1>1, <1>2
<1> QED
  BY <1>3, <1>4

\* A step of at most half a sector each way.
SmallMoves == Moves \subseteq (-150 .. 150) \X (-150 .. 150)

LEMMA InitAround == Init => ViewIsAroundHead
<1> SUFFICES ASSUME Init PROVE ViewIsAroundHead
  OBVIOUS
<1>1. /\ head \in Int \X Int /\ vp = head /\ Reach \in Nat
      /\ sectors = WithNew(<<>>, head, Reach, View(Around(head, Reach), vp))
  BY PositionsAssumption, ReachAssumption DEF Init
<1>2. Elements(sectors) =
        Elements(<<>>) \cup (Around(head, Reach) \cap View(Around(head, Reach), vp))
  BY <1>1, OrderedEmpty, OrderedWithNew
<1>3. Elements(sectors) = {s \in Around(head, Reach) : InView(s, head)}
  BY <1>1, <1>2, OrderedEmpty DEF View
<1>4. ASSUME NEW s \in Around(head, Reach - 1) PROVE InView(s, head)
  <2>1. head[1] - head[1] = 0 /\ head[2] - head[2] = 0
    BY <1>1
  <2> QED
    BY <1>1, <2>1, AroundIsInView
<1> QED
  BY <1>1, <1>3, <1>4, AroundGrows DEF ViewIsAroundHead

LEMMA TickAround ==
  ASSUME SmallMoves, IInv, ViewIsAroundHead, NEW d \in Moves, Tick(d)
  PROVE  ViewIsAroundHead'
<1> DEFINE p == head'
<1>1. PICK grown :
           /\ Elements(grown) = Elements(sectors) \cup
                (IF Crossed(p, head) THEN View(Around(p, Reach), vp) ELSE {})
           /\ Elements(sectors') = View(Elements(grown), p)
           /\ p \in Int \X Int
  BY TickView
<1>2. /\ head \in Int \X Int /\ vp = head
      /\ p = <<head[1] + d[1], head[2] + d[2]>>
  BY DEF IInv, TypeOK, Tick
<1>3. /\ -150 <= head[1] - p[1] /\ head[1] - p[1] <= 150
      /\ -150 <= head[2] - p[2] /\ head[2] - p[2] <= 150
  <2>1. d[1] \in -150 .. 150 /\ d[2] \in -150 .. 150
    BY DEF SmallMoves
  <2>2. p[1] = head[1] + d[1] /\ p[2] = head[2] + d[2]
    BY <1>2
  <2> HIDE DEF p
  <2> QED
    BY <1>2, <2>1, <2>2
<1> HIDE DEF p
<1>4. ASSUME NEW s \in Around(p, Reach - 1) PROVE InView(s, p) /\ InView(s, vp)
  <2>1. p[1] - p[1] = 0 /\ p[2] - p[2] = 0
    BY <1>1
  <2>2. InView(s, p)
    BY <1>1, <2>1, AroundIsInView
  <2>3. InView(s, head)
    BY <1>1, <1>2, <1>3, AroundIsInView
  <2> QED
    BY <1>2, <2>2, <2>3
<1>5. Around(p, Reach - 1) \subseteq Elements(grown)
  <2>1. CASE Crossed(p, head)
    BY <1>1, <1>4, <2>1, AroundGrows DEF View
  <2>2. CASE ~Crossed(p, head)
    <3>1. Cell(p[1]) = Cell(head[1]) /\ Cell(p[2]) = Cell(head[2])
      BY <2>2 DEF Crossed
    <3>2. Around(p, Reach - 1) = Around(head, Reach - 1)
      BY <3>1 DEF Around
    <3> QED
      BY <1>1, <3>2 DEF ViewIsAroundHead
  <2> QED
    BY <2>1, <2>2
<1>6. Around(p, Reach - 1) \subseteq Elements(sectors')
  BY <1>1, <1>4, <1>5 DEF View
<1>7. \A s \in Elements(sectors') : InView(s, p)
  BY <1>1 DEF View
<1>8. /\ Around(head, Reach - 1)' = Around(p, Reach - 1)
      /\ Elements(sectors)' = Elements(sectors')
      /\ \A s : InView(s, head)' <=> InView(s, p)
  BY DEF p, Around, Elements, InView, CentreDistance2
<1> QED
  BY <1>6, <1>7, <1>8 DEF ViewIsAroundHead

-----------------------------------------------------------------------------
(* Theorems *)

\* The vector of a view port is sorted and holds no sector twice, through every
\* insertion of UpdateBoxNewSectors and every removal of UpdateBoxOldSectors.
THEOREM ViewTypeCorrect == Spec => []TypeOK
<1>1. IInv => TypeOK
  BY DEF IInv
<1> QED
  BY <1>1, Invariance, PTL

\* Between handlers a client keeps exactly the sectors of its view.
THEOREM ClientAlwaysSeesView == Spec => []ClientSeesView
<1>1. IInv => ClientSeesView
  BY DEF IInv
<1> QED
  BY <1>1, Invariance, PTL

\* SendPOVUpdateTo never adds a sector the client has and never removes one it
\* does not have.
THEOREM DeltasStayExact == Spec => []DeltasAreExact
<1>1. IInv => DeltasAreExact
  BY DEF IInv
<1> QED
  BY <1>1, Invariance, PTL

\* If no Tick moves the head by more than half a sector each way, which is
\* three movement frames, the sectors around the head are in the view although
\* the new ones are chosen with the view of the Tick before.
THEOREM ViewStaysAroundHead ==
  ASSUME SmallMoves
  PROVE  Spec => []ViewIsAroundHead
<1>1. ASSUME IInv, ViewIsAroundHead, [Next]_vars PROVE ViewIsAroundHead'
  <2>1. CASE \E d \in Moves : Tick(d)
    BY <1>1, <2>1, TickAround
  <2>2. CASE SendPOVUpdate \/ Die \/ UNCHANGED vars
    <3>1. head' = head /\ sectors' = sectors
      BY <2>2 DEF SendPOVUpdate, Die, vars
    <3> QED
      BY <1>1, <3>1 DEF ViewIsAroundHead, Around, Elements, InView, CentreDistance2
  <2> QED
    BY <1>1, <2>1, <2>2 DEF Next
<1> QED
  BY <1>1, InitAround, Invariance, PTL DEF Spec

-----------------------------------------------------------------------------
(* The parts of a snake *)

Positions == Int \X Int

\* A loop whose rounds are numbered from 1, where round 1 gives x.
IsChain(f, n, S, x, g) ==
  /\ f \in [1 .. n -> S] /\ f[1] = x
  /\ \A k \in 2 .. n : f[k] = g[k][f[k - 1]]

LEMMA ChainExists ==
  ASSUME NEW n \in Nat \ {0}, NEW S, NEW x \in S, NEW g \in [2 .. n -> [S -> S]]
  PROVE  \E f : IsChain(f, n, S, x, g)
<1> DEFINE m == n - 1
           h == [k \in 1 .. m |-> g[k + 1]]
<1>1. m \in Nat /\ \A k \in 1 .. m : k + 1 \in 2 .. n
  OBVIOUS
<1>2. h \in [1 .. m -> [S -> S]]
  BY <1>1
<1>3. PICK e : IsLoop(e, m, S, x, h)
  BY <1>1, <1>2, LoopExists
<1>4. /\ e \in [0 .. m -> S] /\ e[0] = x
      /\ \A k \in 1 .. m : e[k] = h[k][e[k - 1]]
  BY <1>3 DEF IsLoop
<1> DEFINE f == [k \in 1 .. n |-> e[k - 1]]
<1>5. \A k \in 1 .. n : k - 1 \in 0 .. m
  BY <1>1
<1>6. f \in [1 .. n -> S] /\ f[1] = x
  BY <1>4, <1>5
<1>7. ASSUME NEW k \in 2 .. n PROVE f[k] = g[k][f[k - 1]]
  <2>1. k - 1 \in 1 .. m /\ (k - 1) + 1 = k /\ k \in 1 .. n /\ k - 1 \in 1 .. n
    BY <1>1
  <2>2. e[k - 1] = h[k - 1][e[(k - 1) - 1]] /\ h[k - 1] = g[k]
    BY <1>4, <2>1
  <2>3. f[k] = e[k - 1] /\ f[k - 1] = e[(k - 1) - 1]
    BY <2>1
  <2> QED
    BY <2>2, <2>3
<1> HIDE DEF f
<1>8. IsChain(f, n, S, x, g)
  BY <1>6, <1>7 DEF IsChain
<1> QED
  BY <1>8

\* What every round keeps.
LEMMA ChainInvariant ==
  ASSUME NEW n \in Nat \ {0}, NEW f, NEW S, f[1] \in S,
         \A k \in 2 .. n : f[k - 1] \in S => f[k] \in S
  PROVE  \A k \in 1 .. n : f[k] \in S
<1> DEFINE m == n - 1
           e == [k \in 0 .. m |-> f[k + 1]]
           Good == [k \in 0 .. m |-> S]
<1>1. m \in Nat /\ 0 \in 0 .. m
  OBVIOUS
<1>2. e[0] \in Good[0]
  BY <1>1
<1>3. ASSUME NEW k \in 1 .. m, e[k - 1] \in Good[k - 1] PROVE e[k] \in Good[k]
  <2>1. k - 1 \in 0 .. m /\ k \in 0 .. m /\ k + 1 \in 2 .. n /\ (k - 1) + 1 = (k + 1) - 1
    BY <1>1
  <2>2. f[(k + 1) - 1] \in S
    BY <1>3, <2>1
  <2> QED
    BY <2>1, <2>2
<1> HIDE DEF e, Good
<1>4. \A k \in 0 .. m : e[k] \in Good[k]
  BY <1>1, <1>2, <1>3, LoopInvariant
<1>5. ASSUME NEW k \in 1 .. n PROVE f[k] \in S
  <2>1. k - 1 \in 0 .. m /\ (k - 1) + 1 = k
    BY <1>1
  <2> QED
    BY <1>4, <2>1 DEF e, Good
<1> QED
  BY <1>5

\* What holds in the first round and is passed on from round to round.
LEMMA RoundByRound ==
  ASSUME NEW n \in Nat \ {0}, NEW P, 1 \in P, \A k \in 2 .. n : k - 1 \in P => k \in P
  PROVE  \A k \in 1 .. n : k \in P
<1> DEFINE f == [k \in 1 .. n |-> k]
<1>1. f[1] \in P /\ \A k \in 2 .. n : f[k - 1] \in P => f[k] \in P
  <2>1. 1 \in 1 .. n /\ \A k \in 2 .. n : k \in 1 .. n /\ k - 1 \in 1 .. n
    OBVIOUS
  <2> QED
    BY <2>1
<1>2. \A k \in 1 .. n : f[k] = k
  OBVIOUS
<1> HIDE DEF f
<1>3. \A k \in 1 .. n : f[k] \in P
  BY <1>1, ChainInvariant
<1> QED
  BY <1>2, <1>3

LEMMA SequenceOf ==
  ASSUME NEW n \in Nat, NEW S, NEW f \in [1 .. n -> S]
  PROVE  f \in Seq(S) /\ Len(f) = n
<1>1. f \in Seq(S)
  BY SeqDef
<1> QED
  BY <1>1, LenProperties

LEMMA VectorIs ==
  ASSUME NEW a \in Int, NEW d \in Int
  PROVE  Vector(a, d) \in Positions
<1> DEFINE diagonal == (d * 707) \div 1000
           cosine == <<d, diagonal, 0, -diagonal, -d, -diagonal, 0, diagonal>>
<1>1. diagonal \in Int
  OBVIOUS
<1> HIDE DEF diagonal
<1>2. \A k \in 1 .. 8 : cosine[k] \in Int
  <2>1. \A k \in 1 .. 8 : \/ k = 1 \/ k = 2 \/ k = 3 \/ k = 4
                          \/ k = 5 \/ k = 6 \/ k = 7 \/ k = 8
    OBVIOUS
  <2>2. /\ cosine[1] = d /\ cosine[2] = diagonal /\ cosine[3] = 0 /\ cosine[4] = -diagonal
        /\ cosine[5] = -d /\ cosine[6] = -diagonal /\ cosine[7] = 0 /\ cosine[8] = diagonal
    OBVIOUS
  <2> HIDE DEF cosine
  <2> QED
    BY <1>1, <2>1, <2>2
<1>3. (a % 8) + 1 \in 1 .. 8 /\ ((a + 6) % 8) + 1 \in 1 .. 8
  OBVIOUS
<1>4. Vector(a, d) = <<cosine[(a % 8) + 1], cosine[((a + 6) % 8) + 1]>>
  BY DEF Vector, diagonal
<1> HIDE DEF cosine
<1> QED
  BY <1>2, <1>3, <1>4 DEF Positions

\* Positions are made of positions.
LEMMA PositionsAre ==
  ASSUME NEW p \in Positions, NEW q \in Positions, NEW k \in Int
  PROVE  /\ Plus(p, q) \in Positions /\ Offset(p, q, k) \in Positions
         /\ Whole(p) \in Positions /\ Pixel(p) \in Positions
<1>1. p[1] \in Int /\ p[2] \in Int /\ q[1] \in Int /\ q[2] \in Int
  BY DEF Positions
<1>2. /\ (k * (q[1] - p[1])) \div 400 \in Int /\ (k * (q[2] - p[2])) \div 400 \in Int
      /\ p[1] \div 10 \in Int /\ p[2] \div 10 \in Int
  BY <1>1
<1>3. Plus(p, q) \in Positions
  BY <1>1 DEF Positions, Plus
<1>4. Offset(p, q, k) \in Positions
  BY <1>1, <1>2 DEF Positions, Offset
<1>5. Whole(p) \in Positions /\ Pixel(p) \in Positions
  BY <1>1, <1>2 DEF Positions, Whole, Pixel
<1> QED
  BY <1>3, <1>4, <1>5

\* CreateSnake makes as many parts as it is told, each at a step behind the one
\* before.
StepBehind(i) == IF i - 1 <= parts_skip_count + parts_start_move_count
                 THEN move_step_distance ELSE tail_step_distance

LEMMA LineIs ==
  ASSUME NEW n \in Nat \ {0}, NEW head_ \in Positions, NEW a \in Int
  PROVE  /\ Line(n, head_, a) \in Seq(Positions) /\ Len(Line(n, head_, a)) = n
         /\ \A i \in 2 .. n : Line(n, head_, a)[i] =
              Whole(Plus(Line(n, head_, a)[i - 1], Vector(a + 4, StepBehind(i))))
<1> DEFINE Step(i, q) ==
             Whole(Plus(q,
               Vector(a + 4, IF i - 1 <= parts_skip_count + parts_start_move_count
                             THEN move_step_distance ELSE tail_step_distance)))
           line[i \in 1 .. n] == IF i = 1 THEN head_ ELSE Step(i, line[i - 1])
           g == [i \in 2 .. n |-> [q \in Positions |-> Step(i, q)]]
<1>1. ASSUME NEW i \in 2 .. n, NEW q \in Positions PROVE Step(i, q) \in Positions
  <2> DEFINE d == IF i - 1 <= parts_skip_count + parts_start_move_count
                  THEN move_step_distance ELSE tail_step_distance
  <2>1. d \in Int /\ a + 4 \in Int
    BY DEF move_step_distance, tail_step_distance
  <2> HIDE DEF d
  <2>2. Vector(a + 4, d) \in Positions
    BY <2>1, VectorIs
  <2>3. Plus(q, Vector(a + 4, d)) \in Positions
    BY <2>1, <2>2, PositionsAre
  <2>4. Whole(Plus(q, Vector(a + 4, d))) \in Positions
    BY <2>1, <2>3, PositionsAre
  <2> QED
    BY <2>4 DEF d
<1>2. Line(n, head_, a) = line
  BY DEF Line
<1> HIDE DEF Step
<1>3. g \in [2 .. n -> [Positions -> Positions]]
  BY <1>1
<1> HIDE DEF g
<1>4. PICK f : IsChain(f, n, Positions, head_, g)
  BY <1>3, ChainExists
<1>5. /\ f \in [1 .. n -> Positions] /\ f[1] = head_
      /\ \A k \in 2 .. n : f[k] = g[k][f[k - 1]]
  BY <1>4 DEF IsChain
<1>6. ASSUME NEW k \in 2 .. n PROVE f[k] = Step(k, f[k - 1])
  <2>1. f[k - 1] \in Positions
    BY <1>5
  <2> QED
    BY <1>5, <2>1 DEF g
<1>7. f = [i \in 1 .. n |-> IF i = 1 THEN head_ ELSE Step(i, f[i - 1])]
  BY <1>5, <1>6
<1>8. line = [i \in 1 .. n |-> IF i = 1 THEN head_ ELSE Step(i, line[i - 1])]
  <2>1. \E e : e = [i \in 1 .. n |-> IF i = 1 THEN head_ ELSE Step(i, e[i - 1])]
    BY <1>7
  <2> QED
    BY <2>1
<1> HIDE DEF line
<1>9. line[1] = head_ /\ \A k \in 2 .. n : line[k] = Step(k, line[k - 1])
  BY <1>8
<1>10. \A k \in 2 .. n : line[k - 1] \in Positions => line[k] \in Positions
  BY <1>1, <1>9
<1>11. \A k \in 1 .. n : line[k] \in Positions
  BY <1>9, <1>10, ChainInvariant
<1>12. line \in [1 .. n -> Positions]
  BY <1>8, <1>11
<1>13. \A i \in 2 .. n :
         line[i] = Whole(Plus(line[i - 1], Vector(a + 4, StepBehind(i))))
  BY <1>9 DEF Step, StepBehind
<1> QED
  BY <1>2, <1>12, <1>13, SequenceOf

\* How much a part is pulled towards the one before.
Pull(i) == 43 * IF i - parts_skip_count < parts_start_move_count
                THEN i - parts_skip_count ELSE parts_start_move_count

\* The parts of a snake that moves stay as many, and each is where the one before
\* was, or on the way from there to where that one is now.
LEMMA MovedIs ==
  ASSUME NEW b \in Seq(Positions), Len(b) # 0, NEW h \in Positions
  PROVE  /\ Moved(b, h) \in Seq(Positions) /\ Len(Moved(b, h)) = Len(b)
         /\ Moved(b, h)[1] = h
         /\ \A i \in 2 .. Len(b) : Moved(b, h)[i] =
              IF i <= parts_skip_count THEN b[i - 1]
              ELSE Offset(b[i - 1], Moved(b, h)[i - 1], Pull(i))
<1> DEFINE n == Len(b)
           Step(i, q) == IF i <= parts_skip_count THEN b[i - 1]
                         ELSE Offset(b[i - 1], q, Pull(i))
           moved[i \in 1 .. n] == IF i = 1 THEN h ELSE Step(i, moved[i - 1])
           g == [i \in 2 .. n |-> [q \in Positions |-> Step(i, q)]]
<1>1. n \in Nat \ {0} /\ \A i \in 1 .. n : b[i] \in Positions
  BY LenProperties, ElementOfSeq
<1>2. ASSUME NEW i \in 2 .. n, NEW q \in Positions PROVE Step(i, q) \in Positions
  <2>1. b[i - 1] \in Positions
    BY <1>1
  <2>2. Pull(i) \in Int
    BY <1>1 DEF Pull, parts_skip_count, parts_start_move_count
  <2>3. Offset(b[i - 1], q, Pull(i)) \in Positions
    BY <2>1, <2>2, PositionsAre
  <2> QED
    BY <2>1, <2>3
<1>3. Moved(b, h) = moved
  BY DEF Moved, Pull
<1> HIDE DEF Step, n
<1>4. g \in [2 .. n -> [Positions -> Positions]]
  BY <1>2
<1> HIDE DEF g
<1>5. PICK f : IsChain(f, n, Positions, h, g)
  BY <1>1, <1>4, ChainExists
<1>6. /\ f \in [1 .. n -> Positions] /\ f[1] = h
      /\ \A k \in 2 .. n : f[k] = g[k][f[k - 1]]
  BY <1>5 DEF IsChain
<1>7. ASSUME NEW k \in 2 .. n PROVE f[k] = Step(k, f[k - 1])
  <2>1. f[k - 1] \in Positions
    BY <1>1, <1>6
  <2> QED
    BY <1>6, <2>1 DEF g
<1>8. f = [i \in 1 .. n |-> IF i = 1 THEN h ELSE Step(i, f[i - 1])]
  BY <1>1, <1>6, <1>7
<1>9. moved = [i \in 1 .. n |-> IF i = 1 THEN h ELSE Step(i, moved[i - 1])]
  <2>1. \E e : e = [i \in 1 .. n |-> IF i = 1 THEN h ELSE Step(i, e[i - 1])]
    BY <1>8
  <2> QED
    BY <2>1
<1> HIDE DEF moved
<1>10. moved[1] = h /\ \A k \in 2 .. n : moved[k] = Step(k, moved[k - 1])
  BY <1>1, <1>9
<1>11. moved[1] \in Positions
  BY <1>10
<1>12. \A k \in 2 .. n : moved[k - 1] \in Positions => moved[k] \in Positions
  BY <1>2, <1>10
<1>13. \A k \in 1 .. n : moved[k] \in Positions
  BY <1>1, <1>11, <1>12, ChainInvariant
<1>14. moved \in [1 .. n -> Positions]
  BY <1>9, <1>13
<1>15. \A i \in 2 .. n : moved[i] = IF i <= parts_skip_count THEN b[i - 1]
                                    ELSE Offset(b[i - 1], moved[i - 1], Pull(i))
  BY <1>10 DEF Step
<1> QED
  BY <1>1, <1>3, <1>10, <1>14, <1>15, SequenceOf DEF n

\* IncreaseSnake only repeats the last part, and DecreaseSnake takes it away but
\* never below three.
LEMMA GrownIs ==
  ASSUME NEW b \in Seq(Positions), Len(b) >= 3, NEW gain \in Nat \cup {-1}
  PROVE  /\ Grown(b, gain) \in Seq(Positions)
         /\ Len(Grown(b, gain)) >= 3
         /\ \A i \in 1 .. Len(Grown(b, gain)) :
              Grown(b, gain)[i] = IF i <= Len(b) THEN b[i] ELSE b[Len(b)]
<1> DEFINE n == Len(b)
<1>1. n \in Nat /\ n >= 3 /\ \A i \in 1 .. n : b[i] \in Positions
  BY LenProperties, ElementOfSeq
<1> DEFINE tail == [i \in 1 .. gain |-> Last(b)]
           k    == IF gain = -1 THEN 0 ELSE gain
<1>2. /\ b \o tail \in Seq(Positions) /\ Len(b \o tail) = n + k
      /\ \A i \in 1 .. n + k : (b \o tail)[i] = IF i <= n THEN b[i] ELSE b[n]
  <2>1. Last(b) \in Positions /\ Last(b) = b[n]
    BY <1>1 DEF Last
  <2>2. k \in Nat /\ 1 .. gain = 1 .. k
    OBVIOUS
  <2>3. tail = [i \in 1 .. k |-> Last(b)]
    BY <2>2
  <2>4. \A i \in 1 .. k : tail[i] = b[n]
    BY <2>1, <2>3
  <2> HIDE DEF k, tail
  <2>5. tail \in Seq(Positions) /\ Len(tail) = k
    BY <2>1, <2>2, <2>3, SequenceOf
  <2>6. /\ b \o tail \in Seq(Positions) /\ Len(b \o tail) = n + k
        /\ \A i \in 1 .. n + k : (b \o tail)[i] = IF i <= n THEN b[i] ELSE tail[i - n]
    BY <2>5, ConcatProperties
  <2> HIDE DEF n
  <2>7. \A i \in 1 .. n + k : ~ (i <= n) => i - n \in 1 .. k
    BY <1>1, <2>2
  <2> QED
    BY <2>4, <2>6, <2>7
<1>3. /\ Front(b) \in Seq(Positions) /\ Len(Front(b)) = n - 1
      /\ \A i \in 1 .. n - 1 : Front(b)[i] = b[i]
  <2>1. Front(b) = SubSeq(b, 1, n - 1)
    BY DEF Front
  <2>2. \A i \in 1 .. n - 1 : b[i] \in Positions
    BY <1>1
  <2>3. 1 \in Int /\ n - 1 \in Int /\ n - 1 - 1 + 1 = n - 1 /\ 1 <= n - 1
    BY <1>1
  <2> HIDE DEF n
  <2>4. /\ SubSeq(b, 1, n - 1) \in Seq(Positions)
        /\ Len(SubSeq(b, 1, n - 1)) = IF 1 <= n - 1 THEN n - 1 - 1 + 1 ELSE 0
        /\ \A i \in 1 .. n - 1 - 1 + 1 : SubSeq(b, 1, n - 1)[i] = b[1 + i - 1]
    BY <2>2, <2>3, SubSeqProperties
  <2>5. \A i \in 1 .. n - 1 : 1 + i - 1 = i
    OBVIOUS
  <2> QED
    BY <2>1, <2>3, <2>4, <2>5
<1> HIDE DEF n
<1>4. n + k >= 3 /\ (n > 3 => n - 1 >= 3) /\ \A i \in 1 .. n - 1 : i <= n
  BY <1>1
<1> HIDE DEF k, tail
<1>5. CASE gain = -1 /\ n > 3
  <2>1. Grown(b, gain) = Front(b)
    BY <1>5 DEF Grown, n
  <2> QED
    BY <1>3, <1>4, <1>5, <2>1 DEF n
<1>6. CASE ~ (gain = -1 /\ n > 3)
  <2>1. Grown(b, gain) = b \o tail
    BY <1>6 DEF Grown, n, tail
  <2> QED
    BY <1>2, <1>4, <2>1 DEF n
<1> QED
  BY <1>5, <1>6

-----------------------------------------------------------------------------
(* The sectors of a snake *)

\* The vectors of a box that has at least the sectors of w.
Boxes(w) == {v \in Seq(GridSectors) : Sorted(v) /\ Elements(w) \subseteq Elements(v)}

LEMMA BoxesAre ==
  ASSUME NEW w, NEW v
  PROVE  v \in Boxes(w) <=> Ordered(v) /\ Elements(w) \subseteq Elements(v)
BY DEF Boxes, Ordered

LEMMA UpdateBoxIs ==
  ASSUME NEW w, NEW v \in Boxes(w), NEW p \in Positions, NEW q
  PROVE  UpdateBoxNewSectors(v, p, q) \in Boxes(w)
<1> DEFINE near == {s \in Around(Pixel(p), 1) : Intersects(s, p, 1500)}
           u == WithNew(v, Pixel(p), 1, near)
<1>1. Ordered(v) /\ Elements(w) \subseteq Elements(v)
  BY BoxesAre
<1>2. Pixel(p) \in Int \X Int
  BY PositionsAre DEF Positions
<1>3. Ordered(u) /\ Elements(u) = Elements(v) \cup (Around(Pixel(p), 1) \cap near)
  BY <1>1, <1>2, OrderedWithNew
<1>4. UpdateBoxNewSectors(v, p, q) = IF PartCrossed(p, q) THEN u ELSE v
  BY DEF UpdateBoxNewSectors
<1> HIDE DEF u
<1>5. u \in Boxes(w)
  BY <1>1, <1>3, BoxesAre
<1> QED
  BY <1>4, <1>5

\* InitBoxNewSectors makes a vector in order.
LEMMA InitBoxIs ==
  ASSUME NEW b \in Seq(Positions), Len(b) # 0
  PROVE  Ordered(InitBoxNewSectors(b))
<1> DEFINE n == Len(b)
           S == Boxes(<<>>)
           x == UpdateBoxNewSectors(<<>>, b[1], <<0, 0>>)
           Step(i, v) == IF i >= 4 /\ (i - 4) % tail_step = 0
                         THEN UpdateBoxNewSectors(v, b[i], <<0, 0>>) ELSE v
           new[i \in 1 .. n] == IF i = 1 THEN x ELSE Step(i, new[i - 1])
           g == [i \in 2 .. n |-> [v \in S |-> Step(i, v)]]
<1>1. n \in Nat \ {0} /\ \A i \in 1 .. n : b[i] \in Positions
  BY LenProperties, ElementOfSeq
<1>2. x \in S
  <2>1. <<>> \in S /\ 1 \in 1 .. n
    BY <1>1, OrderedEmpty, BoxesAre
  <2> QED
    BY <1>1, <2>1, UpdateBoxIs
<1>3. ASSUME NEW i \in 2 .. n, NEW v \in S PROVE Step(i, v) \in S
  <2>1. UpdateBoxNewSectors(v, b[i], <<0, 0>>) \in S
    BY <1>1, UpdateBoxIs
  <2> QED
    BY <2>1
<1>4. InitBoxNewSectors(b) = new[n]
  BY DEF InitBoxNewSectors
<1> HIDE DEF Step, n, S, x
<1>5. g \in [2 .. n -> [S -> S]]
  BY <1>3
<1> HIDE DEF g
<1>6. PICK f : IsChain(f, n, S, x, g)
  BY <1>1, <1>2, <1>5, ChainExists
<1>7. /\ f \in [1 .. n -> S] /\ f[1] = x
      /\ \A k \in 2 .. n : f[k] = g[k][f[k - 1]]
  BY <1>6 DEF IsChain
<1>8. ASSUME NEW k \in 2 .. n PROVE f[k] = Step(k, f[k - 1])
  <2>1. f[k - 1] \in S
    BY <1>1, <1>7
  <2> QED
    BY <1>7, <2>1 DEF g
<1>9. f = [i \in 1 .. n |-> IF i = 1 THEN x ELSE Step(i, f[i - 1])]
  BY <1>1, <1>7, <1>8
<1>10. new = [i \in 1 .. n |-> IF i = 1 THEN x ELSE Step(i, new[i - 1])]
  <2>1. \E e : e = [i \in 1 .. n |-> IF i = 1 THEN x ELSE Step(i, e[i - 1])]
    BY <1>9
  <2> QED
    BY <2>1
<1> HIDE DEF new
<1>11. new[1] = x /\ \A k \in 2 .. n : new[k] = Step(k, new[k - 1])
  BY <1>1, <1>10
<1>12. new[1] \in S
  BY <1>2, <1>11
<1>13. \A k \in 2 .. n : new[k - 1] \in S => new[k] \in S
  BY <1>3, <1>11
<1>14. \A k \in 1 .. n : new[k] \in S
  BY <1>1, <1>12, <1>13, ChainInvariant
<1>15. new[n] \in S
  BY <1>1, <1>14
<1> QED
  BY <1>4, <1>15, BoxesAre DEF S

\* The sectors that come in during a Tick keep the vector in order and drop none.
LEMMA TickBoxIs ==
  ASSUME Ordered(sbb), NEW b \in Seq(Positions), Len(b) # 0, NEW old
  PROVE  /\ Ordered(TickNewSectors(b, old))
         /\ Elements(sbb) \subseteq Elements(TickNewSectors(b, old))
<1> DEFINE n == Len(b)
           S == Boxes(sbb)
           x == UpdateBoxNewSectors(sbb, b[1], old[1])
           Step(i, v) == IF i > parts_skip_count + parts_start_move_count
                         THEN UpdateBoxNewSectors(v, b[i], old[i]) ELSE v
           new[i \in 1 .. n] == IF i = 1 THEN x ELSE Step(i, new[i - 1])
           g == [i \in 2 .. n |-> [v \in S |-> Step(i, v)]]
<1>1. n \in Nat \ {0} /\ \A i \in 1 .. n : b[i] \in Positions
  BY LenProperties, ElementOfSeq
<1>2. x \in S
  <2>1. sbb \in S /\ 1 \in 1 .. n
    BY <1>1, BoxesAre
  <2> QED
    BY <1>1, <2>1, UpdateBoxIs
<1>3. ASSUME NEW i \in 2 .. n, NEW v \in S PROVE Step(i, v) \in S
  <2>1. UpdateBoxNewSectors(v, b[i], old[i]) \in S
    BY <1>1, UpdateBoxIs
  <2> QED
    BY <2>1
<1>4. TickNewSectors(b, old) = new[n]
  BY DEF TickNewSectors
<1> HIDE DEF Step, n, S, x
<1>5. g \in [2 .. n -> [S -> S]]
  BY <1>3
<1> HIDE DEF g
<1>6. PICK f : IsChain(f, n, S, x, g)
  BY <1>1, <1>2, <1>5, ChainExists
<1>7. /\ f \in [1 .. n -> S] /\ f[1] = x
      /\ \A k \in 2 .. n : f[k] = g[k][f[k - 1]]
  BY <1>6 DEF IsChain
<1>8. ASSUME NEW k \in 2 .. n PROVE f[k] = Step(k, f[k - 1])
  <2>1. f[k - 1] \in S
    BY <1>1, <1>7
  <2> QED
    BY <1>7, <2>1 DEF g
<1>9. f = [i \in 1 .. n |-> IF i = 1 THEN x ELSE Step(i, f[i - 1])]
  BY <1>1, <1>7, <1>8
<1>10. new = [i \in 1 .. n |-> IF i = 1 THEN x ELSE Step(i, new[i - 1])]
  <2>1. \E e : e = [i \in 1 .. n |-> IF i = 1 THEN x ELSE Step(i, e[i - 1])]
    BY <1>9
  <2> QED
    BY <2>1
<1> HIDE DEF new
<1>11. new[1] = x /\ \A k \in 2 .. n : new[k] = Step(k, new[k - 1])
  BY <1>1, <1>10
<1>12. new[1] \in S
  BY <1>2, <1>11
<1>13. \A k \in 2 .. n : new[k - 1] \in S => new[k] \in S
  BY <1>3, <1>11
<1>14. \A k \in 1 .. n : new[k] \in S
  BY <1>1, <1>12, <1>13, ChainInvariant
<1>15. new[n] \in S
  BY <1>1, <1>14
<1> QED
  BY <1>4, <1>15, BoxesAre DEF S

\* A vector in order has a sector once or not at all.
LEMMA CountIs ==
  ASSUME NEW v, Ordered(v), NEW s
  PROVE  Count(v, s) = IF s \in Elements(v) THEN 1 ELSE 0
<1> DEFINE at == {i \in 1 .. Len(v) : v[i] = s}
<1>1. v \in Seq(Int) /\ Distinct(v)
  BY OrderedIs, SortedIsDistinct
<1>2. Count(v, s) = Cardinality(at)
  BY DEF Count
<1>3. CASE s \in Elements(v)
  <2>1. PICK i \in 1 .. Len(v) : v[i] = s
    BY <1>3 DEF Elements
  <2>2. at = {i}
    BY <1>1, <2>1 DEF Distinct
  <2> QED
    BY <1>2, <1>3, <2>2, FS_Singleton
<1>4. CASE s \notin Elements(v)
  <2>1. at = {}
    BY <1>4 DEF Elements
  <2> QED
    BY <1>2, <1>4, <2>1, FS_EmptySet
<1> QED
  BY <1>3, <1>4

\* The lists agree after the sectors of grown have come in and those that are
\* not in kept have left, whatever order that happened in.
LEMMA ReregisteredIs ==
  ASSUME ListsAgree, Ordered(sbb), NEW grown, Ordered(grown), NEW kept,
         Elements(sbb) \subseteq Elements(grown), Elements(kept) \subseteq Elements(grown)
  PROVE  Reregistered(grown, kept) =
           [s \in GridSectors |-> IF s \in Elements(kept) THEN 1 ELSE 0]
<1>1. ASSUME NEW s \in GridSectors
      PROVE  (IF s \in Elements(grown) \ Elements(kept) THEN 0
              ELSE boxes[s] + Count(grown, s) - Count(sbb, s))
             = IF s \in Elements(kept) THEN 1 ELSE 0
  <2>1. /\ boxes[s] = IF s \in Elements(sbb) THEN 1 ELSE 0
        /\ Count(sbb, s) = IF s \in Elements(sbb) THEN 1 ELSE 0
        /\ Count(grown, s) = IF s \in Elements(grown) THEN 1 ELSE 0
    BY CountIs DEF ListsAgree
  <2>2. boxes[s] + Count(grown, s) - Count(sbb, s) = Count(grown, s)
    BY <2>1
  <2> QED
    BY <2>1, <2>2
<1> QED
  BY <1>1 DEF Reregistered

\* A snake that is not there has no sectors.
GoneIsNowhere == parts = <<>> => sbb = <<>>

BoxInv == BoxTypeOK /\ ListsAgree /\ GoneIsNowhere

\* The lists that agree with a vector.
Agreeing(v) == [s \in GridSectors |-> IF s \in Elements(v) THEN 1 ELSE 0]

LEMMA AgreeingIs ==
  ASSUME boxes' = Agreeing(sbb')
  PROVE  boxes' \in [GridSectors -> Nat] /\ ListsAgree'
<1>1. \A s \in GridSectors : Agreeing(sbb')[s] = IF s \in Elements(sbb') THEN 1 ELSE 0
  BY DEF Agreeing
<1>2. Agreeing(sbb') \in [GridSectors -> Nat]
  BY DEF Agreeing
<1> QED
  BY <1>1, <1>2 DEF ListsAgree

LEMMA InitBoxInv == BoxInit => BoxInv
<1> SUFFICES ASSUME BoxInit PROVE BoxInv
  OBVIOUS
<1>1. /\ life \in Lives /\ parts = <<>> /\ sbb = <<>> /\ angle = 0 /\ ticks = 0
      /\ boxes = [s \in GridSectors |-> 0]
  BY DEF BoxInit, NoSnake
<1>2. life.ticks \in Nat
  BY <1>1, LivesAssumption
<1>3. BoxTypeOK
  BY <1>1, <1>2, OrderedEmpty DEF BoxTypeOK, Ordered
<1>4. ListsAgree
  BY <1>1, OrderedEmpty DEF ListsAgree
<1> QED
  BY <1>1, <1>3, <1>4 DEF BoxInv, GoneIsNowhere

LEMMA CreateBoxInv == BoxInv /\ CreateSnake => BoxInv'
<1> SUFFICES ASSUME BoxInv, CreateSnake PROVE BoxInv'
  OBVIOUS
<1>1. /\ life \in Lives /\ life' = life /\ ticks' = ticks /\ ticks \in 0 .. life.ticks
      /\ angle' = life.angle /\ parts' = Line(life.length, life.head, life.angle)
      /\ sbb' = InitBoxNewSectors(parts') /\ boxes' = Reregistered(sbb', sbb')
      /\ sbb = <<>> /\ Ordered(sbb) /\ ListsAgree
  BY DEF BoxInv, BoxTypeOK, CreateSnake, Ordered, GoneIsNowhere
<1>2. /\ life.length \in Nat \ {0} /\ life.length >= 3 /\ life.head \in Positions
      /\ life.angle \in 0 .. 7 /\ life.angle \in Int /\ life.ticks \in Nat
  BY <1>1, LivesAssumption DEF Positions
<1>3. parts' \in Seq(Positions) /\ Len(parts') = life.length
  BY <1>1, <1>2, LineIs
<1>4. Ordered(sbb')
  BY <1>1, <1>2, <1>3, InitBoxIs
<1>5. boxes' = Agreeing(sbb')
  <2>1. Elements(sbb) = {}
    BY <1>1, OrderedEmpty
  <2> QED
    BY <1>1, <1>4, <2>1, ReregisteredIs DEF Agreeing
<1>6. boxes' \in [GridSectors -> Nat] /\ ListsAgree'
  BY <1>5, AgreeingIs
<1>7. Len(parts') >= 3
  BY <1>1, <1>2, <1>3
<1>8. BoxTypeOK'
  BY <1>1, <1>2, <1>3, <1>4, <1>6, <1>7 DEF BoxTypeOK, Ordered, Positions
<1>9. parts' # <<>>
  BY <1>2, <1>3
<1> QED
  BY <1>6, <1>8, <1>9 DEF BoxInv, GoneIsNowhere

LEMMA TickBoxInv ==
  ASSUME BoxInv, NEW frames \in life.frames, NEW gain \in life.gains,
         NEW turn \in -2 * frames .. 2 * frames, SnakeTick(frames, turn, gain)
  PROVE  BoxInv'
<1>1. /\ life \in Lives /\ life' = life /\ angle \in 0 .. 7 /\ parts # <<>>
      /\ ticks \in 0 .. life.ticks /\ ticks < life.ticks /\ ticks' = ticks + 1
      /\ angle' = (angle + turn) % 8
      /\ parts \in Seq(Positions) /\ (parts = <<>> \/ Len(parts) >= 3)
      /\ Ordered(sbb) /\ ListsAgree
  BY DEF BoxInv, BoxTypeOK, SnakeTick, Ordered, Positions
<1>2. /\ life.length \in Nat /\ life.ticks \in Nat /\ frames \in Nat
      /\ gain \in Nat \cup {-1} /\ turn \in Int
  <2>1. /\ life.length \in Nat /\ life.ticks \in Nat /\ frames \in Nat
        /\ gain \in Nat \cup {-1}
    BY <1>1, LivesAssumption
  <2>2. turn \in Int
    BY <2>1
  <2> QED
    BY <2>1, <2>2
<1>3. angle' \in 0 .. 7 /\ angle' \in Int /\ ticks' \in 0 .. life'.ticks
  <2>1. ASSUME NEW x \in Int PROVE x % 8 \in 0 .. 7 /\ x % 8 \in Int
    OBVIOUS
  <2>2. angle + turn \in Int
    BY <1>1, <1>2
  <2>3. angle' \in 0 .. 7 /\ angle' \in Int
    BY <1>1, <2>1, <2>2
  <2>4. ticks' \in 0 .. life.ticks
    BY <1>1, <1>2
  <2> QED
    BY <1>1, <2>3, <2>4
<1>4. Len(parts) \in Nat /\ Len(parts) >= 3
  <2>1. Len(parts) \in Nat /\ Len(parts) # 0
    BY <1>1, LenProperties, EmptySeq
  <2> QED
    BY <1>1, <1>2, <2>1
<1> DEFINE h == Plus(parts[1], Vector(angle', frames * move_step_distance))
           near(b, grown) == {s \in Elements(grown) :
                                Intersects(s, Centre(b), BoxRadius(Len(b)))}
<1>5. PICK b, grown : /\ b = Moved(parts, h) /\ grown = TickNewSectors(b, parts)
                      /\ parts' = Grown(b, gain)
                      /\ sbb' = Kept(grown, near(b, grown))
                      /\ boxes' = Reregistered(grown, sbb')
  BY DEF SnakeTick
<1>6. h \in Positions
  <2>1. parts[1] \in Positions
    BY <1>1, <1>4, ElementOfSeq
  <2>2. frames * move_step_distance \in Int
    BY <1>2 DEF move_step_distance
  <2>3. Vector(angle', frames * move_step_distance) \in Positions
    BY <1>3, <2>2, VectorIs
  <2> QED
    BY <1>3, <2>1, <2>3, PositionsAre
<1> HIDE DEF h, near
<1>7. b \in Seq(Positions) /\ Len(b) = Len(parts)
  BY <1>1, <1>4, <1>5, <1>6, MovedIs
<1>8. Ordered(grown) /\ Elements(sbb) \subseteq Elements(grown)
  BY <1>1, <1>4, <1>5, <1>7, TickBoxIs
<1>9. Ordered(sbb') /\ Elements(sbb') \subseteq Elements(grown)
  BY <1>5, <1>8, OrderedKept
<1>10. boxes' = Agreeing(sbb')
  BY <1>1, <1>5, <1>8, <1>9, ReregisteredIs DEF Agreeing
<1>11. boxes' \in [GridSectors -> Nat] /\ ListsAgree'
  BY <1>10, AgreeingIs
<1>12. parts' \in Seq(Positions) /\ Len(parts') >= 3
  BY <1>2, <1>4, <1>5, <1>7, GrownIs
<1>13. parts' = <<>> \/ Len(parts') >= 3
  BY <1>12
<1>14. BoxTypeOK'
  BY <1>1, <1>3, <1>9, <1>11, <1>12, <1>13 DEF BoxTypeOK, Ordered, Positions
<1>15. parts' # <<>>
  BY <1>12
<1> QED
  BY <1>11, <1>14, <1>15 DEF BoxInv, GoneIsNowhere

LEMMA RemoveBoxInv == BoxInv /\ RemoveSnake => BoxInv'
<1> SUFFICES ASSUME BoxInv, RemoveSnake PROVE BoxInv'
  OBVIOUS
<1>1. /\ life \in Lives /\ life' = life /\ parts' = <<>> /\ sbb' = <<>>
      /\ angle' = 0 /\ ticks' = 0
      /\ boxes' = [s \in GridSectors |-> IF s \in Elements(sbb) THEN 0 ELSE boxes[s]]
      /\ ListsAgree
  BY DEF BoxInv, BoxTypeOK, RemoveSnake
<1>2. life.ticks \in Nat
  BY <1>1, LivesAssumption
<1>3. boxes' = Agreeing(sbb')
  BY <1>1, OrderedEmpty DEF Agreeing, ListsAgree
<1>4. boxes' \in [GridSectors -> Nat] /\ ListsAgree'
  BY <1>3, AgreeingIs
<1>5. BoxTypeOK'
  BY <1>1, <1>2, <1>4, OrderedEmpty DEF BoxTypeOK, Ordered
<1> QED
  BY <1>1, <1>4, <1>5 DEF BoxInv, GoneIsNowhere

LEMMA BoxInvHolds == BoxSpec => []BoxInv
<1>1. BoxInv /\ [BoxNext]_boxVars => BoxInv'
  <2>1. BoxInv /\ UNCHANGED boxVars => BoxInv'
    BY DEF boxVars, BoxInv, BoxTypeOK, ListsAgree, GoneIsNowhere, Elements, Sorted
  <2> QED
    BY <2>1, CreateBoxInv, TickBoxInv, RemoveBoxInv DEF BoxNext
<1> QED
  BY <1>1, InitBoxInv, PTL DEF BoxSpec

\* A snake keeps at least three parts through IncreaseSnake and DecreaseSnake,
\* and SnakeBoundBox::sectors stays sorted without a sector twice, through
\* InsertSortedWithReg and the removals of UpdateBoxOldSectors.
THEOREM BoxTypeCorrect == BoxSpec => []BoxTypeOK
<1>1. BoxInv => BoxTypeOK
  BY DEF BoxInv
<1> QED
  BY <1>1, BoxInvHolds, PTL

\* The lists Sector::snakes hold the box exactly once in each of its sectors and
\* nowhere else, so that no pointer is left behind by World::RemoveSnake.
THEOREM ListsAlwaysAgree == BoxSpec => []ListsAgree
<1>1. BoxInv => ListsAgree
  BY DEF BoxInv
<1> QED
  BY <1>1, BoxInvHolds, PTL

-----------------------------------------------------------------------------
(* How far apart the parts are *)

\* The sum of two steps is no longer than the two together: their product is at
\* most that of the lengths, for what is missing to it is a square.
LEMMA Triangle ==
  ASSUME NEW x1 \in Int, NEW x2 \in Int, NEW y1 \in Int, NEW y2 \in Int,
         NEW a \in Nat, NEW b \in Nat,
         x1 * x1 + x2 * x2 <= a * a, y1 * y1 + y2 * y2 <= b * b
  PROVE  (x1 + y1) * (x1 + y1) + (x2 + y2) * (x2 + y2) <= (a + b) * (a + b)
<1> DEFINE xx == x1 * x1 + x2 * x2
           yy == y1 * y1 + y2 * y2
           xy == x1 * y1 + x2 * y2
           cross == x1 * y2 - x2 * y1
           ab == a * b
<1>1. xx \in Nat /\ yy \in Nat /\ xy \in Int /\ cross \in Int /\ ab \in Nat
  <2>1. ASSUME NEW x \in Int PROVE x * x \in Nat
    OBVIOUS
  <2> QED
    BY <2>1
<1>2. xy * xy + cross * cross = xx * yy
  OBVIOUS
<1>3. xx * yy <= ab * ab
  <2>1. ab * ab = (a * a) * (b * b) /\ a * a \in Nat /\ b * b \in Nat
    OBVIOUS
  <2>2. \A m, n, u, v \in Nat : m <= u /\ n <= v => m * n <= u * v
    <3>1. ASSUME NEW m \in Nat, NEW n \in Nat, NEW u \in Nat, NEW v \in Nat, m <= u, n <= v
          PROVE  m * n <= u * v
      <4>1. m * n <= m * v
        BY <3>1
      <4>2. m * v <= u * v
        BY <3>1
      <4> QED
        BY <4>1, <4>2
    <3> QED
      BY <3>1
  <2> HIDE DEF ab
  <2>3. xx <= a * a /\ yy <= b * b
    OBVIOUS
  <2> HIDE DEF xx, yy
  <2> QED
    BY <1>1, <2>1, <2>2, <2>3
<1> HIDE DEF xy, cross, ab
<1>4. xy <= ab
  <2>1. cross * cross >= 0 /\ xx * yy \in Int
    BY <1>1
  <2>2. xy * xy <= ab * ab
    BY <1>1, <1>2, <1>3, <2>1
  <2>3. ASSUME xy > ab PROVE FALSE
    <3>1. ab * ab <= ab * xy
      BY <1>1, <2>3
    <3>2. ab * xy < xy * xy
      BY <1>1, <2>3
    <3> QED
      BY <1>1, <2>2, <3>1, <3>2
  <2> QED
    BY <1>1, <2>3
<1>5. (x1 + y1) * (x1 + y1) + (x2 + y2) * (x2 + y2) = xx + yy + 2 * xy
  BY DEF xy
<1>6. (a + b) * (a + b) = a * a + b * b + 2 * ab
  BY DEF ab
<1> QED
  BY <1>1, <1>4, <1>5, <1>6

\* A vector of length d is no longer than d: twice the square of 707 is less than
\* that of 1000.
LEMMA VectorBound ==
  ASSUME NEW a \in Int, NEW d \in Nat
  PROVE  \E x, y \in -d .. d : Vector(a, d) = <<x, y>> /\ x * x + y * y <= d * d
<1> DEFINE g == (d * 707) \div 1000
           cosine == <<d, g, 0, -g, -d, -g, 0, g>>
           r == a % 8
<1>1. g \in 0 .. d /\ 1000 * g <= 707 * d
  OBVIOUS
<1>2. g * g + g * g <= d * d /\ d * d \in Nat
  <2>1. (1000 * g) * (1000 * g) <= (707 * d) * (707 * d)
    BY <1>1, SquareBound
  <2>2. (1000 * g) * (1000 * g) = 1000000 * (g * g) /\ (707 * d) * (707 * d) = 499849 * (d * d)
    BY <1>1
  <2>3. g * g \in Int /\ d * d \in Nat
    BY <1>1
  <2> HIDE DEF g
  <2> QED
    BY <2>1, <2>2, <2>3
<1>3. /\ cosine[1] = d /\ cosine[2] = g /\ cosine[3] = 0 /\ cosine[4] = -g
      /\ cosine[5] = -d /\ cosine[6] = -g /\ cosine[7] = 0 /\ cosine[8] = g
  OBVIOUS
<1>4. Vector(a, d) = <<cosine[r + 1], cosine[((a + 6) % 8) + 1]>>
  BY DEF Vector
<1>5. r \in 0 .. 7 /\ (a + 6) % 8 = (r + 6) % 8
  OBVIOUS
<1> HIDE DEF cosine, g, r
<1> DEFINE x == cosine[r + 1]
           y == cosine[((a + 6) % 8) + 1]
<1>6. \/ (x = d /\ y = 0) \/ (x = g /\ y = g) \/ (x = 0 /\ y = d) \/ (x = -g /\ y = g)
      \/ (x = -d /\ y = 0) \/ (x = -g /\ y = -g) \/ (x = 0 /\ y = -d) \/ (x = g /\ y = -g)
  <2> DEFINE i == r + 1
             j == ((a + 6) % 8) + 1
  <2>1. \/ (i = 1 /\ j = 7) \/ (i = 2 /\ j = 8) \/ (i = 3 /\ j = 1) \/ (i = 4 /\ j = 2)
        \/ (i = 5 /\ j = 3) \/ (i = 6 /\ j = 4) \/ (i = 7 /\ j = 5) \/ (i = 8 /\ j = 6)
    BY <1>5
  <2>2. x = cosine[i] /\ y = cosine[j]
    OBVIOUS
  <2> HIDE DEF i, j, x, y
  <2> QED
    BY <1>3, <2>1, <2>2
<1>7. g \in Int /\ (-g) * (-g) = g * g /\ (-d) * (-d) = d * d
  BY <1>1
<1>10. Vector(a, d) = <<x, y>>
  BY <1>4
<1> HIDE DEF x, y
<1>8. x * x + y * y <= d * d
  BY <1>1, <1>2, <1>6, <1>7
<1>9. x \in -d .. d /\ y \in -d .. d
  BY <1>1, <1>6
<1> QED
  BY <1>8, <1>9, <1>10

\* Two coordinates that are at most e apart.
Within(x, y, e) == -e <= x - y /\ x - y <= e

\* One coordinate of the parts.
Coordinates(b, k) == [i \in 1 .. Len(b) |-> b[i][k]]

\* In each coordinate a part is at most this far from the one before; the rounding
\* of Offset never adds up to more, because 172 / 400 of the last Lag is a whole
\* number.
StepsAreShort(c, n) == \A i \in 2 .. n : Within(c[i], c[i - 1], 456)
Spaced(b) == \A k \in 1 .. 2 : StepsAreShort(Coordinates(b, k), Len(b))

\* How far a part moves at most in one frame.
Lag(i) ==
  IF i <= 3 THEN 456
  ELSE IF i = 4 THEN 506 ELSE IF i = 5 THEN 565 ELSE IF i = 6 THEN 639 ELSE 800

\* The second part is about a step behind the head.
NeckIsShort(b) == Distance2(b[1], b[2]) <= 440 * 440

\* A part at q is pulled towards the one before, which was at p and has moved to
\* m: it comes as close to that one as before, and moves no farther than it may.
LEMMA PulledStep ==
  ASSUME NEW i \in Nat, i >= 4, NEW p \in Int, NEW q \in Int, NEW m \in Int,
         Within(q, p, 456), Within(m, p, Lag(i - 1)),
         NEW r, r = p + (Pull(i) * (m - p)) \div 400
  PROVE  Within(r, m, 456) /\ Within(r, q, Lag(i))
<1> DEFINE v == m - p
           w == (Pull(i) * v) \div 400
<1>1. /\ v \in Int /\ -456 <= q - p /\ q - p <= 456
      /\ -Lag(i - 1) <= v /\ v <= Lag(i - 1)
  BY DEF Within
<1>2. \/ Pull(i) = 43 /\ Lag(i - 1) = 456 /\ Lag(i) = 506
      \/ Pull(i) = 86 /\ Lag(i - 1) = 506 /\ Lag(i) = 565
      \/ Pull(i) = 129 /\ Lag(i - 1) = 565 /\ Lag(i) = 639
      \/ Pull(i) = 172 /\ Lag(i - 1) \in 0 .. 800 /\ Lag(i) = 800
  BY DEF Pull, Lag, parts_skip_count, parts_start_move_count
<1> HIDE DEF v
<1>3. w \in Int /\ -456 <= w - v /\ w - v <= 456 /\ -Lag(i) <= w - 456 /\ w + 456 <= Lag(i)
  BY <1>1, <1>2
<1>4. r = p + w /\ m = p + v
  BY <1>1 DEF v
<1> HIDE DEF w
<1>5. r - m = w - v /\ r - q = w - (q - p) /\ Lag(i) \in Int
  BY <1>1, <1>2, <1>3, <1>4
<1> QED
  BY <1>1, <1>3, <1>5 DEF Within

\* One coordinate of a body, b before it moves and m after.
Pulled(b, m, n) ==
  /\ m[2] = b[1] /\ m[3] = b[2]
  /\ \A i \in 4 .. n : m[i] = b[i - 1] + (Pull(i) * (m[i - 1] - b[i - 1])) \div 400

LEMMA PulledChain ==
  ASSUME NEW n \in Nat, n >= 3, NEW b \in [1 .. n -> Int], NEW m \in [1 .. n -> Int],
         StepsAreShort(b, n), Within(m[1], b[1], 420), Pulled(b, m, n)
  PROVE  StepsAreShort(m, n)
<1> DEFINE P == {i \in 1 .. n : Within(m[i], b[i], Lag(i))}
<1>1. \A i \in 1 .. n : b[i] \in Int /\ m[i] \in Int
  OBVIOUS
<1>2. ASSUME NEW x \in Int, NEW y \in Int, NEW e \in Nat
      PROVE  /\ Within(x, y, e) => Within(y, x, e)
             /\ Within(x, y, 420) => Within(x, y, 456)
  BY DEF Within
<1>3. 1 \in 1 .. n /\ 2 \in 2 .. n /\ 3 \in 2 .. n /\ 2 - 1 = 1 /\ 3 - 1 = 2
  OBVIOUS
<1>4. /\ m[2] = b[1] /\ m[3] = b[2]
      /\ Within(b[2], b[1], 456) /\ Within(b[3], b[2], 456)
  BY <1>3 DEF Pulled, StepsAreShort
<1>5. 1 \in P /\ 2 \in P /\ 3 \in P
  <2>1. Lag(1) = 456 /\ Lag(2) = 456 /\ Lag(3) = 456
    BY DEF Lag
  <2>2. /\ b[1] \in Int /\ b[2] \in Int /\ b[3] \in Int /\ m[1] \in Int
        /\ 1 \in 1 .. n /\ 2 \in 1 .. n /\ 3 \in 1 .. n /\ 456 \in Nat
    BY <1>1
  <2>3. Within(m[1], b[1], 456) /\ Within(b[1], b[2], 456) /\ Within(b[2], b[3], 456)
    BY <1>2, <1>4, <2>2
  <2> QED
    BY <1>4, <2>1, <2>2, <2>3
<1>6. ASSUME NEW i \in 4 .. n, i - 1 \in P
      PROVE  i \in P /\ Within(m[i], m[i - 1], 456)
  <2>1. i \in Nat /\ i >= 4 /\ i \in 1 .. n /\ i - 1 \in 1 .. n /\ i \in 2 .. n
    OBVIOUS
  <2>2. b[i] \in Int /\ m[i] \in Int /\ b[i - 1] \in Int /\ m[i - 1] \in Int
    BY <1>1, <2>1
  <2>3. Within(b[i], b[i - 1], 456) /\ Within(m[i - 1], b[i - 1], Lag(i - 1))
    BY <1>6, <2>1 DEF StepsAreShort
  <2>4. m[i] = b[i - 1] + (Pull(i) * (m[i - 1] - b[i - 1])) \div 400
    BY DEF Pulled
  <2>5. Within(m[i], m[i - 1], 456) /\ Within(m[i], b[i], Lag(i))
    BY <2>1, <2>2, <2>3, <2>4, PulledStep
  <2> QED
    BY <2>1, <2>5
<1>7. \A i \in 1 .. n : i \in P
  <2>1. ASSUME NEW i \in 2 .. n, i - 1 \in P PROVE i \in P
    <3>1. i = 2 \/ i = 3 \/ i \in 4 .. n
      OBVIOUS
    <3> HIDE DEF P
    <3>2. CASE i \in 4 .. n
      BY <1>6, <2>1, <3>2
    <3> QED
      BY <1>5, <3>1, <3>2
  <2>2. n \in Nat \ {0}
    OBVIOUS
  <2> HIDE DEF P
  <2> QED
    BY <1>5, <2>1, <2>2, RoundByRound
<1> HIDE DEF P
<1>8. ASSUME NEW i \in 2 .. n PROVE Within(m[i], m[i - 1], 456)
  <2>1. CASE i = 2
    <3>1. m[i] = b[1] /\ m[i - 1] = m[1] /\ m[1] \in Int /\ b[1] \in Int /\ 456 \in Nat
      BY <1>1, <1>3, <1>4, <2>1
    <3> QED
      BY <1>2, <3>1
  <2>2. CASE i = 3
    <3>1. m[i] = b[2] /\ m[i - 1] = b[1]
      BY <1>3, <1>4, <2>2
    <3> QED
      BY <1>4, <3>1
  <2>3. CASE i \in 4 .. n
    <3>1. i - 1 \in 1 .. n
      BY <2>3
    <3> QED
      BY <1>6, <1>7, <2>3, <3>1
  <2>4. i = 2 \/ i = 3 \/ i \in 4 .. n
    OBVIOUS
  <2> QED
    BY <2>1, <2>2, <2>3, <2>4
<1> QED
  BY <1>8 DEF StepsAreShort

LEMMA CoordinatesAre ==
  ASSUME NEW b \in Seq(Positions), NEW k \in 1 .. 2
  PROVE  /\ Len(b) \in Nat /\ Coordinates(b, k) \in [1 .. Len(b) -> Int]
         /\ \A i \in 1 .. Len(b) : Coordinates(b, k)[i] = b[i][k]
<1>1. Len(b) \in Nat /\ \A i \in 1 .. Len(b) : b[i] \in Positions
  BY LenProperties, ElementOfSeq
<1>2. ASSUME NEW p \in Positions PROVE p[k] \in Int
  <2>1. p[1] \in Int /\ p[2] \in Int /\ (k = 1 \/ k = 2)
    BY DEF Positions
  <2> QED
    BY <2>1
<1> QED
  BY <1>1, <1>2 DEF Coordinates

\* The body that follows the head stays as close together.
LEMMA MovedSpaced ==
  ASSUME NEW b \in Seq(Positions), Len(b) >= 3, Spaced(b), NEW h \in Positions,
         \A k \in 1 .. 2 : Within(h[k], b[1][k], 420)
  PROVE  Spaced(Moved(b, h))
<1> DEFINE n == Len(b)
           moved == Moved(b, h)
<1>1. /\ moved \in Seq(Positions) /\ Len(moved) = n /\ moved[1] = h
      /\ \A i \in 2 .. n : moved[i] = IF i <= 3 THEN b[i - 1]
                                      ELSE Offset(b[i - 1], moved[i - 1], Pull(i))
  <2>1. Len(b) # 0
    OBVIOUS
  <2>2. /\ moved \in Seq(Positions) /\ Len(moved) = n /\ moved[1] = h
        /\ \A i \in 2 .. n : moved[i] = IF i <= parts_skip_count THEN b[i - 1]
                                        ELSE Offset(b[i - 1], moved[i - 1], Pull(i))
    BY <2>1, MovedIs, Zenon
  <2> QED
    BY <2>2, Zenon DEF parts_skip_count
<1>2. n \in Nat /\ n >= 3
  BY LenProperties
<1> HIDE DEF moved
<1>3. ASSUME NEW k \in 1 .. 2 PROVE StepsAreShort(Coordinates(moved, k), n)
  <2> DEFINE c == Coordinates(b, k)
             m == Coordinates(moved, k)
  <2>1. /\ c \in [1 .. n -> Int] /\ m \in [1 .. n -> Int]
        /\ \A i \in 1 .. n : c[i] = b[i][k] /\ m[i] = moved[i][k]
    BY <1>1, CoordinatesAre
  <2>2. StepsAreShort(c, n)
    BY DEF Spaced
  <2> HIDE DEF c, m, n
  <2>3. Within(m[1], c[1], 420)
    BY <1>1, <1>2, <2>1
  <2>4. m[2] = c[1] /\ m[3] = c[2]
    <3>1. moved[2] = b[1] /\ moved[3] = b[2]
      <4>1. 2 \in 2 .. n /\ 3 \in 2 .. n /\ 2 <= 3 /\ 3 <= 3 /\ 2 - 1 = 1 /\ 3 - 1 = 2
        BY <1>2
      <4> QED
        BY <1>1, <4>1
    <3>2. 1 \in 1 .. n /\ 2 \in 1 .. n /\ 3 \in 1 .. n
      BY <1>2
    <3>3. /\ c[1] = b[1][k] /\ c[2] = b[2][k]
          /\ m[2] = moved[2][k] /\ m[3] = moved[3][k]
      BY <2>1, <3>2
    <3> QED
      BY <3>1, <3>3
  <2>5. ASSUME NEW i \in 4 .. n
        PROVE  m[i] = c[i - 1] + (Pull(i) * (m[i - 1] - c[i - 1])) \div 400
    <3>1. i \in 2 .. n /\ i \in 1 .. n /\ i - 1 \in 1 .. n /\ ~ (i <= 3)
      BY <1>2
    <3>2. moved[i] = Offset(b[i - 1], moved[i - 1], Pull(i))
      BY <1>1, <3>1
    <3>3. moved[i][k] = b[i - 1][k] + (Pull(i) * (moved[i - 1][k] - b[i - 1][k])) \div 400
      <4>1. k = 1 \/ k = 2
        OBVIOUS
      <4>2. CASE k = 1
        BY <3>2, <4>2 DEF Offset
      <4>3. CASE k = 2
        BY <3>2, <4>3 DEF Offset
      <4> QED
        BY <4>1, <4>2, <4>3
    <3> QED
      BY <2>1, <3>1, <3>3
  <2>6. Pulled(c, m, n)
    BY <2>4, <2>5 DEF Pulled
  <2>7. StepsAreShort(m, n)
    BY <1>2, <2>1, <2>2, <2>3, <2>6, PulledChain, Zenon
  <2> QED
    BY <2>7 DEF m
<1> QED
  BY <1>1, <1>3 DEF Spaced, moved

\* CreateSnake puts the parts as close together: whole pixels add less than one.
LEMMA LineSpaced ==
  ASSUME NEW n \in Nat, n >= 3, NEW head_ \in Positions, NEW a \in Int
  PROVE  Spaced(Line(n, head_, a)) /\ NeckIsShort(Line(n, head_, a))
<1> DEFINE line == Line(n, head_, a)
<1>1. /\ line \in Seq(Positions) /\ Len(line) = n
      /\ \A i \in 2 .. n : line[i] = Whole(Plus(line[i - 1], Vector(a + 4, StepBehind(i))))
  BY LineIs
<1>2. \A i \in 1 .. n : line[i] \in Positions
  BY <1>1, ElementOfSeq
<1> HIDE DEF line
<1> DEFINE d == move_step_distance
           r == 456
           Snap(x) == 10 * (x \div 10)
<1>a. d = 420 /\ d \in Nat /\ d * d = 420 * 420 /\ r = 456 /\ r \in Nat
  BY DEF move_step_distance
<1> HIDE DEF d, r
<1>3. ASSUME NEW i \in 2 .. n
      PROVE  \E x, y \in -d .. d :
               /\ line[i][1] = Snap(line[i - 1][1] + x) /\ line[i][2] = Snap(line[i - 1][2] + y)
               /\ x * x + y * y <= d * d
  <2> DEFINE f == StepBehind(i)
  <2>1. f \in Nat /\ f <= d /\ f * f <= d * d /\ a + 4 \in Int
    BY <1>a DEF StepBehind, move_step_distance, tail_step_distance
  <2>2. line[i] = Whole(Plus(line[i - 1], Vector(a + 4, f)))
    BY <1>1
  <2> HIDE DEF f
  <2>3. PICK x \in -f .. f, y \in -f .. f :
               Vector(a + 4, f) = <<x, y>> /\ x * x + y * y <= f * f
    BY <2>1, VectorBound, Zenon
  <2>4. line[i][1] = Snap(line[i - 1][1] + x) /\ line[i][2] = Snap(line[i - 1][2] + y)
    BY <2>2, <2>3 DEF Whole, Plus
  <2>5. x \in -d .. d /\ y \in -d .. d /\ x * x + y * y <= d * d
    <3>1. f * f \in Int /\ d * d \in Int /\ x * x \in Int /\ y * y \in Int
      BY <1>a, <2>1
    <3> QED
      BY <1>a, <2>1, <2>3, <3>1
  <2> HIDE DEF Snap
  <2> QED
    BY <2>4, <2>5, Zenon
<1>4. ASSUME NEW x \in Int, NEW y \in -d .. d
      PROVE  /\ Snap(x + y) - (x + y) \in -9 .. 0
             /\ Snap(x + y) \in Int
             /\ Within(Snap(x + y), x, r)
  BY <1>a DEF Within
<1> HIDE DEF Snap
<1>5. ASSUME NEW i \in 1 .. n PROVE line[i][1] \in Int /\ line[i][2] \in Int
  BY <1>2 DEF Positions
<1>6. ASSUME NEW k \in 1 .. 2 PROVE StepsAreShort(Coordinates(line, k), n)
  <2>1. ASSUME NEW i \in 2 .. n
        PROVE  Within(Coordinates(line, k)[i], Coordinates(line, k)[i - 1], r)
    <3>1. i \in 1 .. n /\ i - 1 \in 1 .. n
      OBVIOUS
    <3>2. Coordinates(line, k)[i] = line[i][k] /\ Coordinates(line, k)[i - 1] = line[i - 1][k]
      BY <1>1, <3>1, CoordinatesAre
    <3>3. PICK x, y \in -d .. d :
                 /\ line[i][1] = Snap(line[i - 1][1] + x) /\ line[i][2] = Snap(line[i - 1][2] + y)
                 /\ x * x + y * y <= d * d
      BY <1>3, Zenon
    <3>4. line[i - 1][1] \in Int /\ line[i - 1][2] \in Int
      BY <1>5, <3>1, Zenon
    <3>5. /\ Within(Snap(line[i - 1][1] + x), line[i - 1][1], r)
          /\ Within(Snap(line[i - 1][2] + y), line[i - 1][2], r)
      BY <1>4, <3>4, Zenon
    <3>7. Within(line[i][1], line[i - 1][1], r) /\ Within(line[i][2], line[i - 1][2], r)
      BY <3>3, <3>5, Zenon
    <3>6. k = 1 \/ k = 2
      OBVIOUS
    <3> QED
      BY <3>2, <3>6, <3>7
  <2> QED
    BY <2>1 DEF StepsAreShort, r
<1>7. NeckIsShort(line)
  <2>1. 1 \in 1 .. n /\ 2 \in 1 .. n /\ 2 \in 2 .. n /\ 2 - 1 = 1
    OBVIOUS
  <2>2. PICK x, y \in -d .. d :
               /\ line[2][1] = Snap(line[2 - 1][1] + x) /\ line[2][2] = Snap(line[2 - 1][2] + y)
               /\ x * x + y * y <= d * d
    BY <1>3, <2>1, Zenon
  <2>3. PICK p1 \in Int, p2 \in Int, q1 \in Int, q2 \in Int :
               line[1][1] = p1 /\ line[1][2] = p2 /\ line[2][1] = q1 /\ line[2][2] = q2
    <3>1. line[1][1] \in Int /\ line[1][2] \in Int /\ line[2][1] \in Int /\ line[2][2] \in Int
      BY <1>5, <2>1, Zenon
    <3> QED
      BY <3>1, Zenon
  <2> DEFINE u == q1 - (p1 + x)
             v == q2 - (p2 + y)
  <2>4. u \in -9 .. 0 /\ v \in -9 .. 0
    <3>1. q1 = Snap(p1 + x) /\ q2 = Snap(p2 + y)
      BY <2>1, <2>2, <2>3
    <3> QED
      BY <1>4, <3>1
  <2>5. q1 - p1 = x + u /\ q2 - p2 = y + v
    OBVIOUS
  <2> HIDE DEF u, v
  <2>6. u * u + v * v <= 20 * 20
    <3>1. u * u <= 9 * 9 /\ v * v <= 9 * 9 /\ u * u \in Int /\ v * v \in Int
      BY <2>4, SquareBound
    <3> QED
      BY <3>1
  <2>7. (x + u) * (x + u) + (y + v) * (y + v) <= (420 + 20) * (420 + 20)
    <3>1. PICK w \in Nat : w = 20
      OBVIOUS
    <3>2. x \in Int /\ y \in Int /\ u \in Int /\ v \in Int /\ d \in Nat
      BY <1>a, <2>2, <2>4
    <3>3. u * u + v * v <= w * w
      BY <2>6, <3>1
    <3>4. (x + u) * (x + u) + (y + v) * (y + v) <= (d + w) * (d + w)
      BY <2>2, <3>2, <3>3, Triangle, Zenon
    <3>5. (d + w) * (d + w) = (420 + 20) * (420 + 20)
      BY <1>a, <3>1
    <3> QED
      BY <3>4, <3>5
  <2>8. Distance2(line[1], line[2]) = (p1 - q1) * (p1 - q1) + (p2 - q2) * (p2 - q2)
    BY <2>3 DEF Distance2
  <2>9. /\ (p1 - q1) * (p1 - q1) = (q1 - p1) * (q1 - p1)
        /\ (p2 - q2) * (p2 - q2) = (q2 - p2) * (q2 - p2)
    OBVIOUS
  <2> QED
    BY <2>5, <2>7, <2>8, <2>9 DEF NeckIsShort
<1> QED
  BY <1>1, <1>6, <1>7 DEF Spaced, line

\* Growing repeats a part and shrinking takes one away.
LEMMA GrownSpaced ==
  ASSUME NEW b \in Seq(Positions), Len(b) >= 3, NEW gain \in Nat \cup {-1},
         Spaced(b), NeckIsShort(b)
  PROVE  Spaced(Grown(b, gain)) /\ NeckIsShort(Grown(b, gain))
<1> DEFINE w == Grown(b, gain)
           n == Len(b)
<1>1. /\ w \in Seq(Positions) /\ Len(w) >= 3
      /\ \A i \in 1 .. Len(w) : w[i] = IF i <= n THEN b[i] ELSE b[n]
  BY GrownIs
<1>2. n \in Nat /\ n >= 3 /\ Len(w) \in Nat
  BY <1>1, LenProperties
<1> HIDE DEF w
<1>3. ASSUME NEW k \in 1 .. 2, NEW i \in 2 .. Len(w)
      PROVE  Within(Coordinates(w, k)[i], Coordinates(w, k)[i - 1], 456)
  <2>1. i \in 1 .. Len(w) /\ i - 1 \in 1 .. Len(w)
    BY <1>2
  <2>2. Coordinates(w, k)[i] = w[i][k] /\ Coordinates(w, k)[i - 1] = w[i - 1][k]
    BY <1>1, <2>1, CoordinatesAre
  <2>3. \A j \in 1 .. n : Coordinates(b, k)[j] = b[j][k] /\ Coordinates(b, k)[j] \in Int
    BY CoordinatesAre
  <2>4. CASE i <= n
    <3>1. i \in 2 .. n /\ i \in 1 .. n /\ i - 1 \in 1 .. n /\ i - 1 <= n
      BY <1>2, <2>4
    <3>2. Within(Coordinates(b, k)[i], Coordinates(b, k)[i - 1], 456)
      BY <3>1 DEF Spaced, StepsAreShort
    <3>3. w[i] = b[i] /\ w[i - 1] = b[i - 1]
      BY <1>1, <2>1, <2>4, <3>1
    <3> QED
      BY <2>2, <2>3, <3>1, <3>2, <3>3
  <2>5. CASE ~ (i <= n)
    <3>1. w[i] = b[n] /\ w[i - 1] = b[n]
      <4>1. ~ (i - 1 <= n) \/ i - 1 = n
        BY <1>2, <2>5
      <4> QED
        BY <1>1, <2>1, <2>5, <4>1
    <3>2. b[n][k] \in Int
      BY <1>2, <2>3
    <3>3. \A x \in Int : Within(x, x, 456)
      BY DEF Within
    <3> QED
      BY <2>2, <3>1, <3>2, <3>3
  <2> QED
    BY <2>4, <2>5
<1>4. w[1] = b[1] /\ w[2] = b[2]
  <2>1. 1 \in 1 .. Len(w) /\ 2 \in 1 .. Len(w) /\ 1 <= n /\ 2 <= n
    BY <1>1, <1>2
  <2> QED
    BY <1>1, <2>1
<1>5. NeckIsShort(w)
  BY <1>4 DEF NeckIsShort
<1> QED
  BY <1>3, <1>5 DEF Spaced, StepsAreShort, w

\* What keeps a body together that is ticked on time.
SpacingInv == OnTime /\ parts # <<>> => Spaced(parts) /\ NeckIsShort(parts)

LEMMA CreateSpacing == BoxInv /\ CreateSnake => SpacingInv'
<1> SUFFICES ASSUME BoxInv, CreateSnake PROVE SpacingInv'
  OBVIOUS
<1>1. life \in Lives /\ parts' = Line(life.length, life.head, life.angle)
  BY DEF BoxInv, BoxTypeOK, CreateSnake
<1>2. /\ life.length \in Nat /\ life.length >= 3 /\ life.head \in Positions
      /\ life.angle \in Int
  BY <1>1, LivesAssumption DEF Positions
<1>3. Spaced(parts') /\ NeckIsShort(parts')
  BY <1>1, <1>2, LineSpaced
<1> QED
  BY <1>3 DEF SpacingInv

LEMMA TickSpacing ==
  ASSUME BoxInv, SpacingInv, NEW frames \in life.frames, NEW gain \in life.gains,
         NEW turn \in -2 * frames .. 2 * frames, SnakeTick(frames, turn, gain)
  PROVE  SpacingInv'
<1> SUFFICES ASSUME OnTime' PROVE Spaced(parts') /\ NeckIsShort(parts')
  BY DEF SpacingInv
<1>1. /\ life \in Lives /\ life' = life /\ angle \in 0 .. 7 /\ parts # <<>>
      /\ angle' = (angle + turn) % 8
      /\ parts \in Seq(Positions) /\ (parts = <<>> \/ Len(parts) >= 3)
  BY DEF BoxInv, BoxTypeOK, SnakeTick, Positions
<1>2. OnTime /\ frames = 1 /\ gain \in Nat \cup {-1}
  BY <1>1, LivesAssumption DEF OnTime
<1>3. angle' \in Int
  <2>1. turn \in Int
    BY <1>2
  <2>2. ASSUME NEW x \in Int PROVE x % 8 \in Int
    OBVIOUS
  <2> QED
    BY <1>1, <2>1, <2>2
<1>4. Len(parts) >= 3 /\ Len(parts) \in Nat /\ Spaced(parts) /\ NeckIsShort(parts)
  BY <1>1, <1>2, LenProperties DEF SpacingInv
<1> DEFINE h == Plus(parts[1], Vector(angle', frames * move_step_distance))
           b == Moved(parts, h)
<1>5. parts' = Grown(b, gain)
  BY DEF SnakeTick
<1> DEFINE d == move_step_distance
<1>a. d = 420 /\ d \in Nat /\ frames * d = d
  BY <1>2 DEF move_step_distance
<1> HIDE DEF d
<1>6. PICK x, y \in -d .. d : Vector(angle', d) = <<x, y>> /\ x * x + y * y <= d * d
  <2>1. d \in Nat
    BY <1>a
  <2> QED
    BY <1>3, <2>1, VectorBound, Zenon
<1>b. x \in -420 .. 420 /\ y \in -420 .. 420
  BY <1>6, <1>a
<1>7. PICK p1, p2 \in Int : parts[1] = <<p1, p2>>
  <2>1. parts[1] \in Positions
    BY <1>1, <1>4, ElementOfSeq
  <2> QED
    BY <2>1 DEF Positions
<1>8. h = <<p1 + x, p2 + y>>
  <2>1. h = Plus(parts[1], Vector(angle', d))
    BY <1>a DEF d
  <2> HIDE DEF h
  <2> QED
    BY <1>6, <1>7, <2>1 DEF Plus
<1>9. h \in Positions
  BY <1>8, <1>b DEF Positions
<1> HIDE DEF h
<1>10. \A k \in 1 .. 2 : Within(h[k], parts[1][k], 420)
  <2>1. Within(p1 + x, p1, 420) /\ Within(p2 + y, p2, 420)
    BY <1>b DEF Within
  <2>2. \A k \in 1 .. 2 : k = 1 \/ k = 2
    OBVIOUS
  <2>3. /\ h[1] = p1 + x /\ h[2] = p2 + y
        /\ parts[1][1] = p1 /\ parts[1][2] = p2
    BY <1>7, <1>8
  <2> QED
    BY <2>1, <2>2, <2>3
<1>11. Spaced(b)
  BY <1>1, <1>4, <1>9, <1>10, MovedSpaced
<1>12. /\ b \in Seq(Positions) /\ Len(b) = Len(parts)
       /\ b[1] = h /\ b[2] = parts[1]
  <2>1. 2 \in 2 .. Len(parts) /\ 2 <= parts_skip_count /\ 2 - 1 = 1 /\ Len(parts) # 0
    BY <1>4 DEF parts_skip_count
  <2>2. /\ b \in Seq(Positions) /\ Len(b) = Len(parts) /\ b[1] = h
        /\ \A i \in 2 .. Len(parts) : i <= parts_skip_count => b[i] = parts[i - 1]
    BY <1>1, <1>9, <2>1, MovedIs
  <2> HIDE DEF b
  <2>3. b[2] = parts[2 - 1]
    BY <2>1, <2>2
  <2> QED
    BY <2>1, <2>2, <2>3
<1> HIDE DEF b
<1>13. NeckIsShort(b)
  <2>1. Distance2(b[1], b[2]) = x * x + y * y
    <3>1. Distance2(b[1], b[2]) = (p1 + x - p1) * (p1 + x - p1) + (p2 + y - p2) * (p2 + y - p2)
      BY <1>7, <1>8, <1>12 DEF Distance2
    <3>2. p1 + x - p1 = x /\ p2 + y - p2 = y
      OBVIOUS
    <3> QED
      BY <3>1, <3>2
  <2>2. x * x + y * y <= 440 * 440
    <3>1. x * x \in Int /\ y * y \in Int /\ d * d = 420 * 420
      BY <1>a, <1>b
    <3> QED
      BY <1>6, <3>1
  <2> QED
    BY <2>1, <2>2 DEF NeckIsShort
<1> QED
  BY <1>2, <1>4, <1>5, <1>11, <1>12, <1>13, GrownSpaced

LEMMA SpacingHolds == BoxSpec => []SpacingInv
<1>1. BoxInit => SpacingInv
  BY DEF BoxInit, NoSnake, SpacingInv
<1>2. BoxInv /\ SpacingInv /\ [BoxNext]_boxVars => SpacingInv'
  <2>1. SpacingInv /\ UNCHANGED boxVars => SpacingInv'
    BY DEF boxVars, SpacingInv, OnTime
  <2>2. RemoveSnake => SpacingInv'
    BY DEF RemoveSnake, SpacingInv
  <2> QED
    BY <2>1, <2>2, CreateSpacing, TickSpacing DEF BoxNext
<1> QED
  BY <1>1, <1>2, BoxInvHolds, PTL DEF BoxSpec

-----------------------------------------------------------------------------
(* Drawing a snake *)

\* What a client adds up, in one coordinate c of n parts.
LEMMA DrawnIs ==
  ASSUME parts \in Seq(Positions), Len(parts) >= 3, NEW k \in 1 .. 2
  PROVE  LET n == Len(parts)
             c == Coordinates(parts, k)
         IN  /\ Drawn(k) \in [1 .. n -> Int]
             /\ Drawn(k)[1] = 2 * (c[n] \div 2)
             /\ \A i \in 2 .. n : Drawn(k)[i] =
                  Drawn(k)[i - 1] + 5 * ((c[n + 1 - i] - c[n + 2 - i]) \div 5)
<1> DEFINE n == Len(parts)
           c == Coordinates(parts, k)
           x == 2 * (parts[n][k] \div 2)
           Step(i, q) == q + 5 * (StepByte(parts[n + 1 - i], parts[n + 2 - i], k) - 127)
           drawn[i \in 1 .. n] == IF i = 1 THEN x ELSE Step(i, drawn[i - 1])
           g == [i \in 2 .. n |-> [q \in Int |-> Step(i, q)]]
<1>1. /\ n \in Nat /\ n >= 3 /\ n \in Nat \ {0}
      /\ \A i \in 1 .. n : c[i] = parts[i][k] /\ c[i] \in Int
  <2>1. n \in Nat /\ c \in [1 .. n -> Int] /\ \A i \in 1 .. n : c[i] = parts[i][k]
    BY CoordinatesAre
  <2>2. \A i \in 1 .. n : c[i] \in Int
    BY <2>1
  <2> HIDE DEF c
  <2> QED
    BY <2>1, <2>2
<1>2. Drawn(k) = drawn
  BY DEF Drawn
<1> HIDE DEF n, c
<1>3. x = 2 * (c[n] \div 2) /\ x \in Int
  <2>1. c[n] = parts[n][k] /\ c[n] \in Int
    BY <1>1
  <2> QED
    BY <2>1
<1>4. ASSUME NEW i \in 2 .. n, NEW q \in Int
      PROVE  /\ Step(i, q) = q + 5 * ((c[n + 1 - i] - c[n + 2 - i]) \div 5)
             /\ Step(i, q) \in Int
  <2>1. n + 1 - i \in 1 .. n /\ n + 2 - i \in 1 .. n
    BY <1>1
  <2>2. PICK y, z \in Int : /\ c[n + 1 - i] = y /\ parts[n + 1 - i][k] = y
                            /\ c[n + 2 - i] = z /\ parts[n + 2 - i][k] = z
    BY <1>1, <2>1
  <2>3. StepByte(parts[n + 1 - i], parts[n + 2 - i], k) = (y - z) \div 5 + 127
    BY <2>2 DEF StepByte
  <2>4. (y - z) \div 5 \in Int
    OBVIOUS
  <2>5. Step(i, q) = q + 5 * ((y - z) \div 5)
    BY <2>3, <2>4
  <2> HIDE DEF Step
  <2>6. Step(i, q) \in Int
    BY <2>4, <2>5
  <2> QED
    BY <2>2, <2>5, <2>6
<1> HIDE DEF Step, x
<1>5. g \in [2 .. n -> [Int -> Int]]
  BY <1>4
<1> HIDE DEF g
<1>6. PICK f : IsChain(f, n, Int, x, g)
  BY <1>1, <1>3, <1>5, ChainExists
<1>7. /\ f \in [1 .. n -> Int] /\ f[1] = x
      /\ \A i \in 2 .. n : f[i] = g[i][f[i - 1]]
  BY <1>6 DEF IsChain
<1>8. ASSUME NEW i \in 2 .. n PROVE f[i] = Step(i, f[i - 1])
  <2>1. i - 1 \in 1 .. n
    BY <1>1
  <2>2. f[i - 1] \in Int
    BY <1>7, <2>1
  <2> QED
    BY <1>7, <2>2 DEF g
<1>9. f = [i \in 1 .. n |-> IF i = 1 THEN x ELSE Step(i, f[i - 1])]
  BY <1>1, <1>7, <1>8
<1>10. drawn = [i \in 1 .. n |-> IF i = 1 THEN x ELSE Step(i, drawn[i - 1])]
  <2>1. \E e : e = [i \in 1 .. n |-> IF i = 1 THEN x ELSE Step(i, e[i - 1])]
    BY <1>9
  <2> QED
    BY <2>1
<1> HIDE DEF drawn
<1>11. drawn[1] = x /\ \A i \in 2 .. n : drawn[i] = Step(i, drawn[i - 1])
  BY <1>1, <1>10
<1>12. \A i \in 1 .. n : drawn[i] \in Int
  <2>1. drawn[1] \in Int /\ \A i \in 2 .. n : drawn[i - 1] \in Int => drawn[i] \in Int
    BY <1>3, <1>4, <1>11
  <2> QED
    BY <1>1, <2>1, ChainInvariant
<1>13. drawn \in [1 .. n -> Int]
  BY <1>10, <1>12
<1>14. ASSUME NEW i \in 2 .. n
       PROVE  drawn[i] = drawn[i - 1] + 5 * ((c[n + 1 - i] - c[n + 2 - i]) \div 5)
  <2>1. drawn[i - 1] \in Int
    BY <1>1, <1>12
  <2> QED
    BY <1>4, <1>11, <2>1
<1> QED
  BY <1>2, <1>3, <1>11, <1>13, <1>14 DEF n, c

\* What is cut off adds up to less than half a pixel a part, whatever the steps.
LEMMA DriftIsBounded ==
  ASSUME parts \in Seq(Positions), Len(parts) >= 3, NEW k \in 1 .. 2
  PROVE  \A i \in 1 .. Len(parts) :
           Coordinates(parts, k)[Len(parts) + 1 - i] - Drawn(k)[i] \in 0 .. 4 * (i - 1) + 1
<1> DEFINE n == Len(parts)
           c == Coordinates(parts, k)
           d == Drawn(k)
           P == {i \in 1 .. n : c[n + 1 - i] - d[i] \in 0 .. 4 * (i - 1) + 1}
<1>1. n \in Nat \ {0} /\ c \in [1 .. n -> Int]
  BY CoordinatesAre
<1>2. /\ d \in [1 .. n -> Int] /\ d[1] = 2 * (c[n] \div 2)
      /\ \A i \in 2 .. n : d[i] = d[i - 1] + 5 * ((c[n + 1 - i] - c[n + 2 - i]) \div 5)
  BY DrawnIs
<1> HIDE DEF n, c, d
<1>3. 1 \in P
  <2>1. PICK x \in Int : c[n] = x
    BY <1>1
  <2>2. n + 1 - 1 = n /\ 1 \in 1 .. n
    BY <1>1
  <2>3. x - 2 * (x \div 2) \in 0 .. 4 * (1 - 1) + 1
    OBVIOUS
  <2> QED
    BY <1>2, <2>1, <2>2, <2>3
<1>4. ASSUME NEW i \in 2 .. n, i - 1 \in P PROVE i \in P
  <2>1. /\ i \in 1 .. n /\ i - 1 \in 1 .. n /\ n + 1 - i \in 1 .. n /\ n + 2 - i \in 1 .. n
        /\ n + 1 - (i - 1) = n + 2 - i /\ i \in Int
    BY <1>1
  <2>2. PICK x, y, e \in Int : c[n + 1 - i] = x /\ c[n + 2 - i] = y /\ d[i - 1] = e
    BY <1>1, <1>2, <2>1
  <2>3. y - e \in 0 .. 4 * (i - 1 - 1) + 1
    BY <1>4, <2>1, <2>2
  <2>4. d[i] = e + 5 * ((x - y) \div 5)
    BY <1>2, <2>2
  <2>5. x - (e + 5 * ((x - y) \div 5)) \in 0 .. 4 * (i - 1) + 1
    <3> DEFINE w == x - y
    <3>1. w - 5 * (w \div 5) \in 0 .. 4 /\ w \div 5 \in Int
      OBVIOUS
    <3>2. x - (e + 5 * (w \div 5)) = (y - e) + (w - 5 * (w \div 5))
      BY <3>1
    <3> QED
      BY <2>1, <2>3, <3>1, <3>2
  <2> QED
    BY <2>1, <2>2, <2>4, <2>5
<1>5. \A i \in 1 .. n : i \in P
  <2> HIDE DEF P
  <2> QED
    BY <1>1, <1>3, <1>4, RoundByRound
<1> QED
  BY <1>5 DEF n, c, d

\* A client to which a snake is introduced by packet_add_snake draws all of it,
\* however long it has grown and however it has turned: no step from part to part
\* leaves its byte, and the client is off by less than half a pixel a part.
THEOREM BodyAlwaysDrawn == BoxSpec => []BodyIsDrawn
<1>1. BoxInv /\ SpacingInv => BodyIsDrawn
  <2> SUFFICES ASSUME BoxInv, Spaced(parts), parts # <<>>, NEW k \in 1 .. 2
               PROVE  LET n == Len(parts) IN
                      /\ \A i \in 2 .. n - 1 : StepByte(parts[i], parts[i + 1], k) \in 0 .. 255
                      /\ \A i \in 2 .. n :
                           parts[i][k] - Drawn(k)[n + 1 - i] \in 0 .. 4 * (n - i) + 1
    BY DEF SpacingInv, BodyIsDrawn
  <2> DEFINE n == Len(parts)
             c == Coordinates(parts, k)
             d == Drawn(k)
  <2>1. parts \in Seq(Positions) /\ n >= 3
    BY DEF BoxInv, BoxTypeOK, Positions
  <2>2. n \in Nat /\ c \in [1 .. n -> Int] /\ \A i \in 1 .. n : c[i] = parts[i][k]
    BY <2>1, CoordinatesAre
  <2>3. \A i \in 1 .. n : c[n + 1 - i] - d[i] \in 0 .. 4 * (i - 1) + 1
    BY <2>1, DriftIsBounded
  <2>4. \A i \in 2 .. n : Within(c[i], c[i - 1], 456)
    BY DEF Spaced, StepsAreShort
  <2> HIDE DEF n, c, d
  <2>5. ASSUME NEW i \in 2 .. n - 1 PROVE StepByte(parts[i], parts[i + 1], k) \in 0 .. 255
    <3>1. i \in 1 .. n /\ i + 1 \in 2 .. n /\ i + 1 \in 1 .. n /\ (i + 1) - 1 = i
      BY <2>1, <2>2
    <3>2. PICK x, y \in Int : /\ c[i] = x /\ c[i + 1] = y
                              /\ parts[i][k] = x /\ parts[i + 1][k] = y
      BY <2>2, <3>1
    <3>3. Within(y, x, 456)
      BY <2>4, <3>1, <3>2
    <3>4. (x - y) \div 5 + 127 \in 0 .. 255
      BY <3>3 DEF Within
    <3> QED
      BY <3>2, <3>4 DEF StepByte
  <2>6. ASSUME NEW i \in 2 .. n
        PROVE  parts[i][k] - d[n + 1 - i] \in 0 .. 4 * (n - i) + 1
    <3>1. /\ i \in 1 .. n /\ n + 1 - i \in 1 .. n /\ n + 1 - (n + 1 - i) = i
          /\ (n + 1 - i) - 1 = n - i
      BY <2>1, <2>2
    <3>2. c[i] - d[n + 1 - i] \in 0 .. 4 * (n - i) + 1
      BY <2>3, <3>1
    <3> QED
      BY <2>2, <3>1, <3>2
  <2> QED
    BY <2>5, <2>6 DEF n, d
<1> QED
  BY <1>1, BoxInvHolds, SpacingHolds, PTL

-----------------------------------------------------------------------------
(* Hitting a snake *)

LEMMA PairOf ==
  ASSUME NEW p \in Positions
  PROVE  \E x, y \in Int : p = <<x, y>>
  BY DEF Positions

\* From c to p to q is no shorter than from c to q.
LEMMA ByWayOf ==
  ASSUME NEW c \in Positions, NEW p \in Positions, NEW q \in Positions,
         NEW a \in Nat, NEW b \in Nat, NEW r \in Nat, a + b <= r,
         Distance2(c, p) <= a * a, Distance2(p, q) <= b * b
  PROVE  intersect_circle(c, q, r)
<1>1. PICK c1, c2, p1, p2, q1, q2 \in Int :
             c = <<c1, c2>> /\ p = <<p1, p2>> /\ q = <<q1, q2>>
  <2>1. /\ \E x, y \in Int : c = <<x, y>>
        /\ \E x, y \in Int : p = <<x, y>>
        /\ \E x, y \in Int : q = <<x, y>>
    BY PairOf, Zenon
  <2> QED
    BY <2>1, Zenon
<1>2. /\ (c1 - p1) * (c1 - p1) + (c2 - p2) * (c2 - p2) <= a * a
      /\ (p1 - q1) * (p1 - q1) + (p2 - q2) * (p2 - q2) <= b * b
  BY <1>1 DEF Distance2
<1> DEFINE x1 == c1 - p1
           x2 == c2 - p2
           y1 == p1 - q1
           y2 == p2 - q2
<1>3. /\ x1 \in Int /\ x2 \in Int /\ y1 \in Int /\ y2 \in Int
      /\ c1 - q1 = x1 + y1 /\ c2 - q2 = x2 + y2
      /\ x1 * x1 + x2 * x2 <= a * a /\ y1 * y1 + y2 * y2 <= b * b
  BY <1>2
<1>4. Distance2(c, q) = (c1 - q1) * (c1 - q1) + (c2 - q2) * (c2 - q2)
  BY <1>1 DEF Distance2
<1> HIDE DEF x1, x2, y1, y2
<1>5. (x1 + y1) * (x1 + y1) + (x2 + y2) * (x2 + y2) <= (a + b) * (a + b)
  BY <1>3, Triangle
<1>6. (a + b) * (a + b) <= r * r /\ (a + b) * (a + b) \in Int /\ r * r \in Int
  <2>1. a + b \in Int /\ -r <= a + b
    OBVIOUS
  <2> DEFINE s == a + b
  <2>2. s \in Int /\ -r <= s /\ s <= r
    BY <2>1
  <2> HIDE DEF s
  <2>3. s * s <= r * r /\ s * s \in Int
    BY <2>2, SquareBound
  <2> QED
    BY <2>3 DEF s
<1>7. (c1 - q1) * (c1 - q1) + (c2 - q2) * (c2 - q2) <= (a + b) * (a + b)
  BY <1>3, <1>5
<1>8. (c1 - q1) * (c1 - q1) + (c2 - q2) * (c2 - q2) \in Int
  OBVIOUS
<1> QED
  BY <1>4, <1>6, <1>7, <1>8 DEF intersect_circle

LEMMA DistanceIs ==
  ASSUME NEW p \in Positions, NEW q \in Positions
  PROVE  Distance2(p, q) = Distance2(q, p) /\ Distance2(p, p) = 0
<1>1. PICK p1, p2, q1, q2 \in Int : p = <<p1, p2>> /\ q = <<q1, q2>>
  BY DEF Positions
<1>2. /\ (p1 - q1) * (p1 - q1) = (q1 - p1) * (q1 - p1)
      /\ (p2 - q2) * (p2 - q2) = (q2 - p2) * (q2 - p2)
      /\ (p1 - p1) * (p1 - p1) = 0 /\ (p2 - p2) * (p2 - p2) = 0
  OBVIOUS
<1> QED
  BY <1>1, <1>2 DEF Distance2

LEMMA ReachIs ==
  ASSUME NEW n \in Nat, NEW m \in Nat
  PROVE  BodyPartRadius(n) \in Nat /\ BodyPartRadius(n) + BodyPartRadius(m) \in Nat
<1>1. ASSUME NEW k \in Nat PROVE BodyPartRadius(k) \in Nat
  <2> DEFINE sc == 106 + k - 3
             s == IF sc < 6 * 106 THEN sc ELSE 6 * 106
  <2>1. s \in Nat
    OBVIOUS
  <2>2. BodyPartRadius(k) = (145 * s) \div 106
    BY DEF BodyPartRadius
  <2> HIDE DEF s
  <2>3. (145 * s) \div 106 \in Nat
    BY <2>1
  <2> QED
    BY <2>2, <2>3
<1> QED
  BY <1>1

\* A foe's head that touches a part is within the two radii of it.
LEMMA TouchingIs ==
  ASSUME parts \in Seq(Positions), NEW i \in 1 .. Len(parts), NEW m \in Nat,
         NEW q \in Touching(i, m)
  PROVE  /\ parts[i] \in Positions /\ q \in Positions /\ ReachOf(m) \in Nat
         /\ Distance2(parts[i], q) <= ReachOf(m) * ReachOf(m)
<1> DEFINE r == ReachOf(m)
<1>1. r \in Nat
  BY LenProperties, ReachIs DEF ReachOf
<1>2. parts[i] \in Positions
  BY ElementOfSeq
<1>3. q = parts[i] \/ \E a \in 0 .. 7 : q = Plus(parts[i], Vector(a, r))
  BY DEF Touching
<1> HIDE DEF r
<1>4. r * r >= 0 /\ r * r \in Int
  BY <1>1
<1>5. CASE q = parts[i]
  BY <1>1, <1>2, <1>4, <1>5, DistanceIs DEF r
<1>6. CASE \E a \in 0 .. 7 : q = Plus(parts[i], Vector(a, r))
  <2>1. PICK a \in 0 .. 7 : q = Plus(parts[i], Vector(a, r))
    BY <1>6
  <2>2. PICK x, y \in -r .. r : Vector(a, r) = <<x, y>> /\ x * x + y * y <= r * r
    <3>1. a \in Int
      OBVIOUS
    <3> QED
      BY <1>1, <3>1, VectorBound
  <2>3. PICK p1, p2 \in Int : parts[i] = <<p1, p2>>
    BY <1>2 DEF Positions
  <2>4. q = <<p1 + x, p2 + y>> /\ x \in Int /\ y \in Int
    BY <1>1, <2>1, <2>2, <2>3 DEF Plus
  <2>5. q \in Positions
    BY <2>4 DEF Positions
  <2>6. /\ (p1 - (p1 + x)) * (p1 - (p1 + x)) = x * x
        /\ (p2 - (p2 + y)) * (p2 - (p2 + y)) = y * y
    BY <2>4
  <2>7. Distance2(parts[i], q) = x * x + y * y
    BY <2>3, <2>4, <2>6 DEF Distance2
  <2> QED
    BY <1>1, <1>2, <2>2, <2>5, <2>7 DEF r
<1> QED
  BY <1>3, <1>5, <1>6

\* Two parts in a row are at most 64.5 pixels apart.
LEMMA StepIsShort ==
  ASSUME NEW b \in Seq(Positions), Spaced(b), NEW i \in 2 .. Len(b)
  PROVE  Distance2(b[i], b[i - 1]) <= 645 * 645
<1>1. Len(b) \in Nat /\ i \in 1 .. Len(b) /\ i - 1 \in 1 .. Len(b)
  BY LenProperties
<1>2. PICK x1, x2, y1, y2 \in Int : b[i] = <<x1, x2>> /\ b[i - 1] = <<y1, y2>>
  <2>1. b[i] \in Positions /\ b[i - 1] \in Positions
    BY <1>1, ElementOfSeq
  <2>2. PICK x1, x2 \in Int : b[i] = <<x1, x2>>
    BY <2>1, PairOf
  <2>3. PICK y1, y2 \in Int : b[i - 1] = <<y1, y2>>
    BY <2>1, PairOf
  <2> QED
    BY <2>2, <2>3
<1>3. ASSUME NEW k \in 1 .. 2 PROVE Within(b[i][k], b[i - 1][k], 456)
  <2>1. Coordinates(b, k)[i] = b[i][k] /\ Coordinates(b, k)[i - 1] = b[i - 1][k]
    BY <1>1, CoordinatesAre
  <2>2. Within(Coordinates(b, k)[i], Coordinates(b, k)[i - 1], 456)
    BY DEF Spaced, StepsAreShort
  <2> QED
    BY <2>1, <2>2
<1>4. Within(x1, y1, 456) /\ Within(x2, y2, 456)
  <2>1. 1 \in 1 .. 2 /\ 2 \in 1 .. 2
    OBVIOUS
  <2>2. b[i][1] = x1 /\ b[i][2] = x2 /\ b[i - 1][1] = y1 /\ b[i - 1][2] = y2
    BY <1>2
  <2> QED
    BY <1>3, <2>1, <2>2
<1> DEFINE u == x1 - y1
           v == x2 - y2
<1>5. u \in Int /\ v \in Int /\ -456 <= u /\ u <= 456 /\ -456 <= v /\ v <= 456
  BY <1>4 DEF Within
<1>6. Distance2(b[i], b[i - 1]) = u * u + v * v
  BY <1>2 DEF Distance2
<1> HIDE DEF u, v
<1>7. u * u <= 456 * 456 /\ v * v <= 456 * 456 /\ u * u \in Int /\ v * v \in Int
  BY <1>5, SquareBound
<1> QED
  BY <1>6, <1>7

\* A part that is tested, and near enough for the first check, is found.
LEMMA PartIsFound ==
  ASSUME parts \in Seq(Positions), NEW i \in 2 .. Len(parts), NEW m \in Nat,
         NEW q \in Touching(i, m), ReachOf(m) <= 840,
         NEW first \in Int, NEW last \in Int, first <= i, i <= last
  PROVE  IntersectParts(q, BodyPartRadius(m), first, last)
<1>1. i \in 1 .. Len(parts) /\ i \in first .. last
  BY LenProperties
<1>2. /\ parts[i] \in Positions /\ q \in Positions /\ ReachOf(m) \in Nat
      /\ Distance2(parts[i], q) <= ReachOf(m) * ReachOf(m)
  BY <1>1, TouchingIs
<1>3. intersect_circle(parts[i], q, 2 * move_step_distance)
  <2>1. Distance2(parts[i], parts[i]) <= 0 * 0
    BY <1>2, DistanceIs
  <2>2. 0 + ReachOf(m) <= 840 /\ 840 \in Nat /\ 0 \in Nat
    BY <1>2
  <2>3. intersect_circle(parts[i], q, 840)
    BY <1>2, <2>1, <2>2, ByWayOf
  <2>4. 2 * move_step_distance = 840
    BY DEF move_step_distance
  <2> QED
    BY <2>3, <2>4
<1>4. intersect_circle(parts[i], q, BodyPartRadius(m) + BodyPartRadius(Len(parts)))
  BY <1>2 DEF intersect_circle, ReachOf
<1> QED
  BY <1>1, <1>3, <1>4 DEF IntersectParts

\* The head is found with the part behind it.
LEMMA HeadIsFound ==
  ASSUME parts \in Seq(Positions), Len(parts) >= 3, NeckIsShort(parts),
         NEW m \in Nat, NEW q \in Touching(1, m), ReachOf(m) <= 400
  PROVE  IntersectParts(q, BodyPartRadius(m), 2, Len(parts))
<1>1. 1 \in 1 .. Len(parts) /\ 2 \in 1 .. Len(parts) /\ 2 \in 2 .. Len(parts) /\ 2 - 1 = 1
  BY LenProperties
<1>2. /\ parts[1] \in Positions /\ q \in Positions /\ ReachOf(m) \in Nat
      /\ Distance2(parts[1], q) <= ReachOf(m) * ReachOf(m)
  BY <1>1, TouchingIs
<1>3. parts[2] \in Positions
  BY <1>1, ElementOfSeq
<1>4. intersect_circle(parts[2], q, 2 * move_step_distance)
  <2> DEFINE neck == 440
  <2>1. Distance2(parts[2], parts[1]) <= neck * neck
    BY <1>2, <1>3, DistanceIs DEF NeckIsShort
  <2>2. /\ neck + ReachOf(m) <= 2 * move_step_distance
        /\ 2 * move_step_distance \in Nat /\ neck \in Nat
    BY <1>2 DEF move_step_distance
  <2> HIDE DEF neck
  <2> QED
    BY <1>2, <1>3, <2>1, <2>2, ByWayOf, Zenon
<1>5. intersect_circle(parts[2 - 1], q, BodyPartRadius(m) + BodyPartRadius(Len(parts)))
  BY <1>1, <1>2 DEF intersect_circle, ReachOf
<1> QED
  BY <1>1, <1>4, <1>5 DEF IntersectParts

\* A part next to the middle of a window is near it.
LEMMA MiddleIsNear ==
  ASSUME parts \in Seq(Positions), Spaced(parts), NEW i \in 1 .. Len(parts),
         NEW k \in 1 .. Len(parts), i \in k - 1 .. k + 1,
         NEW m \in Nat, NEW q \in Touching(i, m), ReachOf(m) <= 840
  PROVE  intersect_circle(parts[k], q, 1500)
<1>1. /\ parts[i] \in Positions /\ q \in Positions /\ ReachOf(m) \in Nat
      /\ Distance2(parts[i], q) <= ReachOf(m) * ReachOf(m)
  BY TouchingIs
<1>2. Len(parts) \in Nat /\ parts[k] \in Positions
  BY LenProperties, ElementOfSeq
<1>3. Distance2(parts[k], parts[i]) <= 645 * 645
  <2>1. i = k \/ i = k - 1 \/ k = i - 1
    BY <1>2
  <2>2. CASE i = k
    BY <1>2, <2>2, DistanceIs
  <2>3. CASE i = k - 1
    <3>1. k \in 2 .. Len(parts)
      BY <1>2, <2>3
    <3> QED
      BY <2>3, <3>1, StepIsShort
  <2>4. CASE k = i - 1
    <3>1. i \in 2 .. Len(parts)
      BY <1>2, <2>4
    <3>2. Distance2(parts[i], parts[k]) <= 645 * 645
      BY <2>4, <3>1, StepIsShort
    <3> QED
      BY <1>1, <1>2, <3>2, DistanceIs
  <2> QED
    BY <2>1, <2>2, <2>3, <2>4
<1> DEFINE step == 645
<1>4. /\ step + ReachOf(m) <= 1500 /\ step \in Nat /\ 1500 \in Nat
      /\ Distance2(parts[k], parts[i]) <= step * step
  BY <1>1, <1>3
<1> DEFINE reach == ReachOf(m)
           c == parts[k]
           p == parts[i]
<1>5. /\ c \in Positions /\ p \in Positions /\ q \in Positions /\ reach \in Nat
      /\ Distance2(c, p) <= step * step /\ Distance2(p, q) <= reach * reach
      /\ step + reach <= 1500
  BY <1>1, <1>2, <1>4
<1> HIDE DEF step, reach, c, p
<1>6. intersect_circle(c, q, 1500)
  BY <1>4, <1>5, ByWayOf
<1> QED
  BY <1>6 DEF c

\* Snake::Intersect misses no foe whose head touches a part, for every snake and
\* every foe whose radii the first check allows for: of a short snake wherever it
\* is touched, on time or not; of a long one next to the middles of the windows,
\* because the body stays together.
THEOREM TouchesAlwaysFound == BoxSpec => []TouchesAreFound
<1>1. BoxInv /\ SpacingInv => TouchesAreFound
  <2> SUFFICES ASSUME BoxInv, SpacingInv, NEW m \in Foes, NEW i \in 1 .. Len(parts),
                      Tested(i, m), NEW q \in Touching(i, m)
               PROVE  Intersect(q, BodyPartRadius(m))
    BY DEF TouchesAreFound
  <2> DEFINE len == Len(parts)
             r == BodyPartRadius(m)
  <2>1. parts \in Seq(Positions) /\ (parts = <<>> \/ len >= 3)
    BY DEF BoxInv, BoxTypeOK, Positions
  <2>2. len \in Nat /\ len >= 3 /\ parts # <<>>
    <3>1. len \in Nat /\ 1 <= len
      BY <2>1, LenProperties
    <3>2. parts # <<>>
      BY <3>1
    <3> QED
      BY <2>1, <3>1, <3>2
  <2>3. m \in Nat
    BY FoesAssumption
  <2>4. OnTime => Spaced(parts) /\ NeckIsShort(parts)
    BY <2>2 DEF SpacingInv
  <2>5. /\ ReachOf(m) <= 840
        /\ i = 1 => OnTime /\ ReachOf(m) <= 400
        /\ len <= 20 \/ (OnTime /\ \E k \in Middles : i \in k - 1 .. k + 1)
    BY DEF Tested, move_step_distance
  <2>6. tail_step = 12 /\ tail_step \div 2 = 6 /\ 5 * sector_size = 1500
    BY DEF tail_step, tail_step_distance, sector_size
  <2>7. CASE len <= 20
    <3>1. IntersectParts(q, r, 2, len)
      <4>1. CASE i = 1
        BY <2>1, <2>2, <2>3, <2>4, <2>5, <4>1, HeadIsFound
      <4>2. CASE i # 1
        <5>1. i \in 2 .. len /\ 2 <= i /\ i <= len /\ 2 \in Int /\ len \in Int
          BY <2>2, <4>2
        <5> QED
          BY <2>1, <2>3, <2>5, <5>1, PartIsFound
      <4> QED
        BY <4>1, <4>2
    <3>2. len <= 8 + tail_step
      BY <2>6, <2>7
    <3> HIDE DEF r
    <3>3. Intersect(q, r)
      BY <3>1, <3>2 DEF Intersect
    <3> QED
      BY <3>3 DEF r
  <2>8. CASE ~ (len <= 20)
    <3>1. PICK k \in Middles : i \in k - 1 .. k + 1
      BY <2>5, <2>8
    <3>2. Spaced(parts)
      BY <2>4, <2>5, <2>8
    <3>3. k = 4 \/ (k \in 14 .. len /\ (k - 14) % 12 = 0)
      BY <2>6 DEF Middles
    <3>4. k \in 1 .. len /\ i \in 2 .. len
      BY <2>2, <2>8, <3>1, <3>3
    <3>5. intersect_circle(parts[k], q, 1500)
      BY <2>1, <2>3, <2>5, <3>1, <3>2, <3>4, MiddleIsNear
    <3>6. ~ (len <= 8 + tail_step)
      BY <2>6, <2>8
    <3>7. CASE k = 4
      <4>1. i >= 2 /\ i <= 9 /\ 2 \in Int /\ 9 \in Int
        BY <3>1, <3>7
      <4>2. IntersectParts(q, r, 2, 9)
        BY <2>1, <2>3, <2>5, <3>4, <4>1, PartIsFound
      <4> HIDE DEF r
      <4>3. Intersect(q, r)
        BY <2>6, <3>5, <3>6, <3>7, <4>2 DEF Intersect
      <4> QED
        BY <4>3 DEF r
    <3>8. CASE k \in 14 .. len /\ (k - 14) % 12 = 0
      <4> DEFINE last == IF k + 6 - 1 > len THEN len ELSE k + 6 - 1
      <4>1. /\ k - 6 + 1 <= i /\ i <= last /\ k - 6 + 1 \in Int /\ last \in Int
        BY <2>2, <3>1, <3>4, <3>8
      <4>2. IntersectParts(q, r, k - 6 + 1, last)
        <5> HIDE DEF last
        <5> QED
          BY <2>1, <2>3, <2>5, <3>4, <4>1, PartIsFound
      <4> DEFINE half == tail_step \div 2
      <4>3. /\ k \in {j \in 8 + half .. len : (j - 8 - half) % tail_step = 0}
            /\ intersect_circle(parts[k], q, 5 * sector_size)
        BY <2>2, <2>6, <3>5, <3>8
      <4>4. IntersectParts(q, r, k - half + 1, IF k + half - 1 > len THEN len ELSE k + half - 1)
        BY <2>6, <4>2
      <4> HIDE DEF r
      <4>5. Intersect(q, r)
        BY <3>6, <4>3, <4>4, Zenon DEF Intersect
      <4> QED
        BY <4>5 DEF r
    <3> QED
      BY <3>3, <3>7, <3>8
  <2> QED
    BY <2>7, <2>8
<1> QED
  BY <1>1, BoxInvHolds, SpacingHolds, PTL
=============================================================================
