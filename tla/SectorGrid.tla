----------------------------- MODULE SectorGrid -----------------------------
(***************************************************************************)
(* The square of sectors the map is cut into (SectorSeq, Sector) and the   *)
(* sorted vector of sectors a box keeps (BoundBox), src/src/game/sector.cc.*)
(*                                                                         *)
(* A Sector pointer is the index of the sector in SectorSeq: the sectors   *)
(* lie in one vector, so pointers compare like indices.  Positions are in  *)
(* pixels.                                                                 *)
(***************************************************************************)
EXTENDS Integers, Sequences, SequencesExt

CONSTANT Edge  \* sector_count_along_edge, 144 in the code

ASSUME EdgeAssumption == Edge \in Nat \ {0}

sector_size == 300

GridSectors == 0 .. Edge * Edge - 1

\* SectorSeq::get_index, and the coordinates InitSectors gives a sector.
get_index(x, y) == y * Edge + x
SectorX(s) == s % Edge
SectorY(s) == s \div Edge

\* The coordinate of the sector a coordinate lies in.
Cell(v) == v \div sector_size

\* The sectors of the grid at most n columns and rows away from a position.
Around(p, n) ==
  {get_index(i, j) : i \in (Cell(p[1]) - n .. Cell(p[1]) + n) \cap (0 .. Edge - 1),
                     j \in (Cell(p[2]) - n .. Cell(p[2]) + n) \cap (0 .. Edge - 1)}

\* The square of the distance of p / k from the centre of a sector, times k^2.
CentreDistance2(s, p, k) ==
  LET dx == p[1] - k * (SectorX(s) * sector_size + sector_size \div 2)
      dy == p[2] - k * (SectorY(s) * sector_size + sector_size \div 2)
  IN  dx * dx + dy * dy

-----------------------------------------------------------------------------
(* BoundBox *)

\* A round of std::lower_bound: r is the part of v that is still to be searched
\* for the first element that is not less than s.
Halved(v, s, r) ==
  LET half == r.len \div 2
  IN  IF r.len = 0 THEN r
      ELSE IF v[r.first + half + 1] < s
           THEN [first |-> r.first + half + 1, len |-> r.len - half - 1]
           ELSE [first |-> r.first, len |-> half]

\* std::lower_bound, the number of elements before that one.  There are at most
\* as many rounds as elements.
LowerBound(v, s) ==
  LET search[k \in 0 .. Len(v)] ==
        IF k = 0 THEN [first |-> 0, len |-> Len(v)]
        ELSE Halved(v, s, search[k - 1])
  IN  search[Len(v)].first

Insert(v, s) == InsertAt(v, LowerBound(v, s) + 1, s)

\* std::binary_search
IsPresent(v, s) ==
  LET i == LowerBound(v, s) IN i < Len(v) /\ v[i + 1] = s

RemoveUnsorted(v, i) ==
  IF i < Len(v) THEN [Front(v) EXCEPT ![i] = Last(v)] ELSE Front(v)

SweepStepSkipsMoved(r, near) ==
  IF r.i > Len(r.list) THEN r
  ELSE IF r.list[r.i] \in near THEN [list |-> r.list, i |-> r.i + 1]
  ELSE [list |-> RemoveUnsorted(r.list, r.i), i |-> r.i + 1]

\* A round of the loop of UpdateBoxOldSectors, at position i: a sector that is
\* not in near is taken out, and the element that takes its place is looked at
\* next.
SweepStep(r, near) ==
  IF r.i > Len(r.list) THEN r
  ELSE IF r.list[r.i] \in near THEN [list |-> r.list, i |-> r.i + 1]
  ELSE [list |-> RemoveUnsorted(r.list, r.i), i |-> r.i]

\* The loop has a round for every element.
Sweep(v, near) ==
  LET loop[k \in 0 .. Len(v)] ==
        IF k = 0 THEN [list |-> v, i |-> 1] ELSE SweepStep(loop[k - 1], near)
  IN  loop[Len(v)].list

\* BoundBox::Sort: the elements differ, so there is one result, whatever the
\* algorithm of std::sort is.
Sort(v) ==
  LET loop[k \in 0 .. Len(v)] ==
        IF k = 0 THEN <<>> ELSE Insert(loop[k - 1], v[k])
  IN  loop[Len(v)]

KeptUnsorted(v, near) == Sweep(v, near)

\* UpdateBoxOldSectors: the sectors that stay, sorted again if any has left.
Kept(v, near) ==
  LET w == Sweep(v, near)
  IN  IF Len(w) # Len(v) THEN Sort(w) ELSE w

\* A round of the loops of UpdateBoxNewSectors: its column and its row, and the
\* sector there, which comes in if it is in near and IsPresent does not find it.
Column(p, n, k) == Cell(p[1]) - n + ((k - 1) % (2 * n + 1))
Row(p, n, k) == Cell(p[2]) - n + ((k - 1) \div (2 * n + 1))

NewRound(w, p, n, near, k) ==
  LET s == get_index(Column(p, n, k), Row(p, n, k))
  IN  IF /\ Column(p, n, k) \in 0 .. Edge - 1 /\ Row(p, n, k) \in 0 .. Edge - 1
         /\ s \in near /\ ~IsPresent(w, s)
      THEN Insert(w, s) ELSE w

\* The loops over the square of n sectors each way around p.
WithNew(v, p, n, near) ==
  LET rounds == (2 * n + 1) * (2 * n + 1)
      loop[k \in 0 .. rounds] ==
        IF k = 0 THEN v ELSE NewRound(loop[k - 1], p, n, near, k)
  IN  loop[rounds]

\* What binary_search needs: every sector once, in order.
Sorted(v) == \A i \in 1 .. Len(v) - 1 : v[i] < v[i + 1]

Elements(v) == {v[i] : i \in 1 .. Len(v)}
=============================================================================
