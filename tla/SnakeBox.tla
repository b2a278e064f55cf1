------------------------------ MODULE SnakeBox ------------------------------
(***************************************************************************)
(* Where a snake is and where it can be hit: the body that Snake::Tick     *)
(* drags behind the head and Snake::Intersect tests (src/src/game/snake.cc)*)
(* the box and sectors of SnakeBoundBox (src/src/game/sector.cc), and the  *)
(* sectors in which World::CheckSnakeBounds (src/src/game/world.cc) looks. *)
(*                                                                         *)
(* Positions are in tenths of a pixel and angles in eighths of a turn; the *)
(* code's floats are rounded to that.  Parts are numbered from 1, the head.*)
(***************************************************************************)
EXTENDS SectorGrid, FiniteSets

\* A definition followed by one that is the real operation is a faulty variant
\* of it that no specification uses.

CONSTANTS
  Lives,  \* the snakes there may be: length, position and angle at creation,
          \* the movement frames one Tick may cover, the turns it may make and
          \* the parts it may gain in one, and the bound on its Ticks
  Foes    \* how many parts a snake may have that runs into it

\* CreateSnake makes at least three parts.  A Tick may eat enough to gain any
\* number of parts, and boosting costs at most one.
ASSUME LivesAssumption ==
  \A l \in Lives :
    /\ l.length \in Nat /\ l.length >= 3 /\ l.head \in Int \X Int /\ l.angle \in 0 .. 7
    /\ l.frames \subseteq Nat /\ l.turns \subseteq Int
    /\ l.gains \subseteq Nat \cup {-1} /\ l.ticks \in Nat
ASSUME FoesAssumption == Foes \subseteq Nat \ 0 .. 2

VARIABLES
  life,     \* the snake's member of Lives
  parts,    \* Snake::parts, empty when there is no snake
  angle,    \* Snake::angle
  sbb,      \* SnakeBoundBox::sectors
  boxes,    \* sector -> how often its list Sector::snakes holds this box
  ticks     \* how often the snake has moved

boxVars == <<life, parts, angle, sbb, boxes, ticks>>

-----------------------------------------------------------------------------
(* Geometry *)

move_step_distance == 420
tail_step_distance == 240
parts_skip_count == 3
parts_start_move_count == 4
tail_step == (10 * sector_size) \div tail_step_distance

\* The vector of length d at an angle; 707 / 1000 stands for the cosine of 45
\* degrees.
Vector(a, d) ==
  LET diagonal == (d * 707) \div 1000
      cosine == <<d, diagonal, 0, -diagonal, -d, -diagonal, 0, diagonal>>
  IN  <<cosine[(a % 8) + 1], cosine[((a + 6) % 8) + 1]>>

Plus(p, v) == <<p[1] + v[1], p[2] + v[2]>>

Distance2(p, q) == (p[1] - q[1]) * (p[1] - q[1]) + (p[2] - q[2]) * (p[2] - q[2])

\* Math::intersect_circle
intersect_circle(c, p, r) == Distance2(c, p) <= r * r

\* The point k hundredths of a quarter of the way from p to last: Body::From
\* and Body::Offset.
Offset(p, last, k) ==
  <<p[1] + (k * (last[1] - p[1])) \div 400, p[2] + (k * (last[2] - p[2])) \div 400>>

\* The parts after the head has moved: the first ones take the place of the one
\* before, the others are pulled towards it on top, the tail by snake_tail_k.
Moved(b, head) ==
  LET moved[i \in 1 .. Len(b)] ==
        IF i = 1 THEN head
        ELSE IF i <= parts_skip_count THEN b[i - 1]
        ELSE LET j == i - parts_skip_count
             IN  Offset(b[i - 1], moved[i - 1],
                        43 * IF j < parts_start_move_count THEN j
                             ELSE parts_start_move_count)
  IN  moved

\* CreateSnake: a line of parts behind the head, in whole pixels.
Whole(p) == <<10 * (p[1] \div 10), 10 * (p[2] \div 10)>>
Line(n, head, a) ==
  LET line[i \in 1 .. n] ==
        IF i = 1 THEN head
        ELSE Whole(Plus(line[i - 1],
               Vector(a + 4, IF i - 1 <= parts_skip_count + parts_start_move_count
                             THEN move_step_distance ELSE tail_step_distance)))
  IN  line

-----------------------------------------------------------------------------
(* Sectors *)

\* The sector a position lies in, and whether a move leaves it.
Pixel(p) == <<p[1] \div 10, p[2] \div 10>>
PartCrossedRow(p, q) == p[2] \div (10 * sector_size) # q[2] \div (10 * sector_size)
PartCrossed(p, q) ==
  \/ p[1] \div (10 * sector_size) # q[1] \div (10 * sector_size)
  \/ p[2] \div (10 * sector_size) # q[2] \div (10 * sector_size)

\* Sector::Intersect with a circle: half of sector_diag_size is 212.5.
Intersects(s, p, r) == CentreDistance2(s, p, 10) <= (r + 2125) * (r + 2125)

\* UpdateBoxNewSectors: the sectors after a part has come to p from q.
UpdateBoxNewSectors(v, p, q) ==
  IF PartCrossed(p, q)
  THEN WithNew(v, Pixel(p), 1, {s \in Around(Pixel(p), 1) : Intersects(s, p, 1500)})
  ELSE v

\* InitBoxNewSectors: the head, the fourth part and every tail_step-th after it.
InitBoxNewSectors(b) ==
  LET new[i \in 1 .. Len(b)] ==
        IF i = 1 THEN UpdateBoxNewSectors(<<>>, b[1], <<0, 0>>)
        ELSE IF i >= 4 /\ (i - 4) % tail_step = 0
             THEN UpdateBoxNewSectors(new[i - 1], b[i], <<0, 0>>)
             ELSE new[i - 1]
  IN  new[Len(b)]

\* The calls of UpdateBoxNewSectors in a Tick: the head, and every part of the
\* tail, for the condition on tail_step always holds.
TickNewSectors(b, old) ==
  LET new[i \in 1 .. Len(b)] ==
        IF i = 1 THEN UpdateBoxNewSectors(sbb, b[1], old[1])
        ELSE IF i > parts_skip_count + parts_start_move_count
             THEN UpdateBoxNewSectors(new[i - 1], b[i], old[i])
             ELSE new[i - 1]
  IN  new[Len(b)]

\* UpdateBoxCenter and its copy in Tick: the mean of the parts.
Centre(b) ==
  LET sum == FoldLeft(Plus, <<0, 0>>, b)
  IN  <<sum[1] \div Len(b), sum[2] \div Len(b)>>

\* UpdateBoxRadius
BoxRadius(n) ==
  (2629 + (IF n > 8 THEN tail_step_distance * (n - 8) ELSE 0) + move_step_distance) \div 2

Count(v, s) == Cardinality({i \in 1 .. Len(v) : v[i] = s})

\* InsertSortedWithReg pushes the box to the list of every sector that comes in,
\* and Sector::RemoveSnake takes it out wherever the sector has left.
ReregisteredKeepsLeft(grown, kept) ==
  [s \in GridSectors |-> boxes[s] + Count(grown, s) - Count(sbb, s)]

Reregistered(grown, kept) ==
  [s \in GridSectors |->
     IF s \in Elements(grown) \ Elements(kept) THEN 0
     ELSE boxes[s] + Count(grown, s) - Count(sbb, s)]

-----------------------------------------------------------------------------
(* Actions *)

\* Inside the border, where a snake stays alive: the square around the code's
\* disc of radius death_radius.
InsideBorder(p) == \A k \in 1 .. 2 : p[k] \in 10 * sector_size .. 10 * (Edge - 1) * sector_size

NoSnake ==
  /\ parts = <<>>
  /\ sbb = <<>>
  /\ boxes = [s \in GridSectors |-> 0]
  /\ angle = 0
  /\ ticks = 0

BoxInit == life \in Lives /\ NoSnake

\* World::CreateSnake
CreateSnake ==
  /\ parts = <<>>
  /\ parts' = Line(life.length, life.head, life.angle)
  /\ angle' = life.angle
  /\ sbb' = InitBoxNewSectors(parts')
  /\ boxes' = Reregistered(sbb', sbb')
  /\ UNCHANGED <<life, ticks>>

\* What eating and boosting do to the parts together: IncreaseSnake repeats the last,
\* DecreaseSnake drops it if there are more than three.
Grown(b, gain) ==
  IF gain = -1 /\ Len(b) > 3 THEN Front(b) ELSE b \o [i \in 1 .. gain |-> Last(b)]

\* The movement in Snake::Tick, of a snake that is not dying, over the given
\* number of frames: it has turned by up to three steps of 22 degrees a frame,
\* here by up to 90, the parts follow, sectors come in around the head and the
\* tail, those away from the box leave, and only then does the length change.
SnakeTick(frames, turn, gain) ==
  /\ parts # <<>> /\ InsideBorder(parts[1])
  /\ ticks < life.ticks
  /\ ticks' = ticks + 1
  /\ angle' = (angle + turn) % 8
  /\ \E b \in {Moved(parts, Plus(parts[1], Vector(angle', frames * move_step_distance)))} :
       \E grown \in {TickNewSectors(b, parts)}, centre \in {Centre(b)} :
         \E kept \in {Kept(grown, {s \in Elements(grown) :
                                     Intersects(s, centre, BoxRadius(Len(b)))})} :
           /\ parts' = Grown(b, gain)
           /\ sbb' = kept
           /\ boxes' = Reregistered(grown, kept)
  /\ UNCHANGED life

\* World::RemoveSnake: out of the list of every sector of the box, and gone.
RemoveSnake ==
  /\ parts # <<>>
  /\ parts' = <<>> /\ sbb' = <<>> /\ angle' = 0 /\ ticks' = 0
  /\ boxes' = [s \in GridSectors |-> IF s \in Elements(sbb) THEN 0 ELSE boxes[s]]
  /\ UNCHANGED life

BoxNext ==
  \/ CreateSnake
  \/ \E frames \in life.frames, gain \in life.gains :
       \E turn \in life.turns \cap (-2 * frames .. 2 * frames) : SnakeTick(frames, turn, gain)
  \/ RemoveSnake

BoxSpec == BoxInit /\ [][BoxNext]_boxVars

-----------------------------------------------------------------------------
(* Being hit *)

\* Snake::get_snake_body_part_radius of a snake of n parts: sbpr.
BodyPartRadius(n) ==
  LET sc == 106 + n - 3 IN (145 * IF sc < 6 * 106 THEN sc ELSE 6 * 106) \div 106

\* CheckSnakeBounds of a foe whose head is at q looks into these sectors: 3 x 3,
\* within move_step_distance.
Looked(q) == {s \in Around(Pixel(q), 1) : Intersects(s, q, move_step_distance)}

\* Snake::Intersect with a foe's head at q, of the parts from first to last.
IntersectParts(q, r, first, last) ==
  \E i \in first .. last :
    /\ intersect_circle(parts[i], q, 2 * move_step_distance)
    /\ \E p \in {parts[i], parts[i - 1], Offset(parts[i], parts[i - 1], 200)} :
         intersect_circle(p, q, r + BodyPartRadius(Len(parts)))

\* Snake::Intersect: all parts of a short snake; of a longer one the windows
\* whose middle is near, around the fourth part and every tail_step-th part of
\* the tail.
IntersectSkipsNeck(q, r) == IntersectParts(q, r, 3, Len(parts))

Intersect(q, r) ==
  LET len == Len(parts)
      head_size == 8
      half == tail_step \div 2
      Near(i) == intersect_circle(parts[i], q, 5 * sector_size)
  IN  IF len <= head_size + tail_step
      THEN IntersectParts(q, r, 2, len)
      ELSE \/ Near(4) /\ IntersectParts(q, r, 2, 9)
           \/ \E i \in {k \in 8 + half .. len : (k - 8 - half) % tail_step = 0} :
                /\ Near(i)
                /\ IntersectParts(q, r, i - half + 1,
                                  IF i + half - 1 > len THEN len ELSE i + half - 1)

-----------------------------------------------------------------------------
(* Being drawn *)

\* packet_add_snake: the last part in fifths of a pixel, and from there to the
\* second part the step from the one behind, in half pixels around 127.
StepByteUncentred(p, q, k) == (p[k] - q[k]) \div 5
StepByte(p, q, k) == (p[k] - q[k]) \div 5 + 127

\* Where a client that adds up the steps draws the parts: coordinate k of the
\* part that is i - 1 parts before the last.
Drawn(k) ==
  LET n == Len(parts)
      drawn[i \in 1 .. n] ==
        IF i = 1 THEN 2 * (parts[n][k] \div 2)
        ELSE drawn[i - 1] + 5 * (StepByte(parts[n + 1 - i], parts[n + 2 - i], k) - 127)
  IN  drawn

-----------------------------------------------------------------------------
(* Properties *)

\* The positions of a foe's head that touches part i, for a foe of m parts.
ReachOf(m) == BodyPartRadius(m) + BodyPartRadius(Len(parts))
Touching(i, m) ==
  {parts[i]} \cup {Plus(parts[i], Vector(a, ReachOf(m))) : a \in 0 .. 7}

\* A snake that is ticked for one movement frame at a time.
OnTime == life.frames = {1}

\* Types; the vector of sectors is sorted and has no sector twice, without
\* which IsPresent misses a sector and registers the box a second time.
BoxTypeOK ==
  /\ life \in Lives
  /\ parts \in Seq(Int \X Int) /\ (parts = <<>> \/ Len(parts) >= 3)
  /\ angle \in 0 .. 7 /\ ticks \in 0 .. life.ticks
  /\ sbb \in Seq(GridSectors) /\ Sorted(sbb)
  /\ boxes \in [GridSectors -> Nat]

\* The two directions agree: a sector's list holds the box exactly once if the
\* sector is in the box's vector, and not at all otherwise, and so nowhere once
\* the snake is removed.  RemoveSnake walks the box's vector only, and would
\* leave a dangling pointer anywhere else.
ListsAgree ==
  \A s \in GridSectors : boxes[s] = IF s \in Elements(sbb) THEN 1 ELSE 0

\* A foe of three parts whose head touches part i looks into a sector in which
\* the snake is registered.
Seen(i) == \A q \in Touching(i, 3) : Looked(q) \cap Elements(sbb) # {}

\* No hit on a snake that was created with up to nine parts and is ticked on
\* time is missed by sector, although sectors come in only when the head or a
\* part of the tail enters a new one and leave by a test on the mean of the
\* parts.
HitsAreSeen ==
  OnTime /\ life.length <= 9 /\ Len(parts) <= 100 => \A i \in 1 .. Len(parts) : Seen(i)

\* The parts in whose neighbourhood Intersect tests a snake of more than 20.
Middles == {4} \cup {k \in 14 .. Len(parts) : (k - 14) % tail_step = 0}

\* Whether part i is tested in earnest for a foe of m parts.  This leaves out
\* what Intersect is known to miss: every touch of two snakes so thick that they
\* reach further than the first check of two steps; the head, which is tested
\* only together with the part behind it, for a thick foe or when a late Tick has
\* pulled the two apart; and of a snake of more than twenty parts whatever is not
\* next to the middle of a window, the seams between the windows and the end of
\* the tail behind the last among it.
Tested(i, m) ==
  /\ ReachOf(m) <= 2 * move_step_distance
  /\ i = 1 => OnTime /\ ReachOf(m) <= 400
  /\ \/ Len(parts) <= 20
     \/ OnTime /\ \E k \in Middles : i \in k - 1 .. k + 1

\* No hit is missed on the parts that Tested names: Snake::Intersect finds a foe
\* whose head touches one, although it starts at the second part, asks first
\* whether a part is within two steps, and of a longer snake tests windows.  On
\* the other parts, which Tested lists, hits are missed, and this says nothing.
TouchesAreFound ==
  \A m \in Foes : \A i \in 1 .. Len(parts) :
    Tested(i, m) => \A q \in Touching(i, m) : Intersect(q, BodyPartRadius(m))

\* A client to which a snake that is ticked on time is introduced draws it where
\* it is: no step leaves its byte, whatever turns the body has followed, and the
\* half pixels that are cut off at every step add up to no more than that.
BodyIsDrawn ==
  OnTime /\ parts # <<>> =>
    LET n == Len(parts)
    IN  \A k \in 1 .. 2 :
          /\ \A i \in 2 .. n - 1 : StepByte(parts[i], parts[i + 1], k) \in 0 .. 255
          /\ \A i \in 2 .. n : parts[i][k] - Drawn(k)[n + 1 - i] \in 0 .. 4 * (n - i) + 1
=============================================================================
