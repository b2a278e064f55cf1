------------------------------ MODULE ViewPort ------------------------------
(***************************************************************************)
(* What a player sees: class ViewPort (src/src/game/sector.cc), moved by   *)
(* Snake::Tick (src/src/game/snake.cc), and the sector packets that        *)
(* SendPOVUpdateTo (src/src/server/game.cc) sends to the player.           *)
(*                                                                         *)
(* on_timer is two steps: Tick collects the sectors that come into and     *)
(* leave the view, and the broadcast sends them or, when the snake has     *)
(* died, sends nothing.                                                    *)
(***************************************************************************)
EXTENDS SectorGrid

\* A definition followed by one that is the real operation is a faulty variant
\* of it that no specification uses.

CONSTANTS
  Reach,   \* the view spans so many sectors each way, 3 in the code
  Spawns,  \* the positions a snake may be created at
  Moves    \* the vectors a Tick may move the head by

ASSUME ReachAssumption == Reach \in Nat \ {0}
ASSUME PositionsAssumption == Spawns \subseteq Int \X Int /\ Moves \subseteq Int \X Int

VARIABLES
  head,         \* the head of the snake
  vp,           \* ViewPort x, y
  sectors,      \* ViewPort::sectors
  new_sectors,  \* ViewPort::new_sectors, without their order
  old_sectors,  \* ViewPort::old_sectors, without their order
  known,        \* external: the sectors the client keeps
  phase         \* "idle", "broadcast" or, for good, "dead"

vars == <<head, vp, sectors, new_sectors, old_sectors, known, phase>>

sector_diag_size == 425

\* Sector::Intersect with a view of radius Reach * sector_diag_size around p,
\* a sector having half of sector_diag_size.
InView(s, p) ==
  LET twice == (2 * Reach + 1) * sector_diag_size
  IN  4 * CentreDistance2(s, p, 1) <= twice * twice

View(v, p) == {s \in v : InView(s, p)}

\* Inside the border, one sector less than the map.  The code's disc of radius
\* death_radius is here the square around it: more positions, no fewer.
Arena == sector_size .. (Edge - 1) * sector_size
Inside(p) == p[1] \in Arena /\ p[2] \in Arena

Crossed(p, q) == Cell(p[1]) # Cell(q[1]) \/ Cell(p[2]) # Cell(q[2])

\* UpdateBoxNewSectors looks at the square of sectors when the head, now at p, has left
\* its sector; the view it intersects with is still the one around vp.
NewSectors(p) ==
  IF Crossed(p, head)
  THEN WithNew(sectors, p, Reach, View(Around(p, Reach), vp))
  ELSE sectors

\* CreateSnake puts the view around the head first, InitBoxNewSectors fills
\* it, and on_open sends it.
Init ==
  /\ head \in Spawns
  /\ vp = head
  /\ sectors = WithNew(<<>>, head, Reach, View(Around(head, Reach), vp))
  /\ new_sectors = {} /\ old_sectors = {}
  /\ known = Elements(sectors)
  /\ phase = "idle"

\* RegNewSectorIfMissing and RegOldSectorIfMissing: no sector twice, in an order
\* that makes no difference to the client.
Registered(list, found) == list \cup found

\* Snake::Tick: new sectors, then the view moves, then old sectors.
Tick(d) ==
  /\ phase = "idle"
  /\ phase' = "broadcast"
  /\ head' = <<head[1] + d[1], head[2] + d[2]>>
  /\ vp' = head'
  /\ \E grown \in {NewSectors(head')} :
       \E seen \in {View(Elements(grown), vp')}, had \in {Elements(sectors)} :
         /\ sectors' = Kept(grown, seen)
         /\ new_sectors' = Registered(new_sectors, Elements(grown) \ had)
         /\ old_sectors' = Registered(old_sectors, Elements(grown) \ seen)
  /\ UNCHANGED known

AfterNewOnly == known \cup new_sectors

\* What the client keeps after the packets of SendPOVUpdateTo.
AfterPOVUpdate == (known \cup new_sectors) \ old_sectors

SendPOVUpdateKeepsNew ==
  /\ phase = "broadcast" /\ Inside(head)
  /\ phase' = "idle"
  /\ known' = AfterPOVUpdate
  /\ old_sectors' = {}
  /\ UNCHANGED <<head, vp, sectors, new_sectors>>

SendPOVUpdate ==
  /\ phase = "broadcast" /\ Inside(head)
  /\ phase' = "idle"
  /\ known' = AfterPOVUpdate
  /\ new_sectors' = {} /\ old_sectors' = {}
  /\ UNCHANGED <<head, vp, sectors>>

\* The snake hits something, which at the border it always does.
Die ==
  /\ phase = "broadcast"
  /\ phase' = "dead"
  /\ UNCHANGED <<head, vp, sectors, new_sectors, old_sectors, known>>

Next == (\E d \in Moves : Tick(d)) \/ SendPOVUpdate \/ Die

Spec == Init /\ [][Next]_vars

-----------------------------------------------------------------------------
(* Properties *)

\* Types; the vector of sectors is sorted and has no sector twice, without
\* which IsPresent and Insert go wrong and a sector is sent twice.
TypeOK ==
  /\ head \in Int \X Int /\ vp = head
  /\ sectors \in Seq(GridSectors) /\ Sorted(sectors)
  /\ known \subseteq GridSectors
  /\ phase \in {"idle", "broadcast", "dead"}

\* Between handlers the client keeps exactly the sectors of the view.
ClientSeesView == phase = "idle" => known = Elements(sectors)

\* The packets about to be sent fit what the client has: it is never told to
\* add a sector it keeps, and never to remove one it does not.
DeltasAreExact ==
  phase = "broadcast" =>
    /\ new_sectors \cap known = {}
    /\ old_sectors \subseteq known \cup new_sectors

\* The view is around the head: all sectors up to Reach - 1 away from it are
\* kept, although the view that new sectors are chosen with lags one move
\* behind, and none that is out of view, whatever the order of removals was.
ViewIsAroundHead ==
  /\ Around(head, Reach - 1) \subseteq Elements(sectors)
  /\ \A s \in Elements(sectors) : InView(s, head)
=============================================================================
