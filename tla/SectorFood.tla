----------------------------- MODULE SectorFood -----------------------------
(***************************************************************************)
(* The food of the map: the x-sorted vector every Sector keeps             *)
(* (src/src/game/sector.cc), the snakes that eat it, drop it and turn into *)
(* it (src/src/game/snake.cc), and the food packets the clients get        *)
(* (SendFoodUpdate and SendPOVUpdateTo, src/src/server/game.cc).           *)
(*                                                                         *)
(* on_timer is split at its loop bodies, as in GameServer.  A position is  *)
(* <<x, y>> in pixels.  Where a Tick takes a head, where the end of a tail *)
(* lies, which parts a dying snake has and which sectors a client views    *)
(* are choices here: the geometry modules are about them.                  *)
(***************************************************************************)
EXTENDS SectorGrid, FiniteSets

\* A definition followed by one that is the real operation is a faulty variant
\* of it that no specification uses.

CONSTANTS
  Players,  \* the connections, one after another under the same name
  Bots,     \* the bots of the world
  Spots,    \* the positions things may be at
  Visible,  \* the sectors that enter and leave the clients' views
  MaxFood,  \* bound: foods on the map that natural food and drops add up to
  MaxDead   \* bound: foods on the map with the food of the dead

ASSUME SpotsAssumption ==
  Spots \subseteq (0 .. Edge * sector_size - 1) \X (0 .. Edge * sector_size - 1)
ASSUME VisibleAssumption == Visible \subseteq GridSectors
ASSUME SnakesAssumption == Players \cap Bots = {}

VARIABLES
  food,     \* Sector::food, sector -> sequence of Food
  alive,    \* the snakes that Tick
  joined,   \* the players with a session
  eaten,    \* Snake::eaten
  spawn,    \* Snake::spawn
  view,     \* ViewPort::sectors of a player
  came,     \* ViewPort::new_sectors
  left,     \* ViewPort::old_sectors
  phase,    \* "idle", "tick" or "send"
  todo,     \* snakes TickSnakes has still to visit
  changes,  \* World::changes
  dying,    \* snakes with change_dying but not change_dead
  drawn,    \* external: the foods a client draws
  twins     \* history: positions where two foods have lain at the same time,
            \* an eaten one until it is announced, and one still lies

worldVars  == <<food, alive, eaten, spawn, view, came, left>>
timerVars  == <<phase, todo, changes, dying>>
clientVars == <<joined, drawn>>
vars == <<worldVars, timerVars, clientVars, twins>>

Snakes == Players \cup Bots

-----------------------------------------------------------------------------
(* Food and the list of a sector *)

\* struct Food without its size and colour, which no property tells apart.
Foods == Spots

SectorOf(p) == get_index(Cell(p[1]), Cell(p[2]))

\* Sector::FindClosestFood: the number of foods left of x.
FindClosestFood(v, x) == LowerBound([i \in 1 .. Len(v) |-> v[i][1]], x)

InsertFoodAtEnd(v, f) == Append(v, f)
InsertFood(v, f) == InsertAt(v, FindClosestFood(v, f[1]) + 1, f)

\* One food after another.
InsertAll(v, fs) ==
  LET loop[k \in 0 .. Len(fs)] ==
        IF k = 0 THEN v ELSE InsertFood(loop[k - 1], fs[k])
  IN  loop[Len(fs)]

\* How often a food is in a list.
Times(v, f) == Cardinality({i \in 1 .. Len(v) : v[i] = f})

\* The foods of the map, and how many there are.
Lying == UNION {Elements(food[s]) : s \in GridSectors}
Count == FoldSet(LAMBDA s, n : n + Len(food[s]), 0, GridSectors)

\* The positions with more than one food.
Doubled(lists) ==
  {p \in Spots :
     \E c \in GridSectors :
       /\ p \in Elements(lists[c])
       /\ \/ Times(lists[c], p) > 1
          \/ \E d \in GridSectors \ {c} : p \in Elements(lists[d])}

-----------------------------------------------------------------------------
(* UpdateEatenFood *)

\* uint16_t of 14 + sbpr + move_step_distance, 70.5, for a snake of the least
\* width.
Reach == 70

InReach(f, h) ==
  LET dx == f[1] - h[1]
      dy == f[2] - h[2]
  IN  dx * dx + dy * dy <= Reach * Reach

\* A round of the loop to the left, at the food before position i, and of the
\* loop to the right, at the food behind it.
EatLeft(r, h) ==
  IF r.i > 0 /\ InReach(r.list[r.i], h)
  THEN [list |-> RemoveAt(r.list, r.i), i |-> r.i - 1, got |-> Append(r.got, r.list[r.i])]
  ELSE r

EatRight(r, h) ==
  IF r.i < Len(r.list) /\ InReach(r.list[r.i + 1], h)
  THEN [list |-> RemoveAt(r.list, r.i + 1), i |-> r.i,
        got |-> Append(r.got, r.list[r.i + 1])]
  ELSE r

\* The loops, which have at most as many rounds as the list has foods.
ToLeft(r, h) ==
  LET loop[k \in 0 .. Len(r.list)] == IF k = 0 THEN r ELSE EatLeft(loop[k - 1], h)
  IN  loop[Len(r.list)]

ToRight(r, h) ==
  LET loop[k \in 0 .. Len(r.list)] == IF k = 0 THEN r ELSE EatRight(loop[k - 1], h)
  IN  loop[Len(r.list)]

UpdateEatenFoodLosesPlace(v, h) ==
  LET i == FindClosestFood(v, h[1])
      l == ToLeft([list |-> v, i |-> i, got |-> <<>>], h)
  IN  ToRight([l EXCEPT !.i = i], h)

\* What is left of the list of the head's sector, and what was eaten.
UpdateEatenFood(v, h) ==
  ToRight(ToLeft([list |-> v, i |-> FindClosestFood(v, h[1]), got |-> <<>>], h), h)

-----------------------------------------------------------------------------
(* Packets, and what a client makes of them *)

\* A food has no id in the packets but its position: the client draws a set
\* of positions.  The packets of the foods in a vector, and of the sectors in a
\* set.
AfterEat(d, v)   == d \ Elements(v)
AfterSpawn(d, v) == d \cup Elements(v)
AfterSet(d, C)   == d \cup UNION {Elements(food[c]) : c \in C}
AfterRemove(d, C) == {f \in d : SectorOf(f) \notin C}

SendFoodUpdateSpawnFirst(d, s) == AfterEat(AfterSpawn(d, spawn[s]), eaten[s])

\* SendFoodUpdate: what snake s has eaten goes out before what it spawned.
SendFoodUpdate(d, s) == AfterSpawn(AfterEat(d, eaten[s]), spawn[s])

\* SendPOVUpdateTo: the sectors that came into view with their food, then the
\* ones that left it.
SendPOVUpdateTo(d, s) == AfterRemove(AfterSet(d, came[s]), left[s])

-----------------------------------------------------------------------------
(* The start *)

\* A boosting snake may drop a food at the end of its tail: SpawnFood finds
\* the sector in sbb.sectors or drops nothing.
Dropped == {<<>>} \cup {<<p>> : p \in Spots}

SpawnFood(lists, fs) ==
  IF fs = <<>> THEN lists
  ELSE [lists EXCEPT ![SectorOf(fs[1])] = InsertFood(@, fs[1])]

\* InitFood: natural food, one after another in the sector it lies in.
InitFood(fs) ==
  LET loop[k \in 0 .. Len(fs)] ==
        IF k = 0 THEN [c \in GridSectors |-> <<>>]
        ELSE SpawnFood(loop[k - 1], <<fs[k]>>)
  IN  loop[Len(fs)]

\* A world of food and bots.
Init ==
  /\ \E fs \in SeqOf(Spots, MaxFood) : food = InitFood(fs)
  /\ alive = Bots /\ joined = {}
  /\ eaten = [s \in Snakes |-> <<>>]
  /\ spawn = [s \in Snakes |-> <<>>]
  /\ view = [s \in Players |-> {}]
  /\ came = [s \in Players |-> {}]
  /\ left = [s \in Players |-> {}]
  /\ phase = "idle" /\ todo = {} /\ changes = <<>> /\ dying = {}
  /\ drawn = [s \in Players |-> {}]
  /\ twins = Doubled(food)

\* on_open: the new snake's view port, and the food of the sectors in it.
on_open(s) ==
  /\ phase = "idle" /\ s \notin joined
  /\ joined' = joined \cup {s} /\ alive' = alive \cup {s}
  /\ \E V \in SUBSET Visible :
       /\ view' = [view EXCEPT ![s] = V]
       /\ drawn' = [drawn EXCEPT ![s] = AfterSet({}, V)]
  /\ UNCHANGED <<food, eaten, spawn, came, left, timerVars, twins>>

\* on_close: the Snake goes, and whatever it has not sent goes with it.
on_close(s) ==
  /\ phase = "idle" /\ s \in joined
  /\ joined' = joined \ {s} /\ alive' = alive \ {s}
  /\ view' = [view EXCEPT ![s] = {}]
  /\ came' = [came EXCEPT ![s] = {}]
  /\ left' = [left EXCEPT ![s] = {}]
  /\ drawn' = [drawn EXCEPT ![s] = {}]
  /\ UNCHANGED <<food, eaten, spawn, timerVars, twins>>

on_timer ==
  /\ phase = "idle"
  /\ phase' = "tick" /\ todo' = alive
  /\ UNCHANGED <<worldVars, changes, dying, clientVars, twins>>

\* A Tick in which the snake does not move.
Rest(s) ==
  /\ phase = "tick" /\ s \in todo
  /\ todo' = todo \ {s}
  /\ UNCHANGED <<worldVars, phase, changes, dying, clientVars, twins>>

\* A Tick with a move: the view port follows the head, the head eats, and the
\* boost is paid for.
Move(s, h) ==
  /\ phase = "tick" /\ s \in todo
  /\ todo' = todo \ {s}
  /\ changes' = Append(changes, s)
  /\ \E V \in SUBSET Visible :
       IF s \in Players
       THEN /\ view' = [view EXCEPT ![s] = V]
            /\ came' = [came EXCEPT ![s] = @ \cup (V \ view[s])]
            /\ left' = [left EXCEPT ![s] = @ \cup (view[s] \ V)]
       ELSE V = {} /\ UNCHANGED <<view, came, left>>
  /\ \E fs \in Dropped :
       LET c == SectorOf(h)
           r == UpdateEatenFood(food[c], h)
       IN  /\ fs # <<>> => Count - Len(r.got) < MaxFood
           /\ food' = SpawnFood([food EXCEPT ![c] = r.list], fs)
           /\ eaten' = [eaten EXCEPT ![s] = @ \o r.got]
           /\ spawn' = [spawn EXCEPT ![s] = @ \o fs]
  /\ twins' = (twins \cup Doubled(food')) \cap Lying'
  /\ UNCHANGED <<alive, phase, dying, clientVars>>

\* CheckSnakeBounds for the snakes that have moved: any of them may die.
CheckSnakeBounds ==
  /\ phase = "tick" /\ todo = {}
  /\ dying' \in SUBSET Elements(changes)
  /\ phase' = "send"
  /\ UNCHANGED <<worldVars, todo, changes, clientVars, twins>>

\* `count' of on_dead_food_spawn for a snake of the least width: sc is 1.
DeadCount == 2

\* Where a food of a part at p may fall: p plus r minus a part of 3 * r each
\* way, r = 14.5.
Scatter(p) ==
  {q \in Spots : q[1] - p[1] \in -29 .. 14 /\ q[2] - p[2] \in -29 .. 14}

Inner(c) == /\ SectorX(c) > 0 /\ SectorX(c) < Edge - 1
            /\ SectorY(c) > 0 /\ SectorY(c) < Edge - 1

\* BroadcastUpdates has come to a dying snake.
Dies(s) == phase = "send" /\ changes # <<>> /\ s = Head(changes) /\ s \in dying

\* A round of the loop over the parts in on_dead_food_spawn, at a part at p
\* whose sector is not at the edge (a part at the edge leaves nothing).  All the
\* food of a part goes into the list of the part's sector, wherever it falls.
on_dead_food_spawn(s, p) ==
  /\ Dies(s) /\ Inner(SectorOf(p)) /\ Count + DeadCount <= MaxDead
  /\ \E fs \in [1 .. DeadCount -> Scatter(p)] :
       /\ food' = [food EXCEPT ![SectorOf(p)] = InsertAll(@, fs)]
       /\ spawn' = [spawn EXCEPT ![s] = @ \o fs]
       /\ twins' = twins \cup Doubled(food') \cup
                      {f \in Elements(fs) : \E t \in Snakes \ {s} :
                                              f \in Elements(eaten[t])}
  /\ UNCHANGED <<alive, eaten, view, came, left, timerVars, clientVars>>

DeathSentWithoutEaten(s) ==
  [k \in Players |-> IF k \in joined THEN AfterSpawn(drawn[k], spawn[s]) ELSE drawn[k]]

\* What the clients draw after SendFoodUpdate of a dying snake s.
DeathSent(s) ==
  [k \in Players |-> IF k \in joined THEN SendFoodUpdate(drawn[k], s) ELSE drawn[k]]

\* change_dead, and a bot leaves the world.
MarkDead(s) == alive' = alive \ {s} /\ dying' = dying \ {s}

\* BroadcastUpdates for a dying snake, after the last of its parts.  Its client
\* does not get its view update.
BroadcastDeath(s) ==
  /\ Dies(s)
  /\ drawn' = DeathSent(s)
  /\ eaten' = [eaten EXCEPT ![s] = <<>>]
  /\ spawn' = [spawn EXCEPT ![s] = <<>>]
  /\ MarkDead(s)
  /\ changes' = Tail(changes)
  /\ UNCHANGED <<food, view, came, left, phase, todo, joined, twins>>

\* BroadcastUpdates for a snake that has moved.
BroadcastMove(s) ==
  /\ phase = "send" /\ changes # <<>> /\ s = Head(changes) /\ s \notin dying
  /\ drawn' = [k \in Players |->
                 LET d == SendFoodUpdate(drawn[k], s)
                 IN  IF k \notin joined THEN drawn[k]
                     ELSE IF k = s THEN SendPOVUpdateTo(d, s) ELSE d]
  /\ eaten' = [eaten EXCEPT ![s] = <<>>]
  /\ spawn' = [spawn EXCEPT ![s] = <<>>]
  /\ IF s \in Players
     THEN /\ came' = [came EXCEPT ![s] = {}]
          /\ left' = [left EXCEPT ![s] = {}]
     ELSE UNCHANGED <<came, left>>
  /\ changes' = Tail(changes)
  /\ UNCHANGED <<food, alive, view, phase, todo, dying, joined, twins>>

BroadcastDone ==
  /\ phase = "send" /\ changes = <<>>
  /\ phase' = "idle"
  /\ UNCHANGED <<worldVars, todo, changes, dying, clientVars, twins>>

Next ==
  \/ on_timer \/ CheckSnakeBounds \/ BroadcastDone
  \/ \E s \in Players : on_open(s) \/ on_close(s)
  \/ \E s \in Snakes : \/ Rest(s)
                       \/ \E h \in Spots : Move(s, h) \/ on_dead_food_spawn(s, h)
                       \/ BroadcastDeath(s) \/ BroadcastMove(s)

Spec == Init /\ [][Next]_vars

-----------------------------------------------------------------------------
(* Properties *)

\* What lower_bound needs in Insert and FindClosestFood: every list is in the
\* order of x, through every insertion and every scan that takes food out.
FoodSorted ==
  \A c \in GridSectors : \A i \in 1 .. Len(food[c]) - 1 :
    food[c][i][1] <= food[c][i + 1][1]

\* Types; every sector's list is sorted; the snakes that die in a tick are among
\* those that moved in it.
TypeOK ==
  /\ food \in [GridSectors -> Seq(Foods)] /\ FoodSorted
  /\ alive \subseteq Snakes /\ joined \subseteq Players
  /\ eaten \in [Snakes -> Seq(Foods)] /\ spawn \in [Snakes -> Seq(Foods)]
  /\ view \in [Players -> SUBSET Visible]
  /\ came \in [Players -> SUBSET Visible]
  /\ left \in [Players -> SUBSET Visible]
  /\ phase \in {"idle", "tick", "send"}
  /\ todo \subseteq Snakes /\ changes \in Seq(Snakes)
  /\ dying \subseteq Elements(changes)
  /\ drawn \in [Players -> SUBSET Foods] /\ twins \subseteq Spots

\* UpdateEatenFood, for every list that comes about and every head: it takes
\* food within reach and nothing else, takes none twice and loses none, and
\* stops on either side only at a food out of reach.  The bookkeeping of its
\* two loops, which share a position in a vector that shrinks, is right.
ScanIsExact ==
  \A c \in {SectorOf(p) : p \in Spots}, h \in Spots :
    LET r == UpdateEatenFood(food[c], h)
        i == Cardinality({j \in 1 .. Len(r.list) : r.list[j][1] < h[1]})
    IN  /\ \A j \in 1 .. Len(r.got) : InReach(r.got[j], h)
        /\ i > 0 => ~InReach(r.list[i], h)
        /\ i < Len(r.list) => ~InReach(r.list[i + 1], h)
        /\ \A f \in Elements(food[c]) :
             Times(food[c], f) = Times(r.list, f) + Times(r.got, f)

\* Between handlers a client draws no food that is not on the map: whatever a
\* snake has eaten has been announced, also by a snake that died in the same
\* tick and in whatever order the snakes of the tick ate, dropped and died.
NoGhostFood ==
  phase = "idle" => \A k \in joined : drawn[k] \subseteq Lying

\* Between handlers the client of a live snake draws the food of the sectors
\* in its view.  Food that has shared its position, which is its only id, with
\* another one may be missing, and so may food in the list of a sector it does
\* not lie in.
ViewedFoodDrawn ==
  phase = "idle" =>
    \A k \in joined \cap alive : \A c \in view[k] :
      {f \in Elements(food[c]) : SectorOf(f) = c} \ twins \subseteq drawn[k]
=============================================================================
