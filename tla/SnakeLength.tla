---------------------------- MODULE SnakeLength -----------------------------
(***************************************************************************)
(* How one snake grows and shrinks, and what the clients know about it:    *)
(* the second half of Snake::Tick with IncreaseSnake and DecreaseSnake     *)
(* (src/src/game/snake.cc) and the length and fullness packets of          *)
(* BroadcastUpdates (src/src/server/game.cc), for the snake of a player.   *)
(*                                                                         *)
(* on_timer is split at its loops, as in GameServer: a Tick that moves the *)
(* snake enters "eat" (the loops of UpdateEatenFood), then the boost is    *)
(* paid for and the result is broadcast.  No other handler runs until      *)
(* `phase' is "idle" again.  A Tick that does not reach the next movement  *)
(* frame changes nothing here and is left out.                             *)
(***************************************************************************)
EXTENDS Integers, Maps

\* A definition followed by one that is the real operation (IncreaseSnake after
\* IncreaseOffByOne, ...) is a faulty variant of it that no specification uses.

CONSTANTS
  Clients,    \* the connections that may watch the snake
  Owner,      \* the one whose snake it is
  FoodSizes,  \* sizes of Food
  MaxLen,     \* bound on the parts the snake starts with
  MaxFood     \* bound on the food of each size there is at the start

\* Food::size is at most 100: 1 .. 10 (InitFood), 100 / count
\* (on_dead_food_spawn) or 100 (DecreaseSnake).
ASSUME FoodAssumption == FoodSizes \subseteq 1 .. 100 /\ 100 \in FoodSizes
ASSUME OwnerAssumption == Owner \in Clients
ASSUME BoundsAssumption == MaxLen \in Nat /\ MaxFood \in Nat

VARIABLES
  parts,             \* Snake::parts.size()
  fullness,          \* Snake::fullness
  acceleration,      \* Snake::acceleration
  changeFullness,    \* the bit change_fullness of Snake::update
  alive,             \* neither change_dying nor change_dead
  food,              \* size -> number of foods the snake may still meet
  clientPartsIndex,  \* Snake::clientPartsIndex
  drawn,             \* external: client -> number of parts it draws
  ownerFam,          \* external: the fullness the owner's client shows
  phase              \* where the thread is: "idle" or a part of on_timer

bodyVars == <<parts, fullness, acceleration, changeFullness, alive, food>>
clientVars == <<clientPartsIndex, drawn, ownerFam>>
vars == <<bodyVars, clientVars, phase>>

MinParts == 3
BoostCost == 33
DroppedSize == 100

\* What the snake weighs: a part is worth 100.
Mass == 100 * parts + fullness

-----------------------------------------------------------------------------
(* The snake is created by its owner's on_open. *)

Init ==
  /\ parts \in MinParts .. MaxLen
  /\ fullness = 0
  /\ acceleration = FALSE
  /\ changeFullness = FALSE
  /\ alive = TRUE
  /\ food \in [FoodSizes -> 0 .. MaxFood]
  /\ clientPartsIndex = parts
  /\ drawn \in {[c \in W |-> parts] : W \in {V \in SUBSET Clients : Owner \in V}}
  /\ ownerFam = 0
  /\ phase = "idle"

\* on_open of another client: packet_add_snake carries all parts of the snake.
Join(c) ==
  /\ phase = "idle"
  /\ c \notin DOMAIN drawn
  /\ drawn' = Assign(drawn, c, parts)
  /\ UNCHANGED <<bodyVars, clientPartsIndex, ownerFam, phase>>

\* on_close of another client; the owner's would remove the snake.
Leave(c) ==
  /\ phase = "idle"
  /\ c \in DOMAIN drawn \ {Owner}
  /\ drawn' = Erase(drawn, {c})
  /\ UNCHANGED <<bodyVars, clientPartsIndex, ownerFam, phase>>

\* in_packet_t_start_acc and in_packet_t_stop_acc
SetAcceleration(on) ==
  /\ phase = "idle"
  /\ acceleration' = on
  /\ UNCHANGED <<parts, fullness, changeFullness, alive, food, clientVars, phase>>

-----------------------------------------------------------------------------
(* on_timer, when Snake::Tick reaches a movement frame. *)

StartMove ==
  /\ phase = "idle" /\ alive
  /\ phase' = "eat"
  /\ UNCHANGED <<bodyVars, clientVars>>

IncreaseOffByOne(volume) ==
  /\ parts' = IF fullness + volume > 100 THEN parts + 1 ELSE parts
  /\ fullness' = IF fullness + volume > 100 THEN fullness + volume - 100
                                            ELSE fullness + volume
  /\ changeFullness' = TRUE

IncreaseUnflagged(volume) ==
  /\ parts' = IF fullness + volume >= 100 THEN parts + 1 ELSE parts
  /\ fullness' = IF fullness + volume >= 100 THEN fullness + volume - 100
                                             ELSE fullness + volume
  /\ UNCHANGED changeFullness

IncreaseSnake(volume) ==
  /\ parts' = IF fullness + volume >= 100 THEN parts + 1 ELSE parts
  /\ fullness' = IF fullness + volume >= 100 THEN fullness + volume - 100
                                             ELSE fullness + volume
  /\ changeFullness' = TRUE

\* on_food_eaten for one food that UpdateEatenFood finds.
Eat(size) ==
  /\ phase = "eat"
  /\ food[size] > 0
  /\ food' = [food EXCEPT ![size] = @ - 1]
  /\ IncreaseSnake(size)
  /\ UNCHANGED <<acceleration, alive, clientVars, phase>>

\* Every part lost becomes a food of size 100.  SpawnFood drops it when its
\* sector is none of the snake's, so it may or may not be met again.
DecreaseSnake(volume) ==
  IF volume > fullness
  THEN LET rest == volume - fullness
           reduce == 1 + rest \div 100
           lost == IF reduce <= parts - MinParts THEN reduce ELSE parts - MinParts
       IN  /\ parts' = parts - lost
           /\ fullness' = 100 - (rest % 100)
           /\ food' \in {food, [food EXCEPT ![DroppedSize] = @ + lost]}
  ELSE /\ fullness' = fullness - volume
       /\ UNCHANGED <<parts, food>>

PayBoostUnchecked ==
  /\ phase = "eat"
  /\ phase' = "broadcast"
  /\ IF acceleration
     THEN DecreaseSnake(BoostCost) /\ changeFullness' = TRUE
     ELSE UNCHANGED <<parts, fullness, food, changeFullness>>
  /\ UNCHANGED <<acceleration, alive, clientVars>>

\* The end of the loops: a boosting snake pays, or stops boosting.
PayBoost ==
  /\ phase = "eat"
  /\ phase' = "broadcast"
  /\ IF acceleration /\ parts > MinParts
     THEN /\ DecreaseSnake(BoostCost)
          /\ changeFullness' = TRUE
          /\ UNCHANGED acceleration
     ELSE /\ acceleration' = FALSE
          /\ UNCHANGED <<parts, fullness, food, changeFullness>>
  /\ UNCHANGED <<alive, clientVars>>

SendLengthCatchesUp(d) ==
  /\ clientPartsIndex' = parts
  /\ drawn' = [c \in DOMAIN drawn |-> drawn[c] + d]

\* packet_inc or packet_remove_part to every client, one part per move.
SendLength(d) ==
  /\ clientPartsIndex' = clientPartsIndex + d
  /\ drawn' = [c \in DOMAIN drawn |-> drawn[c] + d]

BroadcastUpdatesGrowthOnly ==
  /\ phase = "broadcast"
  /\ phase' = "idle"
  /\ IF clientPartsIndex < parts THEN SendLength(1)
     ELSE UNCHANGED <<clientPartsIndex, drawn>>
  /\ ownerFam' = IF clientPartsIndex < parts \/ changeFullness
                 THEN fullness ELSE ownerFam
  /\ changeFullness' = FALSE
  /\ UNCHANGED <<parts, fullness, acceleration, alive, food>>

\* The fullness a client shows after a packet, if it showed fam before:
\* packet_remove_part leaves out a zero.
packet_inc(fam) == fullness
packet_remove_part(fam) == IF fullness > 0 THEN fullness ELSE fam
packet_fullness(fam) == fullness

\* The length packets go to every client.  packet_fullness goes to the owner
\* alone, after them, when the fullness has changed.
BroadcastUpdates ==
  /\ phase = "broadcast"
  /\ phase' = "idle"
  /\ IF clientPartsIndex < parts THEN SendLength(1)
     ELSE IF clientPartsIndex > parts THEN SendLength(-1)
     ELSE UNCHANGED <<clientPartsIndex, drawn>>
  /\ LET fam == IF clientPartsIndex < parts THEN packet_inc(ownerFam)
                ELSE IF clientPartsIndex > parts THEN packet_remove_part(ownerFam)
                ELSE ownerFam
     IN  ownerFam' = IF changeFullness THEN packet_fullness(fam) ELSE fam
  /\ changeFullness' = FALSE
  /\ UNCHANGED <<parts, fullness, acceleration, alive, food>>

\* CheckSnakeBounds found the head in something: the clients are told to
\* remove the snake, and none of the packets above is sent.
Die ==
  /\ phase = "broadcast"
  /\ phase' = "idle"
  /\ alive' = FALSE
  /\ UNCHANGED <<parts, fullness, acceleration, changeFullness, food, clientVars>>

-----------------------------------------------------------------------------
TimerStep == StartMove \/ PayBoost \/ BroadcastUpdates \/ Die

Next ==
  \/ \E c \in Clients : Join(c) \/ Leave(c)
  \/ \E on \in BOOLEAN : SetAcceleration(on)
  \/ \E size \in FoodSizes : Eat(size)
  \/ TimerStep

Spec == Init /\ [][Next]_vars

\* The timer keeps moving the snake and a handler runs to its end; how much
\* the snake finds to eat, and what the players do, is not up to the server.
FairSpec == Spec /\ WF_vars(TimerStep)

-----------------------------------------------------------------------------
(* Properties *)

\* The types and ranges of the fields: at least MinParts parts, and a fullness
\* below a whole part, which packet_fullness sends as a fraction of 0xFFFFFF.
TypeOK ==
  /\ parts \in Nat /\ parts >= MinParts
  /\ fullness \in 0 .. 99
  /\ acceleration \in BOOLEAN /\ changeFullness \in BOOLEAN /\ alive \in BOOLEAN
  /\ food \in [FoodSizes -> Nat]
  /\ clientPartsIndex \in Nat /\ clientPartsIndex >= MinParts
  /\ DOMAIN drawn \subseteq Clients /\ Owner \in DOMAIN drawn
  /\ drawn \in [DOMAIN drawn -> Int]
  /\ ownerFam \in 0 .. 99
  /\ phase \in {"idle", "eat", "broadcast"}

\* A meal adds its size to the snake's mass and a boosted move takes exactly
\* BoostCost from it, whatever parts are won or lost on the way, and nothing
\* else changes the mass: IncreaseSnake and DecreaseSnake carry between
\* fullness and parts, and DecreaseSnake stops at MinParts.
MassAccounting ==
  [][/\ \A size \in FoodSizes : Eat(size) => Mass' = Mass + size
     /\ PayBoost => Mass' = Mass - (IF acceleration' THEN BoostCost ELSE 0)
     /\ phase # "eat" => Mass' = Mass]_vars

\* No client draws fewer parts of a living snake than the one counter that
\* serves them all says, so packet_remove_part never takes a snake below three
\* parts on any screen.  A client that joins is sent all parts at once, also
\* those the others have not been sent: it draws too many from then on, but
\* never too few, because between handlers the counter is never ahead of the
\* snake.  A move costs at most one part and the same timer announces it; only
\* growth lags behind.
ClientsDrawEnough ==
  alive => /\ \A c \in DOMAIN drawn : drawn[c] >= clientPartsIndex
           /\ phase = "idle" => clientPartsIndex <= parts

\* Between handlers the owner of a living snake sees its fullness.
OwnerSeesFullness == phase = "idle" /\ alive => ownerFam = fullness

\* The clients catch up: however much a snake eats or loses in a move, the
\* length the clients were sent keeps coming back to the length it has.
ClientsCatchUp == []<>(alive => clientPartsIndex = parts)
=============================================================================
