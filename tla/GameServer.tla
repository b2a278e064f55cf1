----------------------------- MODULE GameServer -----------------------------
(***************************************************************************)
(* The life of snakes and sessions in the game server: class GameServer    *)
(* (src/src/server/game.cc) on top of class World (src/src/game/world.cc). *)
(*                                                                         *)
(* endpoint.run() executes every handler on one thread, so a handler runs  *)
(* to completion before the next one starts.  on_open, on_message and      *)
(* on_close are one action each.  on_timer is a loop over snakes inside    *)
(* three calls, and is split at the loop bodies: `phase' says which loop   *)
(* it is in, and no other handler is enabled until it is "idle" again.     *)
(*                                                                         *)
(* Geometry is data here.  A Tick moves a snake to any set of sectors, and *)
(* the head check may or may not hit something that is registered in the   *)
(* sectors it looks at; which sectors those are is the business of the     *)
(* geometry modules.                                                       *)
(*                                                                         *)
(* Dereferencing a past-the-end iterator or a dangling pointer is          *)
(* undefined behaviour in the code.  Here it sets `ub', after which the    *)
(* model makes no step.                                                    *)
(***************************************************************************)
EXTENDS Naturals, Sequences, Maps

\* A definition followed by one that is the real operation (on_close after
\* OnCloseKeepsSession, Sent after SentWithoutSpeed, ...) is a faulty variant
\* of it; no specification uses it, and PROJECT.json names the property that
\* catches it.

CONSTANTS
  Conns,     \* connection handles; websocketpp makes a new one per connection
  Sectors,   \* the sectors of the map
  IdSpace,   \* number of values of snake_id_t: 65536 in the code
  Bots,      \* the values of config.world.bots, the snakes spawned at start
  MaxSnakes  \* bound on the ids that are given out; IdSpace is no bound

ASSUME IdSpaceAssumption == IdSpace \in Nat \ {0}
ASSUME BotsAssumption == Bots \subseteq Nat /\ \A n \in Bots : n < IdSpace
ASSUME BoundsAssumption == MaxSnakes \in Nat
ASSUME SectorsAssumption == Sectors # {}

VARIABLES
  fresh,        \* handles of connections that have not been opened yet
  sessions,     \* GameServer::sessions, handle -> snake_id of the Session
  connections,  \* GameServer::connections, snake id -> handle
  shown,        \* external: handle -> the snake ids this client draws
  snakes,       \* World::snakes, id -> Snake
  lastSnakeId,  \* World::lastSnakeId
  wrapped,      \* history: lastSnakeId has overflowed to 0
  boxes,        \* Sector::snakes of every sector, as ids of live snakes
  stale,        \* sectors whose list also holds the box of a freed Snake
  changes,      \* World::changes, the Snake pointers as ids
  dead,         \* World::dead
  phase,        \* where the single thread is: "idle" or a loop of on_timer
  todo,         \* ids TickSnakes has still to visit
  cursor,       \* position of the loops over changes
  kill,         \* history: <<victim, killer>> of the head check just made
  timer,        \* GameServer::timer, "armed" or "stopped"
  ub            \* undefined behaviour has happened

clientVars  == <<fresh, sessions, connections, shown>>
worldVars   == <<snakes, lastSnakeId, wrapped, boxes, stale>>
handlerVars == <<changes, dead, phase, todo, cursor, kill, timer>>
vars == <<clientVars, worldVars, handlerVars, ub>>

-----------------------------------------------------------------------------
Ids == 0 .. IdSpace - 1

\* snake_changes_t, and the bits that Snake::Tick collects in its `changes'.
Moves == {"pos", "angle", "speed"}
Flags == Moves \cup {"wangle", "fullness", "dying", "dead"}

\* What the properties tell apart of a Snake: sectors is sbb.sectors.
Snake == [bot : BOOLEAN, update : SUBSET Flags, sectors : SUBSET Sectors]

NoKill == <<>>

Halted(s) == snakes[s].update \cap {"dying", "dead"} # {}

\* ++lastSnakeId of a uint16_t.
NextId == (lastSnakeId + 1) % IdSpace

\* LoadSessionIter(id) # sessions.end()
HasSession(s) == s \in DOMAIN connections /\ connections[s] \in DOMAIN sessions

-----------------------------------------------------------------------------
(* Run(): world.Init spawns the bots, then the first timer is set. *)

Init ==
  /\ fresh = Conns
  /\ sessions = EmptyMap
  /\ connections = EmptyMap
  /\ shown = EmptyMap
  /\ lastSnakeId \in Bots
  /\ snakes \in [1 .. lastSnakeId -> {[bot |-> TRUE, update |-> {}, sectors |-> S] :
                                         S \in SUBSET Sectors \ {{}}}]
  /\ wrapped = FALSE
  /\ boxes = [c \in Sectors |-> {i \in DOMAIN snakes : c \in snakes[i].sectors}]
  /\ stale = {}
  /\ changes = <<>>
  /\ dead = <<>>
  /\ phase = "idle"
  /\ todo = {}
  /\ cursor = 1
  /\ kill = NoKill
  /\ timer = "armed"
  /\ ub = FALSE

-----------------------------------------------------------------------------
(* Connection handlers. *)

\* CreateSnake registers the new object's box in the sectors S around it.
\* AddSnake inserts the object under its id; when the id is taken the insert
\* does nothing, and the object is freed with new_snake_ptr when the handler
\* returns, while its box stays in the sectors.
CreateAndAddSnake(S) ==
  LET new == [bot |-> FALSE, update |-> {}, sectors |-> S]
      added == NextId \notin DOMAIN snakes
  IN  /\ lastSnakeId' = NextId
      /\ wrapped' = (wrapped \/ NextId = 0)
      /\ snakes' = Insert(snakes, NextId, new)
      /\ boxes' = [c \in Sectors |-> IF added /\ c \in S
                                     THEN boxes[c] \cup {NextId} ELSE boxes[c]]
      /\ stale' = IF added THEN stale ELSE stale \cup S

IntroducedInView(h) ==
  [k \in DOMAIN sessions \cup {h} |->
     IF k = h THEN {NextId} \cup {s \in DOMAIN snakes :
                        snakes[s].sectors \cap snakes'[NextId].sectors # {}}
              ELSE shown[k] \cup {NextId}]

\* What the clients draw after add_snake has gone to every session and every
\* other snake of the world has been sent to the new one.  The comment in
\* on_open speaks of the snakes "in sectors view"; the loop leaves out none.
Introduced(h) ==
  [k \in DOMAIN sessions \cup {h} |->
     IF k = h THEN DOMAIN snakes \cup {NextId} ELSE shown[k] \cup {NextId}]

on_open(h) ==
  /\ phase = "idle" /\ ~ub
  /\ h \in fresh /\ lastSnakeId < MaxSnakes
  /\ fresh' = fresh \ {h}
  /\ \E S \in SUBSET Sectors \ {{}} : CreateAndAddSnake(S)
  /\ sessions' = Assign(sessions, h, NextId)
  /\ connections' = Assign(connections, NextId, h)
  /\ shown' = Introduced(h)
  /\ UNCHANGED <<handlerVars, ub>>

\* s->update |= change_wangle
SteeredOverwrites(update) == {"wangle"}
Steered(update) == update \cup {"wangle"}

\* DoSnake(id, f): GetSnake(id) is dereferenced without a check for end().
\* A steering packet sets change_wangle; the other packets that reach the
\* snake change fields that are not modelled here.
on_message(h, steers) ==
  /\ phase = "idle" /\ ~ub
  /\ h \in DOMAIN sessions
  /\ LET id == sessions[h]
         found == id > 0 /\ id \in DOMAIN snakes
     IN  /\ ub' = (id > 0 /\ id \notin DOMAIN snakes)
         /\ snakes' = IF found /\ steers
                      THEN [snakes EXCEPT ![id].update = Steered(@)]
                      ELSE snakes
  /\ UNCHANGED <<clientVars, lastSnakeId, wrapped, boxes, stale, handlerVars>>

\* FlushChanges(id)
FlushChanges(ids) ==
  IF \E n \in 1 .. Len(changes) : changes[n] \in ids
  THEN SelectSeq(changes, LAMBDA s : s \notin ids)
  ELSE changes

RemoveSnakesFromServerOnly(ids) ==
  /\ connections' = Erase(connections, ids)
  /\ changes' = FlushChanges(ids)
  /\ UNCHANGED <<snakes, boxes, ub>>

RemoveSnakesKeepsBoxes(ids) ==
  /\ connections' = Erase(connections, ids)
  /\ changes' = FlushChanges(ids)
  /\ snakes' = Erase(snakes, ids)
  /\ UNCHANGED <<boxes, ub>>

\* GameServer::RemoveSnake and World::RemoveSnake for every id of ids.
\* Sector::RemoveSnake reads the id of every box in the sector's list.
RemoveSnakes(ids) ==
  LET here == ids \cap DOMAIN snakes
  IN  /\ connections' = Erase(connections, ids)
      /\ changes' = FlushChanges(ids)
      /\ snakes' = Erase(snakes, ids)
      /\ boxes' = [c \in Sectors |->
                     boxes[c] \ {i \in here : c \in snakes[i].sectors}]
      /\ ub' = \E i \in here : snakes[i].sectors \cap stale # {}

OnCloseKeepsSession(h) ==
  /\ phase = "idle" /\ ~ub
  /\ h \in DOMAIN sessions
  /\ RemoveSnakes({sessions[h]})
  /\ UNCHANGED <<fresh, sessions, shown, lastSnakeId, wrapped, stale,
                 dead, phase, todo, cursor, kill, timer>>

\* No packet tells the other clients that the snake has gone.
on_close(h) ==
  /\ phase = "idle" /\ ~ub
  /\ h \in DOMAIN sessions
  /\ sessions' = Erase(sessions, {h})
  /\ shown' = Erase(shown, {h})
  /\ RemoveSnakes({sessions[h]})
  /\ UNCHANGED <<fresh, lastSnakeId, wrapped, stale,
                 dead, phase, todo, cursor, kill, timer>>

-----------------------------------------------------------------------------
(* on_timer: world.Tick, BroadcastUpdates, RemoveDeadSnakes, NextTick. *)

on_timer ==
  /\ phase = "idle" /\ ~ub
  /\ timer = "armed"
  /\ phase' = "tick"
  /\ todo' = DOMAIN snakes
  /\ UNCHANGED <<clientVars, worldVars, changes, dead, cursor, kill, timer, ub>>

\* on_timer(ec) with an error logs it and returns: NextTick is not called.
on_timer_error ==
  /\ phase = "idle" /\ ~ub
  /\ timer = "armed"
  /\ timer' = "stopped"
  /\ UNCHANGED <<clientVars, worldVars, changes, dead, phase, todo, cursor,
                 kill, ub>>

\* The bits of `update' after Snake::Tick has collected the bits chg and
\* TickAI (aims) and the fullness changes (ate) have set theirs.
Ticked(update, chg, aims, ate) ==
  LET base == update \cup (IF aims THEN {"wangle"} ELSE {})
                     \cup (IF ate THEN {"fullness"} ELSE {})
  IN  [reported |-> chg # {} /\ chg # base,
       update   |-> IF chg # {} /\ chg # base THEN base \cup chg ELSE base]

\* Snake::Tick with these outcomes: only a move changes speed, fullness or
\* the sectors of the snake's box.  Sector::RemoveSnake reads the boxes of the
\* sectors the box leaves, which may include some the same move had added.
Tick(s, chg, aims, ate, S) ==
  LET old == snakes[s].sectors
      res == Ticked(snakes[s].update, chg, aims, ate)
  IN  /\ aims => snakes[s].bot
      /\ "pos" \notin chg => "speed" \notin chg /\ ~ate /\ S = old
      /\ snakes' = [snakes EXCEPT ![s].update = res.update, ![s].sectors = S]
      /\ boxes' = [c \in Sectors |->
                     CASE c \in S \ old -> boxes[c] \cup {s}
                       [] c \in old \ S -> boxes[c] \ {s}
                       [] OTHER         -> boxes[c]]
      /\ changes' = IF res.reported THEN Append(changes, s) ELSE changes
      /\ ub' \in {(old \ S) \cap stale # {},
                  "pos" \in chg /\ (Sectors \ S) \cap stale # {}}

\* One pass of the first loop of TickSnakes, for a snake that is not halted.
TickSnake(s) ==
  /\ phase = "tick" /\ ~ub
  /\ s \in todo /\ ~Halted(s)
  /\ todo' = todo \ {s}
  /\ \E chg \in SUBSET Moves, aims, ate \in BOOLEAN, S \in SUBSET Sectors :
       Tick(s, chg, aims, ate, S)
  /\ UNCHANGED <<clientVars, lastSnakeId, wrapped, stale,
                 dead, phase, cursor, kill, timer>>

\* Snake::Tick returns at once for a dying or dead snake.
SkipSnake(s) ==
  /\ phase = "tick" /\ ~ub
  /\ s \in todo /\ Halted(s)
  /\ todo' = todo \ {s}
  /\ UNCHANGED <<clientVars, worldVars, changes, dead, phase, cursor, kill,
                 timer, ub>>

TickDoneOffByOne ==
  /\ phase = "tick" /\ ~ub
  /\ todo = {}
  /\ phase' = "bounds"
  /\ cursor' = 0
  /\ UNCHANGED <<clientVars, worldVars, changes, dead, todo, kill, timer, ub>>

TickDone ==
  /\ phase = "tick" /\ ~ub
  /\ todo = {}
  /\ phase' = "bounds"
  /\ cursor' = 1
  /\ UNCHANGED <<clientVars, worldVars, changes, dead, todo, kill, timer, ub>>

\* CheckSnakeBounds(s): the border first, then the boxes in the sectors
\* around the head; s2->Intersect decides which of them are hit.
Survives(s) == UNCHANGED snakes /\ kill' = NoKill
Dies(s, killer) ==
  /\ snakes' = [snakes EXCEPT ![s].update = @ \cup {"dying"}]
  /\ kill' = killer

CheckSnakeBoundsHitsSelf(s) ==
  \/ "pos" \notin snakes[s].update /\ Survives(s) /\ UNCHANGED ub
  \/ "pos" \in snakes[s].update /\ Dies(s, NoKill) /\ UNCHANGED ub
  \/ /\ "pos" \in snakes[s].update
     /\ \E around \in SUBSET Sectors :
          /\ ub' = (around \cap stale # {})
          /\ \/ Survives(s)
             \/ \E c \in around : \E s2 \in boxes[c] : Dies(s, <<s, s2>>)

CheckSnakeBounds(s) ==
  \/ "pos" \notin snakes[s].update /\ Survives(s) /\ UNCHANGED ub
  \/ "pos" \in snakes[s].update /\ Dies(s, NoKill) /\ UNCHANGED ub
  \/ /\ "pos" \in snakes[s].update
     /\ \E around \in SUBSET Sectors :
          /\ ub' = (around \cap stale # {})
          /\ \/ Survives(s)
             \/ \E c \in around : \E s2 \in boxes[c] \ {s} : Dies(s, <<s, s2>>)

BoundsStep ==
  /\ phase = "bounds" /\ ~ub
  /\ cursor <= Len(changes)
  /\ CheckSnakeBounds(changes[cursor])
  /\ cursor' = cursor + 1
  /\ UNCHANGED <<clientVars, lastSnakeId, wrapped, boxes, stale,
                 changes, dead, phase, todo, timer>>

BoundsDone ==
  /\ phase = "bounds" /\ ~ub
  /\ cursor > Len(changes)
  /\ phase' = "broadcast"
  /\ cursor' = 1
  /\ kill' = NoKill
  /\ UNCHANGED <<clientVars, worldVars, changes, dead, todo, timer, ub>>

SentWithoutSpeed(s) ==
  LET flags == snakes[s].update
  IN  (flags \cap {"pos", "angle"})
        \cup (IF "angle" \in flags THEN {"wangle"} ELSE {})
        \cup (IF "pos" \in flags /\ ~snakes[s].bot THEN {"fullness"} ELSE {})

\* The bits BroadcastUpdates clears for a snake that is not dying: wangle
\* goes out only with angle, fullness only with pos and only to a player.
Sent(s) ==
  LET flags == snakes[s].update
  IN  (flags \cap Moves)
        \cup (IF "angle" \in flags THEN {"wangle"} ELSE {})
        \cup (IF "pos" \in flags /\ ~snakes[s].bot THEN {"fullness"} ELSE {})

BroadcastDeathKeepsBots(s) ==
  /\ snakes' = [snakes EXCEPT ![s].update = @ \cup {"dead"}]
  /\ shown' = [h \in DOMAIN sessions |-> shown[h] \ {s}]
  /\ UNCHANGED <<dead, ub>>

\* A dying snake: its food, two remove packets, and the list of dead bots.
BroadcastDeath(s) ==
  /\ snakes' = [snakes EXCEPT ![s].update = @ \cup {"dead"}]
  /\ shown' = [h \in DOMAIN sessions |-> shown[h] \ {s}]
  /\ dead' = IF snakes[s].bot THEN Append(dead, s) ELSE dead
  /\ UNCHANGED ub

\* Any other snake: LoadSessionIter may return end(), and SendPOVUpdateTo
\* (when a sector is pending) and send_binary dereference what it returned.
BroadcastMove(s) ==
  /\ snakes' = [snakes EXCEPT ![s].update = @ \ Sent(s)]
  /\ LET flags == snakes[s].update
     IN  \E pov \in BOOLEAN :
           ub' = (/\ "pos" \in flags /\ ~snakes[s].bot
                  /\ pov \/ "fullness" \in flags
                  /\ ~HasSession(s))
  /\ UNCHANGED <<shown, dead>>

BroadcastStep ==
  /\ phase = "broadcast" /\ ~ub
  /\ cursor <= Len(changes)
  /\ LET s == changes[cursor]
         flags == snakes[s].update
     IN  IF "dead" \in flags THEN UNCHANGED <<snakes, shown, dead, ub>>
         ELSE IF "dying" \in flags THEN BroadcastDeath(s)
         ELSE BroadcastMove(s)
  /\ cursor' = cursor + 1
  /\ UNCHANGED <<fresh, sessions, connections, lastSnakeId, wrapped, boxes,
                 stale, changes, phase, todo, kill, timer>>

BroadcastDoneKeepsChanges ==
  /\ phase = "broadcast" /\ ~ub
  /\ cursor > Len(changes)
  /\ phase' = "reap"
  /\ cursor' = 1
  /\ UNCHANGED <<clientVars, worldVars, changes, dead, todo, kill, timer, ub>>

\* world.FlushChanges()
BroadcastDone ==
  /\ phase = "broadcast" /\ ~ub
  /\ cursor > Len(changes)
  /\ phase' = "reap"
  /\ cursor' = 1
  /\ changes' = <<>>
  /\ UNCHANGED <<clientVars, worldVars, dead, todo, kill, timer, ub>>

\* RemoveDeadSnakes, then NextTick sets the timer again.
RemoveDeadSnakes ==
  /\ phase = "reap" /\ ~ub
  /\ RemoveSnakes({dead[n] : n \in 1 .. Len(dead)})
  /\ dead' = <<>>
  /\ phase' = "idle"
  /\ UNCHANGED <<fresh, sessions, shown, lastSnakeId, wrapped, stale,
                 todo, cursor, kill, timer>>

-----------------------------------------------------------------------------
TimerStep ==
  \/ \E s \in todo : TickSnake(s) \/ SkipSnake(s)
  \/ TickDone
  \/ BoundsStep
  \/ BoundsDone
  \/ BroadcastStep
  \/ BroadcastDone
  \/ RemoveDeadSnakes

Next ==
  \/ \E h \in fresh : on_open(h)
  \/ \E h \in DOMAIN sessions : \E steers \in BOOLEAN : on_message(h, steers)
  \/ \E h \in DOMAIN sessions : on_close(h)
  \/ on_timer
  \/ on_timer_error
  \/ TimerStep

Spec == Init /\ [][Next]_vars

\* A handler that has started runs to its end, and an armed timer fires.
\* Clients owe the server nothing.
FairSpec == Spec /\ WF_vars(TimerStep) /\ WF_vars(on_timer)

-----------------------------------------------------------------------------
(* Properties *)

\* Types of the variables (game.h, world.h), by owner.
ClientTypeOK ==
  /\ fresh \subseteq Conns
  /\ DOMAIN sessions \subseteq Conns
  /\ sessions \in [DOMAIN sessions -> Ids]
  /\ DOMAIN connections \subseteq Ids
  /\ connections \in [DOMAIN connections -> Conns]
  /\ shown \in [DOMAIN sessions -> SUBSET Ids]

WorldTypeOK ==
  /\ DOMAIN snakes \subseteq Ids
  /\ snakes \in [DOMAIN snakes -> Snake]
  /\ lastSnakeId \in Ids
  /\ wrapped \in BOOLEAN
  /\ boxes \in [Sectors -> SUBSET Ids]
  /\ stale \subseteq Sectors

HandlerTypeOK ==
  /\ changes \in Seq(Ids)
  /\ dead \in Seq(Ids)
  /\ phase \in {"idle", "tick", "bounds", "broadcast", "reap"}
  /\ todo \subseteq Ids
  /\ cursor \in Nat \ {0}
  /\ timer \in {"armed", "stopped"}
  /\ ub \in BOOLEAN

\* The type invariant of the server's and the world's fields.
TypeOK == ClientTypeOK /\ WorldTypeOK /\ HandlerTypeOK

SessionsMatch ==
  /\ \A h \in DOMAIN sessions :
       /\ sessions[h] \in DOMAIN snakes /\ ~snakes[sessions[h]].bot
       /\ sessions[h] \in DOMAIN connections
       /\ connections[sessions[h]] = h
  /\ \A s \in DOMAIN snakes :
       ~snakes[s].bot => HasSession(s) /\ sessions[connections[s]] = s

\* Until the id counter overflows, sessions and player snakes correspond one
\* to one through the two maps: a session's snake is in the world and is not
\* a bot, and connections leads from a player's snake back to its session.
\* DoSnake and BroadcastUpdates rely on it where they use an iterator
\* without comparing it with end().
SessionsOwnSnakes == ~wrapped => SessionsMatch

SectorsMatch ==
  /\ stale = {}
  /\ \A c \in Sectors :
       boxes[c] = {s \in DOMAIN snakes : c \in snakes[s].sectors}

\* Until the id counter overflows, the sectors' lists of boxes are exactly
\* the inverse of the snakes' lists of sectors, and hold no box of a freed
\* snake: CheckSnakeBounds follows those pointers without any check, after
\* snakes have been created, moved, killed and removed by other handlers.
SectorsIndexWorld == ~wrapped => SectorsMatch

\* Until the id counter overflows, no handler uses a past-the-end iterator
\* or a dangling pointer.
NoUndefinedBehaviour == ~wrapped => ~ub

\* The pointers in World::changes are pointers to snakes of the world, and
\* no snake is in the list twice: BroadcastUpdates toggles the bits it has
\* sent with ^=, which would set them again on a second visit.
ChangesAreLive ==
  /\ \A n \in 1 .. Len(changes) : changes[n] \in DOMAIN snakes
  /\ \A m, n \in 1 .. Len(changes) : changes[m] = changes[n] => m = n

\* Between handlers nothing is pending: every position, angle and speed
\* change has been sent, every death has been announced, and only players
\* are kept in the world after they died.  Snake::Tick compares the bits it
\* collected with the pending ones (changes != update) and would lose an
\* update if a bit were left over.
QuietWhenIdle ==
  phase = "idle" =>
    /\ changes = <<>> /\ dead = <<>>
    /\ \A s \in DOMAIN snakes :
         IF Halted(s) THEN "dead" \in snakes[s].update /\ ~snakes[s].bot
                      ELSE snakes[s].update \cap Moves = {}

\* Do the boxes of a client's snake and of s share a sector?
InRange(h, s) == snakes[sessions[h]].sectors \cap snakes[s].sectors # {}

\* A client draws every living snake that shares a sector with its own.  A
\* snake is introduced once, by the on_open of the younger of the two; no packet
\* is sent when it comes into range ("snake observability tracking" is still to
\* do in README.md), so whoever may come near later has to be introduced then.
\* Snakes out of range are drawn as well, which the property leaves open.
SnakesInRangeShown ==
  \A h \in DOMAIN sessions :
    sessions[h] \in DOMAIN snakes =>
      \A s \in DOMAIN snakes :
        "dead" \notin snakes[s].update /\ InRange(h, s) => s \in shown[h]

\* Death is final: a dead snake never comes back to life under its id, and
\* leaves the world only with its session or, for a bot, when it is reaped.
DeathIsFinal ==
  [][\A s \in DOMAIN snakes :
       "dead" \in snakes[s].update /\ ~wrapped' =>
         \/ s \in DOMAIN snakes' /\ "dead" \in snakes'[s].update
         \/ s \notin DOMAIN snakes' /\ (phase = "reap" <=> snakes[s].bot)]_vars

\* Every snake that hits something is announced, and a bot removed: once
\* CheckSnakeBounds has marked it, it is dying for a bounded part of the
\* handler only, and then it is dead (a player) or gone (a bot).
DyingIsResolved ==
  \A s \in Ids :
    (s \in DOMAIN snakes /\ "dying" \in snakes[s].update)
      ~> (s \in DOMAIN snakes =>
            "dead" \in snakes[s].update /\ ~snakes[s].bot)

-----------------------------------------------------------------------------
(* What the documentation says and the code does not do *)

\* p_snake.h: the remove packet is sent when another snake leaves range or
\* dies.  A client between handlers draws only snakes of the world.
ClientsForgetRemovedSnakes ==
  phase = "idle" =>
    \A h \in DOMAIN sessions : shown[h] \subseteq DOMAIN snakes
=============================================================================
