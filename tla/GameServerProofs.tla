-------------------------- MODULE GameServerProofs --------------------------
(***************************************************************************)
(* Proofs about GameServer, for every set of connections and sectors, every *)
(* width of the id counter and every number of bots; at the end, that the  *)
(* server implements the arena.                                            *)
(***************************************************************************)
EXTENDS ServerArena, TLAPS

\* What the lists of a running handler hold.  Snakes enter and leave the
\* world only in handlers that run while both lists are empty, or after the
\* last use of changes; that is why no pointer in them dangles.
ListsInv ==
  /\ todo \subseteq DOMAIN snakes
  /\ phase # "tick" => todo = {}
  /\ phase \in {"idle", "reap"} => changes = <<>>
  /\ phase \in {"idle", "tick", "bounds"} => dead = <<>>
  /\ \A n \in 1 .. Len(changes) : changes[n] \in DOMAIN snakes \ todo
  /\ \A m, n \in 1 .. Len(changes) : changes[m] = changes[n] => m = n
  /\ \A n \in 1 .. Len(dead) :
       dead[n] \in DOMAIN snakes /\ snakes[dead[n]].bot

\* BroadcastUpdates has still to visit s.
Pending(s) ==
  \E n \in 1 .. Len(changes) :
    changes[n] = s /\ (phase = "broadcast" => n >= cursor)

\* A snake that is not waiting for its broadcast has no unsent move and no
\* unannounced death.
QuietSnake(s) ==
  /\ ~Pending(s) => IF Halted(s) THEN "dead" \in snakes[s].update
                                 ELSE snakes[s].update \cap Moves = {}
  /\ "dead" \in snakes[s].update => ~Pending(s)
  /\ "dead" \in snakes[s].update /\ snakes[s].bot =>
       \E n \in 1 .. Len(dead) : dead[n] = s

QuietInv == \A s \in DOMAIN snakes : QuietSnake(s)

\* Until the counter overflows a new id is larger than every id in use, and
\* then the maps of the server and the lists of the sectors agree with the
\* world and nothing undefined has happened.
IdsMatch ==
  /\ DOMAIN snakes \subseteq 1 .. lastSnakeId
  /\ fresh \cap DOMAIN sessions = {}

WorldMatch == IdsMatch /\ SessionsMatch /\ SectorsMatch /\ ~ub

WorldInv == ~wrapped => WorldMatch

-----------------------------------------------------------------------------
(* Type correctness *)

\* FlushChanges of an empty list leaves it empty.
LEMMA NoChangesToFlush ==
  ASSUME changes = <<>>, NEW ids
  PROVE  FlushChanges(ids) = <<>>
BY DEF FlushChanges

\* ++lastSnakeId stays in range, and only an overflow gives 0.
LEMMA NextIdType ==
  ASSUME TypeOK
  PROVE  /\ NextId \in Ids
         /\ NextId # 0 => NextId = lastSnakeId + 1
<1>1. lastSnakeId \in 0 .. IdSpace - 1
  BY DEF TypeOK, WorldTypeOK, Ids
<1>2. CASE lastSnakeId = IdSpace - 1
  BY <1>2, IdSpaceAssumption DEF NextId, Ids
<1>3. CASE lastSnakeId < IdSpace - 1
  <2>1. (lastSnakeId + 1) % IdSpace = lastSnakeId + 1
    BY <1>1, <1>3, IdSpaceAssumption
  <2> QED  BY <2>1, <1>1, <1>3, IdSpaceAssumption DEF NextId, Ids
<1> QED  BY <1>1, <1>2, <1>3, IdSpaceAssumption

\* Run() starts with well-typed fields and empty lists.
LEMMA InitTypeOK == Init => TypeOK /\ ListsInv
<1> SUFFICES ASSUME Init PROVE TypeOK /\ ListsInv  OBVIOUS
<1> DEFINE n == lastSnakeId
<1>1. 1 .. n \subseteq Ids /\ n \in Ids
  BY IdSpaceAssumption, BotsAssumption DEF Ids, Init
<1>2. snakes \in [1 .. n -> Snake]
  <2>1. \A S \in SUBSET Sectors :
          [bot |-> TRUE, update |-> {}, sectors |-> S] \in Snake
    BY DEF Snake
  <2>2. {[bot |-> TRUE, update |-> {}, sectors |-> S] :
           S \in SUBSET Sectors \ {{}}} \subseteq Snake
    BY <2>1
  <2> QED  BY <2>2 DEF Init
<1>3. boxes \in [Sectors -> SUBSET Ids]
  BY <1>1, <1>2 DEF Init
<1>4. DOMAIN snakes = 1 .. n
  BY <1>2
<1>5. /\ DOMAIN sessions = {} /\ sessions \in [{} -> Ids]
      /\ DOMAIN connections = {} /\ connections \in [{} -> Conns]
      /\ shown \in [{} -> SUBSET Ids]
  BY DEF Init, EmptyMap
<1>6. /\ fresh = Conns /\ wrapped = FALSE
      /\ stale = {} /\ changes = <<>> /\ dead = <<>> /\ phase = "idle"
      /\ todo = {} /\ cursor = 1 /\ timer = "armed" /\ ub = FALSE
  BY DEF Init
<1>7. ClientTypeOK
  BY <1>5, <1>6 DEF ClientTypeOK
<1>8. WorldTypeOK
  <2>1. wrapped \in BOOLEAN
    BY <1>6
  <2> QED  BY <1>1, <1>2, <1>3, <1>4, <1>6, <2>1 DEF WorldTypeOK
<1>9. HandlerTypeOK
  <2>1. ub \in BOOLEAN
    BY <1>6
  <2> QED  BY <1>6, <2>1 DEF HandlerTypeOK
<1>10. ListsInv
  BY <1>6 DEF ListsInv
<1> QED  BY <1>7, <1>8, <1>9, <1>10 DEF TypeOK

\* A step that changes only the bits of snakes keeps the world's keys.
LEMMA FlagsFacts ==
  ASSUME TypeOK, NEW s, NEW F \in SUBSET Flags,
         snakes' = [snakes EXCEPT ![s].update = F]
  PROVE  /\ DOMAIN snakes' = DOMAIN snakes
         /\ snakes' \in [DOMAIN snakes -> Snake]
         /\ \A x \in DOMAIN snakes :
              /\ snakes'[x].bot = snakes[x].bot
              /\ snakes'[x].sectors = snakes[x].sectors
              /\ x = s => snakes'[x].update = F
              /\ x # s => snakes'[x].update = snakes[x].update
<1>1. snakes \in [DOMAIN snakes -> Snake]
  BY DEF TypeOK, WorldTypeOK
<1>2. DOMAIN snakes' = DOMAIN snakes
  OBVIOUS
<1>3. \A x \in DOMAIN snakes : snakes[x] \in Snake
  BY <1>1
<1>4. ASSUME NEW x \in DOMAIN snakes
      PROVE  /\ snakes'[x] \in Snake
             /\ snakes'[x].bot = snakes[x].bot
             /\ snakes'[x].sectors = snakes[x].sectors
             /\ x = s => snakes'[x].update = F
             /\ x # s => snakes'[x].update = snakes[x].update
  <2>1. CASE x = s
    <3>1. snakes'[x] = [snakes[x] EXCEPT !.update = F]
      BY <2>1
    <3> QED  BY <3>1, <2>1, <1>3 DEF Snake
  <2>2. CASE x # s
    BY <2>2, <1>3
  <2> QED  BY <2>1, <2>2
<1>5. snakes' \in [DOMAIN snakes -> Snake]
  BY <1>2, <1>4
<1> QED  BY <1>2, <1>4, <1>5

\* A step that changes the bits and the sectors of one snake keeps the world's
\* keys and the other snakes.
LEMMA MoveFacts ==
  ASSUME TypeOK, NEW s, NEW F \in SUBSET Flags, NEW S \in SUBSET Sectors,
         snakes' = [snakes EXCEPT ![s].update = F, ![s].sectors = S]
  PROVE  /\ DOMAIN snakes' = DOMAIN snakes
         /\ snakes' \in [DOMAIN snakes -> Snake]
         /\ \A x \in DOMAIN snakes :
              /\ snakes'[x].bot = snakes[x].bot
              /\ x = s => snakes'[x].update = F /\ snakes'[x].sectors = S
              /\ x # s => snakes'[x] = snakes[x]
<1>1. snakes \in [DOMAIN snakes -> Snake]
  BY DEF TypeOK, WorldTypeOK
<1>2. DOMAIN snakes' = DOMAIN snakes
  OBVIOUS
<1>3. \A x \in DOMAIN snakes : snakes[x] \in Snake
  BY <1>1
<1>4. ASSUME NEW x \in DOMAIN snakes
      PROVE  /\ snakes'[x] \in Snake
             /\ snakes'[x].bot = snakes[x].bot
             /\ x = s => snakes'[x].update = F /\ snakes'[x].sectors = S
             /\ x # s => snakes'[x] = snakes[x]
  <2>1. CASE x = s
    <3>1. snakes'[x] = [[snakes[x] EXCEPT !.update = F] EXCEPT !.sectors = S]
      BY <2>1
    <3> QED  BY <3>1, <2>1, <1>3 DEF Snake
  <2>2. CASE x # s
    BY <2>2, <1>3
  <2> QED  BY <2>1, <2>2
<1>5. snakes' \in [DOMAIN snakes -> Snake]
  BY <1>2, <1>4
<1> QED  BY <1>2, <1>4, <1>5

\* What RemoveSnake does to the maps, the world and the lists of the sectors.
LEMMA RemoveSnakesFacts ==
  ASSUME TypeOK, changes = <<>>, NEW ids, RemoveSnakes(ids)
  PROVE  /\ DOMAIN connections' = DOMAIN connections \ ids
         /\ connections' \in [DOMAIN connections \ ids -> Conns]
         /\ \A x \in DOMAIN connections \ ids : connections'[x] = connections[x]
         /\ DOMAIN snakes' = DOMAIN snakes \ ids
         /\ snakes' \in [DOMAIN snakes \ ids -> Snake]
         /\ \A x \in DOMAIN snakes \ ids : snakes'[x] = snakes[x]
         /\ boxes' \in [Sectors -> SUBSET Ids]
         /\ changes' = <<>>
         /\ ub' \in BOOLEAN
<1>1. /\ DOMAIN connections' = DOMAIN connections \ ids
      /\ connections' \in [DOMAIN connections \ ids -> Conns]
      /\ \A x \in DOMAIN connections \ ids : connections'[x] = connections[x]
  BY DEF RemoveSnakes, Erase, TypeOK, ClientTypeOK
<1>2. /\ DOMAIN snakes' = DOMAIN snakes \ ids
      /\ snakes' \in [DOMAIN snakes \ ids -> Snake]
      /\ \A x \in DOMAIN snakes \ ids : snakes'[x] = snakes[x]
  BY DEF RemoveSnakes, Erase, TypeOK, WorldTypeOK
<1>3. boxes' \in [Sectors -> SUBSET Ids]
  BY DEF RemoveSnakes, TypeOK, WorldTypeOK
<1>4. changes' = <<>>
  BY NoChangesToFlush DEF RemoveSnakes
<1>5. ub' \in BOOLEAN
  BY DEF RemoveSnakes
<1> QED  BY <1>1, <1>2, <1>3, <1>4, <1>5

\* The snake the loops over changes are looking at.
LEMMA CursorFacts ==
  ASSUME TypeOK, ListsInv, cursor <= Len(changes)
  PROVE  /\ cursor \in 1 .. Len(changes)
         /\ changes[cursor] \in DOMAIN snakes
         /\ changes[cursor] \in Ids
         /\ snakes[changes[cursor]] \in Snake
<1>1. cursor \in 1 .. Len(changes)
  BY DEF TypeOK, HandlerTypeOK
<1> QED  BY <1>1 DEF TypeOK, HandlerTypeOK, WorldTypeOK, ListsInv

\* What CheckSnakeBounds does to the world.
LEMMA CheckFacts ==
  ASSUME TypeOK, NEW s \in DOMAIN snakes, CheckSnakeBounds(s)
  PROVE  /\ \/ snakes' = snakes
            \/ snakes' = [snakes EXCEPT
                            ![s].update = snakes[s].update \cup {"dying"}]
         /\ snakes[s].update \cup {"dying"} \in SUBSET Flags
         /\ ub' \in BOOLEAN
<1>1. snakes[s].update \cup {"dying"} \in SUBSET Flags
  BY DEF TypeOK, WorldTypeOK, Snake, Flags
<1>2. \/ snakes' = snakes
      \/ snakes' = [snakes EXCEPT
                      ![s].update = snakes[s].update \cup {"dying"}]
  BY DEF CheckSnakeBounds, Survives, Dies
<1>3. ub' \in BOOLEAN
  BY DEF CheckSnakeBounds, TypeOK, HandlerTypeOK
<1> QED  BY <1>1, <1>2, <1>3

\* Every step keeps the types and the discipline of the lists.
LEMMA StepTypeOK == TypeOK /\ ListsInv /\ [Next]_vars => TypeOK' /\ ListsInv'
<1> SUFFICES ASSUME TypeOK, ListsInv, [Next]_vars
             PROVE  TypeOK' /\ ListsInv'
  OBVIOUS
<1> USE DEF TypeOK
<1>1. ASSUME NEW h \in fresh, on_open(h)
      PROVE  TypeOK' /\ ListsInv'
  <2>1. NextId \in Ids /\ h \in Conns
    BY NextIdType DEF ClientTypeOK
  <2>2. PICK S \in SUBSET Sectors : CreateAndAddSnake(S)
    BY <1>1 DEF on_open
  <2>3. [bot |-> FALSE, update |-> {}, sectors |-> S] \in Snake
    BY DEF Snake
  <2>4. /\ DOMAIN snakes' = DOMAIN snakes \cup {NextId}
        /\ snakes' \in [DOMAIN snakes \cup {NextId} -> Snake]
    BY <2>2, <2>3 DEF CreateAndAddSnake, WorldTypeOK, Insert, Assign
  <2>5. boxes' \in [Sectors -> SUBSET Ids] /\ stale' \subseteq Sectors
    BY <2>1, <2>2 DEF CreateAndAddSnake, WorldTypeOK
  <2>6. wrapped' \in BOOLEAN
    BY <2>2 DEF CreateAndAddSnake
  <2>7. WorldTypeOK'
    BY <2>1, <2>2, <2>4, <2>5, <2>6 DEF CreateAndAddSnake, WorldTypeOK
  <2>8. /\ DOMAIN sessions' = DOMAIN sessions \cup {h}
        /\ sessions' \in [DOMAIN sessions \cup {h} -> Ids]
    BY <1>1, <2>1 DEF on_open, ClientTypeOK, Assign
  <2>9. /\ DOMAIN connections' = DOMAIN connections \cup {NextId}
        /\ connections' \in [DOMAIN connections \cup {NextId} -> Conns]
    BY <1>1, <2>1 DEF on_open, ClientTypeOK, Assign
  <2>10. shown' \in [DOMAIN sessions \cup {h} -> SUBSET Ids]
    BY <1>1, <2>1 DEF on_open, Introduced, ClientTypeOK, WorldTypeOK
  <2>11. ClientTypeOK'
    BY <1>1, <2>1, <2>8, <2>9, <2>10 DEF on_open, ClientTypeOK
  <2>12. UNCHANGED <<handlerVars, ub>> /\ phase = "idle"
    BY <1>1 DEF on_open
  <2>13. HandlerTypeOK'
    BY <2>12 DEF handlerVars, HandlerTypeOK
  <2>14. ListsInv'
    BY <2>4, <2>12 DEF handlerVars, ListsInv
  <2> QED  BY <2>7, <2>11, <2>13, <2>14
<1>2. ASSUME NEW h \in DOMAIN sessions, NEW steers \in BOOLEAN,
             on_message(h, steers)
      PROVE  TypeOK' /\ ListsInv'
  <2> DEFINE id == sessions[h]
  <2>1. UNCHANGED <<clientVars, lastSnakeId, wrapped, boxes, stale, handlerVars>>
    BY <1>2 DEF on_message
  <2>2. ub' \in BOOLEAN
    BY <1>2 DEF on_message
  <2>3. /\ DOMAIN snakes' = DOMAIN snakes
        /\ snakes' \in [DOMAIN snakes -> Snake]
        /\ \A x \in DOMAIN snakes : snakes'[x].bot = snakes[x].bot
    <3>1. CASE id \in DOMAIN snakes /\ snakes' # snakes
      <4>1. snakes' = [snakes EXCEPT ![id].update = Steered(snakes[id].update)]
        BY <1>2, <3>1 DEF on_message
      <4>2. Steered(snakes[id].update) \in SUBSET Flags
        BY <3>1 DEF WorldTypeOK, Snake, Steered, Flags
      <4> QED  BY <4>1, <4>2, FlagsFacts
    <3>2. CASE snakes' = snakes
      BY <3>2 DEF WorldTypeOK
    <3> QED  BY <1>2, <3>1, <3>2 DEF on_message
  <2>4. ClientTypeOK'
    BY <2>1 DEF clientVars, ClientTypeOK
  <2>5. WorldTypeOK'
    BY <2>1, <2>3 DEF WorldTypeOK
  <2>6. HandlerTypeOK'
    BY <2>1, <2>2 DEF handlerVars, HandlerTypeOK
  <2>7. ListsInv'
    BY <2>1, <2>3 DEF handlerVars, ListsInv
  <2> QED  BY <2>4, <2>5, <2>6, <2>7
<1>3. ASSUME NEW h \in DOMAIN sessions, on_close(h)
      PROVE  TypeOK' /\ ListsInv'
  <2>1. phase = "idle" /\ changes = <<>> /\ dead = <<>> /\ todo = {}
    BY <1>3 DEF on_close, ListsInv
  <2>2. RemoveSnakes({sessions[h]})
    BY <1>3 DEF on_close
  <2>3. UNCHANGED <<fresh, lastSnakeId, wrapped, stale,
                    dead, phase, todo, cursor, kill, timer>>
    BY <1>3 DEF on_close
  <2>4. /\ DOMAIN sessions' = DOMAIN sessions \ {h}
        /\ sessions' \in [DOMAIN sessions \ {h} -> Ids]
        /\ shown' \in [DOMAIN sessions \ {h} -> SUBSET Ids]
    BY <1>3 DEF on_close, Erase, ClientTypeOK
  <2>5. ClientTypeOK'
    BY <2>1, <2>2, <2>3, <2>4, RemoveSnakesFacts DEF ClientTypeOK
  <2>6. WorldTypeOK'
    BY <2>1, <2>2, <2>3, RemoveSnakesFacts DEF WorldTypeOK
  <2>7. HandlerTypeOK'
    BY <2>1, <2>2, <2>3, RemoveSnakesFacts DEF HandlerTypeOK
  <2>8. ListsInv'
    <3>1. changes' = <<>> /\ dead' = <<>> /\ todo' = {} /\ phase' = "idle"
      BY <2>1, <2>2, <2>3, RemoveSnakesFacts
    <3> QED  BY <3>1 DEF ListsInv
  <2> QED  BY <2>5, <2>6, <2>7, <2>8
<1>4. CASE on_timer
  <2>1. HandlerTypeOK'
    BY <1>4 DEF on_timer, HandlerTypeOK, WorldTypeOK
  <2>2. ClientTypeOK' /\ WorldTypeOK'
    BY <1>4 DEF on_timer, clientVars, worldVars, ClientTypeOK, WorldTypeOK
  <2>3. ListsInv'
    BY <1>4 DEF on_timer, worldVars, ListsInv
  <2> QED  BY <2>1, <2>2, <2>3
<1>5. CASE on_timer_error
  <2>1. HandlerTypeOK'
    BY <1>5 DEF on_timer_error, HandlerTypeOK
  <2>2. ClientTypeOK' /\ WorldTypeOK'
    BY <1>5 DEF on_timer_error, clientVars, worldVars, ClientTypeOK, WorldTypeOK
  <2>3. ListsInv'
    BY <1>5 DEF on_timer_error, worldVars, ListsInv
  <2> QED  BY <2>1, <2>2, <2>3
<1>6. ASSUME NEW s \in todo, TickSnake(s)
      PROVE  TypeOK' /\ ListsInv'
  <2>1. s \in DOMAIN snakes /\ s \in Ids /\ phase = "tick"
    BY <1>6 DEF TickSnake, ListsInv, WorldTypeOK
  <2>2. PICK chg \in SUBSET Moves, aims \in BOOLEAN, ate \in BOOLEAN,
             S \in SUBSET Sectors :
          Tick(s, chg, aims, ate, S)
    BY <1>6 DEF TickSnake
  <2> DEFINE res == Ticked(snakes[s].update, chg, aims, ate)
  <2>3. res.update \in SUBSET Flags
    BY <2>1 DEF Ticked, Flags, WorldTypeOK, Snake
  <2>4. /\ DOMAIN snakes' = DOMAIN snakes
        /\ snakes' \in [DOMAIN snakes -> Snake]
        /\ \A x \in DOMAIN snakes : snakes'[x].bot = snakes[x].bot
    BY <2>2, <2>3, MoveFacts DEF Tick
  <2>5. boxes' \in [Sectors -> SUBSET Ids]
    BY <2>1, <2>2 DEF Tick, WorldTypeOK
  <2>6. ub' \in BOOLEAN
    BY <2>2 DEF Tick
  <2>7. changes' = changes \/ changes' = Append(changes, s)
    BY <2>2 DEF Tick
  <2>8. UNCHANGED <<clientVars, lastSnakeId, wrapped, stale,
                    dead, phase, cursor, kill, timer>> /\ todo' = todo \ {s}
    BY <1>6 DEF TickSnake
  <2> HIDE DEF res
  <2>9. ClientTypeOK'
    BY <2>8 DEF clientVars, ClientTypeOK
  <2>10. WorldTypeOK'
    BY <2>4, <2>5, <2>8 DEF WorldTypeOK
  <2>11. HandlerTypeOK'
    BY <2>1, <2>6, <2>7, <2>8 DEF HandlerTypeOK
  <2>12. ListsInv'
    <3>1. changes \in Seq(Ids)
      BY DEF HandlerTypeOK
    <3>2. /\ \A n \in 1 .. Len(changes') : changes'[n] \in DOMAIN snakes' \ todo'
          /\ \A m, n \in 1 .. Len(changes') : changes'[m] = changes'[n] => m = n
      BY <1>6, <2>1, <2>4, <2>7, <2>8, <3>1 DEF ListsInv
    <3> QED  BY <2>1, <2>4, <2>8, <3>2 DEF ListsInv
  <2> QED  BY <2>9, <2>10, <2>11, <2>12
<1>7. ASSUME NEW s \in todo, SkipSnake(s)
      PROVE  TypeOK' /\ ListsInv'
  <2>1. HandlerTypeOK'
    BY <1>7 DEF SkipSnake, HandlerTypeOK
  <2>2. ClientTypeOK' /\ WorldTypeOK'
    BY <1>7 DEF SkipSnake, clientVars, worldVars, ClientTypeOK, WorldTypeOK
  <2>3. ListsInv'
    BY <1>7 DEF SkipSnake, worldVars, ListsInv
  <2> QED  BY <2>1, <2>2, <2>3
<1>8. CASE TickDone
  <2>1. HandlerTypeOK'
    BY <1>8 DEF TickDone, HandlerTypeOK
  <2>2. ClientTypeOK' /\ WorldTypeOK'
    BY <1>8 DEF TickDone, clientVars, worldVars, ClientTypeOK, WorldTypeOK
  <2>3. ListsInv'
    BY <1>8 DEF TickDone, worldVars, ListsInv
  <2> QED  BY <2>1, <2>2, <2>3
<1>9. CASE BoundsStep
  <2> DEFINE s == changes[cursor]
  <2>1. s \in DOMAIN snakes
    BY <1>9, CursorFacts DEF BoundsStep
  <2>2. CheckSnakeBounds(s)
    BY <1>9 DEF BoundsStep
  <2>3. /\ DOMAIN snakes' = DOMAIN snakes
        /\ snakes' \in [DOMAIN snakes -> Snake]
        /\ \A x \in DOMAIN snakes : snakes'[x].bot = snakes[x].bot
    <3>1. CASE snakes' = snakes
      BY <3>1 DEF WorldTypeOK
    <3>2. CASE snakes' = [snakes EXCEPT
                            ![s].update = snakes[s].update \cup {"dying"}]
      BY <3>2, <2>1, <2>2, CheckFacts, FlagsFacts
    <3> QED  BY <3>1, <3>2, <2>1, <2>2, CheckFacts
  <2>4. ub' \in BOOLEAN
    BY <2>1, <2>2, CheckFacts
  <2>5. /\ UNCHANGED <<clientVars, lastSnakeId, wrapped, boxes, stale,
                       changes, dead, phase, todo, timer>>
        /\ cursor' = cursor + 1
    BY <1>9 DEF BoundsStep
  <2>6. ClientTypeOK'
    BY <2>5 DEF clientVars, ClientTypeOK
  <2>7. WorldTypeOK'
    BY <2>3, <2>5 DEF WorldTypeOK
  <2>8. HandlerTypeOK'
    BY <2>4, <2>5 DEF HandlerTypeOK
  <2>9. ListsInv'
    BY <2>3, <2>5 DEF ListsInv
  <2> QED  BY <2>6, <2>7, <2>8, <2>9
<1>10. CASE BoundsDone
  <2>1. HandlerTypeOK'
    BY <1>10 DEF BoundsDone, HandlerTypeOK
  <2>2. ClientTypeOK' /\ WorldTypeOK'
    BY <1>10 DEF BoundsDone, clientVars, worldVars, ClientTypeOK, WorldTypeOK
  <2>3. ListsInv'
    BY <1>10 DEF BoundsDone, worldVars, ListsInv
  <2> QED  BY <2>1, <2>2, <2>3
<1>11. CASE BroadcastStep
  <2> DEFINE s == changes[cursor]
  <2>1. s \in DOMAIN snakes /\ s \in Ids /\ snakes[s] \in Snake
    BY <1>11, CursorFacts DEF BroadcastStep
  <2>2. /\ UNCHANGED <<fresh, sessions, connections, lastSnakeId, wrapped,
                       boxes, stale, changes, phase, todo, kill, timer>>
        /\ cursor' = cursor + 1 /\ phase = "broadcast"
    BY <1>11 DEF BroadcastStep
  <2>3. \/ UNCHANGED <<snakes, shown, dead, ub>>
        \/ BroadcastDeath(s)
        \/ BroadcastMove(s)
    BY <1>11 DEF BroadcastStep
  <2>4. ub' \in BOOLEAN
    BY <2>3 DEF BroadcastDeath, BroadcastMove, HandlerTypeOK
  <2>5. shown' \in [DOMAIN sessions -> SUBSET Ids]
    BY <2>3 DEF BroadcastDeath, BroadcastMove, ClientTypeOK
  <2>6. /\ DOMAIN snakes' = DOMAIN snakes
        /\ snakes' \in [DOMAIN snakes -> Snake]
        /\ \A x \in DOMAIN snakes : snakes'[x].bot = snakes[x].bot
    <3>1. CASE snakes' = snakes
      BY <3>1 DEF WorldTypeOK
    <3>2. CASE BroadcastDeath(s)
      <4>1. snakes[s].update \cup {"dead"} \in SUBSET Flags
        BY <2>1 DEF Snake, Flags
      <4>2. snakes' = [snakes EXCEPT ![s].update = snakes[s].update \cup {"dead"}]
        BY <3>2 DEF BroadcastDeath
      <4> QED  BY <4>1, <4>2, FlagsFacts
    <3>3. CASE BroadcastMove(s)
      <4>1. snakes[s].update \ Sent(s) \in SUBSET Flags
        BY <2>1 DEF Snake
      <4>2. snakes' = [snakes EXCEPT ![s].update = snakes[s].update \ Sent(s)]
        BY <3>3 DEF BroadcastMove
      <4> QED  BY <4>1, <4>2, FlagsFacts
    <3> QED  BY <2>3, <3>1, <3>2, <3>3
  <2>7. \/ dead' = dead
        \/ dead' = Append(dead, s) /\ snakes[s].bot
    BY <2>3 DEF BroadcastDeath, BroadcastMove
  <2> HIDE DEF s
  <2>8. ClientTypeOK'
    BY <2>2, <2>5 DEF ClientTypeOK
  <2>9. WorldTypeOK'
    BY <2>2, <2>6 DEF WorldTypeOK
  <2>10. HandlerTypeOK'
    BY <2>1, <2>2, <2>4, <2>7 DEF HandlerTypeOK
  <2>11. ListsInv'
    <3>1. \A n \in 1 .. Len(dead') :
            dead'[n] \in DOMAIN snakes' /\ snakes'[dead'[n]].bot
      <4>1. dead \in Seq(Ids) /\ s \in Ids
        BY <2>1 DEF HandlerTypeOK
      <4>2. \A n \in 1 .. Len(dead) : dead[n] \in DOMAIN snakes /\ snakes[dead[n]].bot
        BY DEF ListsInv
      <4>3. CASE dead' = dead
        BY <4>2, <4>3, <2>6
      <4>4. CASE dead' = Append(dead, s) /\ snakes[s].bot
        <5>1. /\ Len(dead') = Len(dead) + 1
              /\ \A n \in 1 .. Len(dead') : n \in 1 .. Len(dead) \/ dead'[n] = s
              /\ \A n \in 1 .. Len(dead) : dead'[n] = dead[n]
          BY <4>1, <4>4
        <5> QED  BY <5>1, <4>2, <4>4, <2>1, <2>6
      <4> QED  BY <2>7, <4>3, <4>4
    <3> QED  BY <2>2, <2>6, <3>1 DEF ListsInv
  <2> QED  BY <2>8, <2>9, <2>10, <2>11
<1>12. CASE BroadcastDone
  <2>1. HandlerTypeOK'
    BY <1>12 DEF BroadcastDone, HandlerTypeOK
  <2>2. ClientTypeOK' /\ WorldTypeOK'
    BY <1>12 DEF BroadcastDone, clientVars, worldVars, ClientTypeOK, WorldTypeOK
  <2>3. ListsInv'
    BY <1>12 DEF BroadcastDone, worldVars, ListsInv
  <2> QED  BY <2>1, <2>2, <2>3
<1>13. CASE RemoveDeadSnakes
  <2> DEFINE ids == {dead[n] : n \in 1 .. Len(dead)}
  <2>1. changes = <<>> /\ todo = {} /\ RemoveSnakes(ids)
    BY <1>13 DEF RemoveDeadSnakes, ListsInv
  <2>2. /\ UNCHANGED <<fresh, sessions, shown, lastSnakeId, wrapped, stale,
                       todo, cursor, kill, timer>>
        /\ dead' = <<>> /\ phase' = "idle"
    BY <1>13 DEF RemoveDeadSnakes
  <2> HIDE DEF ids
  <2>3. ClientTypeOK'
    BY <2>1, <2>2, RemoveSnakesFacts DEF ClientTypeOK
  <2>4. WorldTypeOK'
    BY <2>1, <2>2, RemoveSnakesFacts DEF WorldTypeOK
  <2>5. HandlerTypeOK'
    BY <2>1, <2>2, RemoveSnakesFacts DEF HandlerTypeOK
  <2>6. ListsInv'
    <3>1. changes' = <<>> /\ dead' = <<>> /\ todo' = {}
      BY <2>1, <2>2, RemoveSnakesFacts
    <3> QED  BY <3>1, <2>2 DEF ListsInv
  <2> QED  BY <2>3, <2>4, <2>5, <2>6
<1>14. CASE UNCHANGED vars
  <2>1. ClientTypeOK' /\ WorldTypeOK' /\ HandlerTypeOK'
    BY <1>14 DEF vars, clientVars, worldVars, handlerVars,
                 ClientTypeOK, WorldTypeOK, HandlerTypeOK
  <2>2. ListsInv'
    BY <1>14 DEF vars, worldVars, handlerVars, ListsInv
  <2> QED  BY <2>1, <2>2
<1> QED  BY <1>1, <1>2, <1>3, <1>4, <1>5, <1>6, <1>7, <1>8, <1>9, <1>10,
            <1>11, <1>12, <1>13, <1>14 DEF Next, TimerStep

\* The fields of the server and of the world keep their types.
THEOREM TypeCorrect == Spec => []TypeOK
<1>1. Spec => [](TypeOK /\ ListsInv)
  BY InitTypeOK, StepTypeOK, PTL DEF Spec
<1> QED  BY <1>1, PTL

\* The pointers TickSnakes collects are still valid and still unique when
\* BroadcastUpdates follows them, whatever joins and leaves between ticks.
THEOREM ChangesStayLive == Spec => []ChangesAreLive
<1>1. Spec => [](TypeOK /\ ListsInv)
  BY InitTypeOK, StepTypeOK, PTL DEF Spec
<1>2. TypeOK /\ ListsInv => ChangesAreLive
  BY DEF ListsInv, ChangesAreLive
<1> QED  BY <1>1, <1>2, PTL

-----------------------------------------------------------------------------
(* Nothing is pending between handlers *)

\* A step that leaves a snake's bits and what is pending alone.
LEMMA QuietFrame ==
  ASSUME NEW s, QuietSnake(s),
         snakes'[s].update = snakes[s].update, snakes'[s].bot = snakes[s].bot,
         Pending(s)' <=> Pending(s),
         \A n \in 1 .. Len(dead) : n \in 1 .. Len(dead') /\ dead'[n] = dead[n]
  PROVE  QuietSnake(s)'
BY DEF QuietSnake, Halted

\* No snake waits for a broadcast when changes is empty.
LEMMA NothingPending ==
  ASSUME changes = <<>>, NEW s
  PROVE  ~Pending(s)
BY DEF Pending

\* The bots are created without pending bits.
LEMMA InitQuiet == Init => QuietInv
<1> SUFFICES ASSUME Init, NEW s \in DOMAIN snakes PROVE QuietSnake(s)
  BY DEF QuietInv
<1>1. snakes[s].update = {}
  BY DEF Init
<1> QED  BY <1>1 DEF QuietSnake, Halted

\* Tick of a snake with nothing pending: every move is reported.
LEMMA TickedFacts ==
  ASSUME NEW update \in SUBSET Flags, NEW chg \in SUBSET Moves,
         NEW aims \in BOOLEAN, NEW ate \in BOOLEAN,
         update \cap Moves = {}, update \cap {"dying", "dead"} = {}
  PROVE  LET res == Ticked(update, chg, aims, ate)
         IN  /\ res.update \cap {"dying", "dead"} = {}
             /\ ~res.reported => res.update \cap Moves = {}
<1> DEFINE base == update \cup (IF aims THEN {"wangle"} ELSE {})
                          \cup (IF ate THEN {"fullness"} ELSE {})
<1>1. base \cap Moves = {} /\ base \cap {"dying", "dead"} = {}
  BY DEF Moves
<1>2. chg # {} => chg # base
  BY <1>1
<1>3. chg \cap {"dying", "dead"} = {}
  BY DEF Moves
<1>4. Ticked(update, chg, aims, ate) =
        [reported |-> chg # {} /\ chg # base,
         update   |-> IF chg # {} /\ chg # base THEN base \cup chg ELSE base]
  BY DEF Ticked
<1> HIDE DEF base
<1>5. CASE chg = {}
  BY <1>1, <1>4, <1>5
<1>6. CASE chg # {}
  <2>1. Ticked(update, chg, aims, ate) = [reported |-> TRUE, update |-> base \cup chg]
    BY <1>2, <1>4, <1>6
  <2>2. Ticked(update, chg, aims, ate).update = base \cup chg
    BY <2>1
  <2>3. Ticked(update, chg, aims, ate).reported
    BY <2>1
  <2> QED  BY <1>1, <1>3, <2>2, <2>3
<1> QED  BY <1>5, <1>6

\* Every step keeps every snake quiet or pending.
LEMMA StepQuiet ==
  TypeOK /\ ListsInv /\ QuietInv /\ [Next]_vars => QuietInv'
<1> SUFFICES ASSUME TypeOK, ListsInv, QuietInv, [Next]_vars,
                    NEW x \in DOMAIN snakes'
             PROVE  QuietSnake(x)'
  BY DEF QuietInv
<1>0. TypeOK' /\ ListsInv'
  BY StepTypeOK
<1>1. ASSUME NEW h \in fresh, on_open(h)
      PROVE  QuietSnake(x)'
  <2>1. changes = <<>> /\ changes' = <<>> /\ dead' = dead
    BY <1>1 DEF on_open, handlerVars, ListsInv
  <2>2. PICK S \in SUBSET Sectors :
          snakes' = Insert(snakes, NextId,
                           [bot |-> FALSE, update |-> {}, sectors |-> S])
    BY <1>1 DEF on_open, CreateAndAddSnake
  <2>3. CASE x \in DOMAIN snakes
    <3>1. snakes'[x] = snakes[x]
      BY <2>2, <2>3 DEF Insert, Assign
    <3>2. ~Pending(x) /\ ~Pending(x)'
      BY <2>1 DEF Pending
    <3> QED  BY <2>1, <2>3, <3>1, <3>2 DEF QuietInv, QuietSnake, Halted
  <2>4. CASE x \notin DOMAIN snakes
    <3>1. snakes'[x].update = {}
      BY <2>2, <2>4 DEF Insert, Assign
    <3> QED  BY <3>1 DEF QuietSnake, Halted
  <2> QED  BY <2>3, <2>4
<1>2. ASSUME NEW h \in DOMAIN sessions, NEW steers \in BOOLEAN,
             on_message(h, steers)
      PROVE  QuietSnake(x)'
  <2> DEFINE id == sessions[h]
  <2>1. changes = <<>> /\ changes' = <<>> /\ dead' = dead
    BY <1>2 DEF on_message, handlerVars, ListsInv
  <2>2. ~Pending(x) /\ ~Pending(x)'
    BY <2>1 DEF Pending
  <2>3. CASE snakes' = snakes
    BY <2>1, <2>2, <2>3 DEF QuietInv, QuietSnake, Halted
  <2>4. CASE snakes' # snakes
    <3>1. /\ id \in DOMAIN snakes
          /\ snakes' = [snakes EXCEPT ![id].update = Steered(snakes[id].update)]
      BY <1>2, <2>4 DEF on_message
    <3>2. Steered(snakes[id].update) \in SUBSET Flags
      BY <3>1 DEF TypeOK, WorldTypeOK, Snake, Steered, Flags
    <3>3. /\ x \in DOMAIN snakes
          /\ snakes'[x].bot = snakes[x].bot
          /\ \/ snakes'[x].update = snakes[x].update
             \/ snakes'[x].update = snakes[x].update \cup {"wangle"}
      BY <3>1, <3>2, FlagsFacts DEF Steered
    <3> QED  BY <2>1, <2>2, <3>3 DEF QuietInv, QuietSnake, Halted, Moves
  <2> QED  BY <2>3, <2>4
<1>3. ASSUME NEW h \in DOMAIN sessions, on_close(h)
      PROVE  QuietSnake(x)'
  <2>1. changes = <<>> /\ dead' = dead /\ RemoveSnakes({sessions[h]})
    BY <1>3 DEF on_close, ListsInv
  <2>2. changes' = <<>> /\ x \in DOMAIN snakes /\ snakes'[x] = snakes[x]
    BY <2>1, RemoveSnakesFacts
  <2>3. ~Pending(x) /\ ~Pending(x)'
    BY <2>1, <2>2 DEF Pending
  <2> QED  BY <2>1, <2>2, <2>3 DEF QuietInv, QuietSnake, Halted
<1>4. CASE on_timer \/ on_timer_error \/ TickDone
            \/ \E s \in todo : SkipSnake(s)
  <2>1. /\ UNCHANGED <<snakes, changes, dead>>
        /\ phase # "broadcast" /\ phase' # "broadcast"
    BY <1>4 DEF on_timer, on_timer_error, TickDone, SkipSnake, worldVars
  <2>2. Pending(x)' <=> Pending(x)
    BY <2>1 DEF Pending
  <2> QED  BY <2>1, <2>2, QuietFrame DEF QuietInv
<1>5. ASSUME NEW s \in todo, TickSnake(s)
      PROVE  QuietSnake(x)'
  <2>1. s \in DOMAIN snakes /\ phase = "tick" /\ phase' = "tick" /\ dead' = dead
    BY <1>5 DEF TickSnake, ListsInv
  <2>2. PICK chg \in SUBSET Moves, aims \in BOOLEAN, ate \in BOOLEAN,
             S \in SUBSET Sectors :
          Tick(s, chg, aims, ate, S)
    BY <1>5 DEF TickSnake
  <2> DEFINE res == Ticked(snakes[s].update, chg, aims, ate)
  <2>3. snakes[s].update \in SUBSET Flags
    BY <2>1 DEF TypeOK, WorldTypeOK, Snake
  <2>4. res.update \in SUBSET Flags
    BY <2>3 DEF Ticked, Flags
  <2>5. /\ x \in DOMAIN snakes
        /\ snakes'[x].bot = snakes[x].bot
        /\ x = s => snakes'[x].update = res.update
        /\ x # s => snakes'[x] = snakes[x]
    BY <2>2, <2>4, MoveFacts DEF Tick
  <2>6. changes' = IF res.reported THEN Append(changes, s) ELSE changes
    BY <2>2 DEF Tick
  <2>7. changes \in Seq(Ids) /\ s \in Ids
    BY <2>1 DEF TypeOK, HandlerTypeOK, WorldTypeOK
  <2>8. CASE x # s
    <3>1. Pending(x)' <=> Pending(x)
      BY <2>1, <2>6, <2>7, <2>8 DEF Pending
    <3> QED  BY <2>1, <2>5, <2>8, <3>1, QuietFrame DEF QuietInv
  <2>9. CASE x = s
    <3>1. ~Pending(s)
      BY <1>5 DEF Pending, ListsInv
    <3>2. snakes[s].update \cap {"dying", "dead"} = {}
      BY <1>5 DEF TickSnake, Halted
    <3>3. snakes[s].update \cap Moves = {}
      BY <2>1, <3>1, <3>2 DEF QuietInv, QuietSnake, Halted
    <3>4. /\ res.update \cap {"dying", "dead"} = {}
          /\ ~res.reported => res.update \cap Moves = {}
      BY <2>3, <3>2, <3>3, TickedFacts
    <3>5. res.reported => Pending(s)'
      <4> SUFFICES ASSUME res.reported PROVE Pending(s)'
        OBVIOUS
      <4>1. /\ Len(changes) + 1 \in 1 .. Len(changes')
            /\ changes'[Len(changes) + 1] = s
        BY <2>6, <2>7
      <4> QED  BY <2>1, <4>1 DEF Pending
    <3> QED  BY <2>5, <2>9, <3>4, <3>5 DEF QuietSnake, Halted
  <2> QED  BY <2>8, <2>9
<1>6. CASE BoundsStep
  <2> DEFINE s == changes[cursor]
  <2>1. s \in DOMAIN snakes /\ cursor \in 1 .. Len(changes)
    BY <1>6, CursorFacts DEF BoundsStep
  <2>2. CheckSnakeBounds(s)
    BY <1>6 DEF BoundsStep
  <2>3. UNCHANGED <<changes, dead, phase>> /\ phase = "bounds"
    BY <1>6 DEF BoundsStep
  <2>4. Pending(x)' <=> Pending(x)
    BY <2>3 DEF Pending
  <2>5. Pending(s)
    BY <2>1, <2>3 DEF Pending
  <2>6. CASE snakes' = snakes
    BY <2>3, <2>4, <2>6, QuietFrame DEF QuietInv
  <2>7. CASE snakes' = [snakes EXCEPT
                          ![s].update = snakes[s].update \cup {"dying"}]
    <3>1. /\ x \in DOMAIN snakes
          /\ snakes'[x].bot = snakes[x].bot
          /\ x = s => snakes'[x].update = snakes[x].update \cup {"dying"}
          /\ x # s => snakes'[x].update = snakes[x].update
      BY <2>7, <2>1, <2>2, CheckFacts, FlagsFacts
    <3>2. CASE x = s
      BY <2>3, <2>4, <2>5, <3>1, <3>2 DEF QuietInv, QuietSnake
    <3>3. CASE x # s
      BY <2>3, <2>4, <3>1, <3>3, QuietFrame DEF QuietInv
    <3> QED  BY <3>2, <3>3
  <2> QED  BY <2>1, <2>2, <2>6, <2>7, CheckFacts
<1>7. CASE BoundsDone
  <2>1. /\ UNCHANGED <<snakes, changes, dead>>
        /\ phase = "bounds" /\ phase' = "broadcast" /\ cursor' = 1
    BY <1>7 DEF BoundsDone, worldVars
  <2>2. Pending(x)' <=> Pending(x)
    BY <2>1 DEF Pending, TypeOK, HandlerTypeOK
  <2> QED  BY <2>1, <2>2, QuietFrame DEF QuietInv
<1>8. CASE BroadcastStep
  <2>0. PICK s : s = changes[cursor]
    OBVIOUS
  <2>1. /\ s \in DOMAIN snakes /\ s \in Ids /\ snakes[s] \in Snake
        /\ cursor \in 1 .. Len(changes)
    BY <1>8, <2>0, CursorFacts DEF BroadcastStep
  <2>2. /\ UNCHANGED <<changes, phase>> /\ cursor' = cursor + 1
        /\ phase = "broadcast"
    BY <1>8 DEF BroadcastStep
  <2>3. Pending(s)
    BY <2>0, <2>1, <2>2 DEF Pending
  <2>4. "dead" \notin snakes[s].update
    BY <2>1, <2>3 DEF QuietInv, QuietSnake
  <2>5. \/ "dying" \in snakes[s].update /\ BroadcastDeath(s)
        \/ "dying" \notin snakes[s].update /\ BroadcastMove(s)
    BY <1>8, <2>0, <2>4 DEF BroadcastStep
  <2>6. ~Pending(s)'
    BY <2>0, <2>1, <2>2 DEF Pending, ListsInv
  <2>7. dead \in Seq(Ids)
    BY DEF TypeOK, HandlerTypeOK
  <2>8. x # s => (Pending(x)' <=> Pending(x))
    BY <2>0, <2>1, <2>2 DEF Pending, TypeOK, HandlerTypeOK
  <2>9. CASE "dying" \in snakes[s].update /\ BroadcastDeath(s)
    <3>1. snakes[s].update \cup {"dead"} \in SUBSET Flags
      BY <2>1 DEF Snake, Flags
    <3>2. snakes' = [snakes EXCEPT ![s].update = snakes[s].update \cup {"dead"}]
      BY <2>9 DEF BroadcastDeath
    <3>3. /\ x \in DOMAIN snakes
          /\ snakes'[x].bot = snakes[x].bot
          /\ x = s => snakes'[x].update = snakes[x].update \cup {"dead"}
          /\ x # s => snakes'[x].update = snakes[x].update
      BY <3>1, <3>2, FlagsFacts
    <3>4. /\ \A n \in 1 .. Len(dead) : n \in 1 .. Len(dead') /\ dead'[n] = dead[n]
          /\ snakes[s].bot => \E n \in 1 .. Len(dead') : dead'[n] = s
      <4>1. CASE snakes[s].bot
        <5>1. dead' = Append(dead, s)
          BY <2>9, <4>1 DEF BroadcastDeath
        <5>2. /\ Len(dead') = Len(dead) + 1 /\ Len(dead) \in Nat
              /\ dead'[Len(dead) + 1] = s
              /\ \A n \in 1 .. Len(dead) : dead'[n] = dead[n]
          BY <5>1, <2>1, <2>7
        <5> QED  BY <5>2
      <4>2. CASE ~snakes[s].bot
        BY <2>9, <4>2 DEF BroadcastDeath
      <4> QED  BY <4>1, <4>2
    <3>5. CASE x = s
      BY <2>6, <3>3, <3>4, <3>5 DEF QuietSnake, Halted
    <3>6. CASE x # s
      BY <2>8, <3>3, <3>4, <3>6, QuietFrame DEF QuietInv
    <3> QED  BY <3>5, <3>6
  <2>10. CASE "dying" \notin snakes[s].update /\ BroadcastMove(s)
    <3>1. snakes[s].update \ Sent(s) \in SUBSET Flags
      BY <2>1 DEF Snake
    <3>2. /\ snakes' = [snakes EXCEPT ![s].update = snakes[s].update \ Sent(s)]
          /\ dead' = dead
      BY <2>10 DEF BroadcastMove
    <3>3. /\ x \in DOMAIN snakes
          /\ snakes'[x].bot = snakes[x].bot
          /\ x = s => snakes'[x].update = snakes[x].update \ Sent(s)
          /\ x # s => snakes'[x].update = snakes[x].update
      BY <3>1, <3>2, FlagsFacts
    <3>4. (snakes[s].update \ Sent(s)) \cap Moves = {}
      BY DEF Sent
    <3>5. CASE x = s
      BY <2>4, <2>6, <2>10, <3>3, <3>4, <3>5 DEF QuietSnake, Halted
    <3>6. CASE x # s
      BY <2>8, <3>2, <3>3, <3>6, QuietFrame DEF QuietInv
    <3> QED  BY <3>5, <3>6
  <2> QED  BY <2>5, <2>9, <2>10
<1>9. CASE BroadcastDone
  <2>1. /\ UNCHANGED <<snakes, dead>> /\ changes' = <<>>
        /\ phase = "broadcast" /\ cursor > Len(changes)
    BY <1>9 DEF BroadcastDone, worldVars
  <2>2. ~Pending(x)'
    BY <2>1 DEF Pending
  <2>3. ~Pending(x)
    BY <2>1 DEF Pending, TypeOK, HandlerTypeOK
  <2> QED  BY <2>1, <2>2, <2>3, QuietFrame DEF QuietInv
<1>10. CASE RemoveDeadSnakes
  <2> DEFINE ids == {dead[n] : n \in 1 .. Len(dead)}
  <2>1. changes = <<>> /\ RemoveSnakes(ids)
    BY <1>10 DEF RemoveDeadSnakes, ListsInv
  <2>2. /\ changes' = <<>>
        /\ x \in DOMAIN snakes /\ x \notin ids /\ snakes'[x] = snakes[x]
    <3> HIDE DEF ids
    <3>1. /\ changes' = <<>>
          /\ DOMAIN snakes' = DOMAIN snakes \ ids
          /\ \A y \in DOMAIN snakes \ ids : snakes'[y] = snakes[y]
      BY <2>1, RemoveSnakesFacts
    <3> QED  BY <3>1
  <2>3. ~Pending(x) /\ ~Pending(x)'
    BY <2>1, <2>2 DEF Pending
  <2>4. ~("dead" \in snakes[x].update /\ snakes[x].bot)
    BY <2>2 DEF QuietInv, QuietSnake
  <2> QED  BY <2>2, <2>3, <2>4 DEF QuietInv, QuietSnake, Halted
<1>11. CASE UNCHANGED vars
  <2>1. UNCHANGED <<snakes, changes, dead, phase, cursor>>
    BY <1>11 DEF vars, worldVars, handlerVars
  <2>2. Pending(x)' <=> Pending(x)
    BY <2>1 DEF Pending
  <2> QED  BY <2>1, <2>2, QuietFrame DEF QuietInv
<1> QED  BY <1>1, <1>2, <1>3, <1>4, <1>5, <1>6, <1>7, <1>8, <1>9, <1>10,
            <1>11 DEF Next, TimerStep

\* Between two handlers no update is pending, every death has been announced
\* and every dead bot has been removed.
THEOREM QuietBetweenHandlers == Spec => []QuietWhenIdle
<1>1. Spec => [](TypeOK /\ ListsInv /\ QuietInv)
  BY InitTypeOK, StepTypeOK, InitQuiet, StepQuiet, PTL DEF Spec
<1>2. TypeOK /\ ListsInv /\ QuietInv => QuietWhenIdle
  <2> SUFFICES ASSUME ListsInv, QuietInv, phase = "idle" PROVE QuietWhenIdle!2
    BY DEF QuietWhenIdle
  <2>1. changes = <<>> /\ dead = <<>>
    BY DEF ListsInv
  <2> QED  BY <2>1, NothingPending DEF QuietInv, QuietSnake
<1> QED  BY <1>1, <1>2, PTL

-----------------------------------------------------------------------------
(* The maps, the sectors and the world agree *)

\* The bots world.Init creates are in their sectors, and there is no session.
LEMMA InitWorld == Init => WorldInv
<1> SUFFICES ASSUME Init PROVE WorldMatch
  BY DEF WorldInv
<1>1. /\ DOMAIN snakes = 1 .. lastSnakeId
      /\ \A s \in DOMAIN snakes : snakes[s].bot
  BY DEF Init
<1>2. DOMAIN sessions = {} /\ stale = {} /\ ~ub
  BY DEF Init, EmptyMap
<1>3. \A c \in Sectors : boxes[c] = {s \in DOMAIN snakes : c \in snakes[s].sectors}
  BY <1>1 DEF Init
<1>4. SessionsMatch
  BY <1>1, <1>2 DEF SessionsMatch
<1> QED  BY <1>1, <1>2, <1>3, <1>4 DEF WorldMatch, IdsMatch, SectorsMatch

\* A step that changes only the bits of snakes keeps the agreement.
LEMMA WorldFrame ==
  ASSUME TypeOK, WorldMatch, ~ub',
         UNCHANGED <<fresh, sessions, connections, lastSnakeId, boxes, stale>>,
         DOMAIN snakes' = DOMAIN snakes,
         \A x \in DOMAIN snakes : /\ snakes'[x].bot = snakes[x].bot
                                  /\ snakes'[x].sectors = snakes[x].sectors
  PROVE  WorldMatch'
<1>1. IdsMatch'
  BY DEF WorldMatch, IdsMatch
<1>2. SessionsMatch'
  BY DEF WorldMatch, SessionsMatch, HasSession
<1>3. SectorsMatch'
  BY DEF WorldMatch, SectorsMatch
<1> QED  BY <1>1, <1>2, <1>3 DEF WorldMatch

\* Removing snakes that no remaining session owns keeps the agreement.
LEMMA RemoveKeepsSectors ==
  ASSUME TypeOK, WorldMatch, changes = <<>>, NEW ids, RemoveSnakes(ids),
         stale' = stale
  PROVE  SectorsMatch' /\ ~ub'
<1>1. /\ DOMAIN snakes' = DOMAIN snakes \ ids
      /\ \A x \in DOMAIN snakes \ ids : snakes'[x] = snakes[x]
  BY RemoveSnakesFacts
<1>2. \A c \in Sectors :
        boxes'[c] = boxes[c] \ {i \in ids \cap DOMAIN snakes : c \in snakes[i].sectors}
  BY DEF RemoveSnakes
<1>3. stale = {} /\ \A c \in Sectors :
        boxes[c] = {s \in DOMAIN snakes : c \in snakes[s].sectors}
  BY DEF WorldMatch, SectorsMatch
<1>4. ~ub'
  BY <1>3 DEF RemoveSnakes
<1>5. \A c \in Sectors :
        boxes'[c] = {s \in DOMAIN snakes' : c \in snakes'[s].sectors}
  BY <1>1, <1>2, <1>3
<1> QED  BY <1>3, <1>4, <1>5 DEF SectorsMatch

\* Every step that does not overflow the counter keeps the maps, the sectors
\* and the world in agreement.
LEMMA StepWorld ==
  TypeOK /\ ListsInv /\ WorldInv /\ [Next]_vars => WorldInv'
<1> SUFFICES ASSUME TypeOK, ListsInv, WorldInv, [Next]_vars, ~wrapped'
             PROVE  WorldMatch'
  BY DEF WorldInv
<1>0. ~wrapped => WorldMatch
  BY DEF WorldInv
<1>1. ASSUME NEW h \in fresh, on_open(h)
      PROVE  WorldMatch'
  <2>1. PICK S \in SUBSET Sectors : CreateAndAddSnake(S)
    BY <1>1 DEF on_open
  <2>2. ~wrapped /\ NextId # 0
    BY <2>1 DEF CreateAndAddSnake
  <2>3. WorldMatch
    BY <1>0, <2>2
  <2>4. NextId = lastSnakeId + 1 /\ lastSnakeId \in Nat
    BY <2>2, NextIdType DEF TypeOK, WorldTypeOK, Ids
  <2>5. NextId \notin DOMAIN snakes
    BY <2>3, <2>4 DEF WorldMatch, IdsMatch
  <2> DEFINE new == [bot |-> FALSE, update |-> {}, sectors |-> S]
  <2>6. /\ DOMAIN snakes' = DOMAIN snakes \cup {NextId}
        /\ snakes'[NextId] = new
        /\ \A x \in DOMAIN snakes : snakes'[x] = snakes[x]
    BY <2>1, <2>5 DEF CreateAndAddSnake, Insert, Assign
  <2>7. /\ DOMAIN sessions' = DOMAIN sessions \cup {h}
        /\ sessions'[h] = NextId
        /\ \A k \in DOMAIN sessions \ {h} : sessions'[k] = sessions[k]
    BY <1>1 DEF on_open, Assign
  <2>8. /\ DOMAIN connections' = DOMAIN connections \cup {NextId}
        /\ connections'[NextId] = h
        /\ \A x \in DOMAIN connections \ {NextId} : connections'[x] = connections[x]
    BY <1>1 DEF on_open, Assign
  <2>9. h \notin DOMAIN sessions
    BY <2>3 DEF WorldMatch, IdsMatch
  <2>10. IdsMatch'
    <3>1. lastSnakeId' = NextId /\ fresh' = fresh \ {h}
      BY <1>1, <2>1 DEF on_open, CreateAndAddSnake
    <3> QED  BY <2>3, <2>4, <2>6, <2>7, <3>1 DEF WorldMatch, IdsMatch
  <2>11. SessionsMatch'
    <3>1. ASSUME NEW k \in DOMAIN sessions'
          PROVE  /\ sessions'[k] \in DOMAIN snakes' /\ ~snakes'[sessions'[k]].bot
                 /\ sessions'[k] \in DOMAIN connections'
                 /\ connections'[sessions'[k]] = k
      <4>1. CASE k = h
        BY <4>1, <2>6, <2>7, <2>8
      <4>2. CASE k # h
        BY <4>2, <2>3, <2>5, <2>6, <2>7, <2>8 DEF WorldMatch, SessionsMatch
      <4> QED  BY <4>1, <4>2
    <3>2. ASSUME NEW s \in DOMAIN snakes', ~snakes'[s].bot
          PROVE  /\ s \in DOMAIN connections' /\ connections'[s] \in DOMAIN sessions'
                 /\ sessions'[connections'[s]] = s
      <4>1. CASE s = NextId
        BY <4>1, <2>7, <2>8
      <4>2. CASE s # NextId
        BY <4>2, <3>2, <2>3, <2>6, <2>7, <2>8, <2>9
        DEF WorldMatch, SessionsMatch, HasSession
      <4> QED  BY <4>1, <4>2
    <3> QED  BY <3>1, <3>2 DEF SessionsMatch, HasSession
  <2>12. SectorsMatch'
    <3>1. /\ stale' = stale
          /\ \A c \in Sectors : boxes'[c] = IF c \in S THEN boxes[c] \cup {NextId}
                                                     ELSE boxes[c]
      BY <2>1, <2>5 DEF CreateAndAddSnake
    <3>2. stale = {} /\ \A c \in Sectors :
            boxes[c] = {s \in DOMAIN snakes : c \in snakes[s].sectors}
      BY <2>3 DEF WorldMatch, SectorsMatch
    <3>3. snakes'[NextId].sectors = S
      BY <2>6
    <3>4. ASSUME NEW c \in Sectors
          PROVE  boxes'[c] = {s \in DOMAIN snakes' : c \in snakes'[s].sectors}
      <4>1. \A x : x \in boxes'[c] <=> x \in boxes[c] \/ (x = NextId /\ c \in S)
        <5>1. CASE c \in S
          BY <3>1, <5>1
        <5>2. CASE c \notin S
          <6>1. boxes'[c] = boxes[c]
            BY <3>1, <5>2
          <6> QED  BY <5>2, <6>1
        <5> QED  BY <5>1, <5>2
      <4>2. \A x : x \in boxes[c] <=> x \in DOMAIN snakes /\ c \in snakes[x].sectors
        BY <3>2
      <4>3. \A x : x \in boxes'[c] <=> x \in DOMAIN snakes' /\ c \in snakes'[x].sectors
        <5>1. ASSUME NEW x, x # NextId
              PROVE  x \in boxes'[c] <=> x \in DOMAIN snakes' /\ c \in snakes'[x].sectors
          <6>1. x \in boxes'[c] <=> x \in boxes[c]
            BY <4>1, <5>1
          <6>2. x \in DOMAIN snakes' <=> x \in DOMAIN snakes
            BY <2>6, <5>1
          <6>3. x \in DOMAIN snakes => snakes'[x] = snakes[x]
            BY <2>6
          <6>4. x \in boxes[c] <=> x \in DOMAIN snakes /\ c \in snakes[x].sectors
            BY <4>2
          <6> QED  BY <6>1, <6>2, <6>3, <6>4
        <5>2. NextId \in boxes'[c] <=> NextId \in DOMAIN snakes' /\ c \in snakes'[NextId].sectors
          BY <4>1, <4>2, <2>5, <2>6, <3>3
        <5> QED  BY <5>1, <5>2
      <4> QED  BY <4>3
    <3> QED  BY <3>1, <3>2, <3>4 DEF SectorsMatch
  <2>13. ~ub'
    BY <1>1, <2>3 DEF on_open, WorldMatch
  <2> QED  BY <2>10, <2>11, <2>12, <2>13 DEF WorldMatch
<1>2. ASSUME NEW h \in DOMAIN sessions, NEW steers \in BOOLEAN,
             on_message(h, steers)
      PROVE  WorldMatch'
  <2> DEFINE id == sessions[h]
  <2>1. /\ UNCHANGED <<fresh, sessions, connections, lastSnakeId, boxes, stale>>
        /\ ~wrapped
    BY <1>2 DEF on_message, clientVars
  <2>2. WorldMatch /\ id \in DOMAIN snakes
    BY <1>0, <2>1 DEF WorldMatch, SessionsMatch
  <2>3. ~ub'
    BY <1>2, <2>2 DEF on_message
  <2>4. CASE snakes' = snakes
    BY <2>1, <2>2, <2>3, <2>4, WorldFrame
  <2>5. CASE snakes' # snakes
    <3>1. snakes' = [snakes EXCEPT ![id].update = Steered(snakes[id].update)]
      BY <1>2, <2>5 DEF on_message
    <3>2. Steered(snakes[id].update) \in SUBSET Flags
      BY <2>2 DEF TypeOK, WorldTypeOK, Snake, Steered, Flags
    <3>3. /\ DOMAIN snakes' = DOMAIN snakes
          /\ \A x \in DOMAIN snakes : /\ snakes'[x].bot = snakes[x].bot
                                       /\ snakes'[x].sectors = snakes[x].sectors
      BY <3>1, <3>2, FlagsFacts
    <3> QED  BY <2>1, <2>2, <2>3, <3>3, WorldFrame
  <2> QED  BY <2>4, <2>5
<1>3. ASSUME NEW h \in DOMAIN sessions, on_close(h)
      PROVE  WorldMatch'
  <2> DEFINE id == sessions[h]
  <2>1. /\ UNCHANGED <<fresh, lastSnakeId, wrapped, stale>>
        /\ changes = <<>> /\ RemoveSnakes({id})
    BY <1>3 DEF on_close, ListsInv
  <2>2. WorldMatch
    BY <1>0, <2>1
  <2>3. SectorsMatch' /\ ~ub'
    BY <2>1, <2>2, RemoveKeepsSectors
  <2>4. /\ DOMAIN sessions' = DOMAIN sessions \ {h}
        /\ \A k \in DOMAIN sessions \ {h} : sessions'[k] = sessions[k]
    BY <1>3 DEF on_close, Erase
  <2>5. /\ DOMAIN snakes' = DOMAIN snakes \ {id}
        /\ \A x \in DOMAIN snakes \ {id} : snakes'[x] = snakes[x]
        /\ DOMAIN connections' = DOMAIN connections \ {id}
        /\ \A x \in DOMAIN connections \ {id} : connections'[x] = connections[x]
    BY <2>1, RemoveSnakesFacts
  <2>6. \A k \in DOMAIN sessions \ {h} : sessions[k] # id
    BY <2>2 DEF WorldMatch, SessionsMatch
  <2>7. \A s \in DOMAIN snakes \ {id} : ~snakes[s].bot => connections[s] # h
    BY <2>2 DEF WorldMatch, SessionsMatch
  <2>8. IdsMatch'
    BY <2>1, <2>2, <2>4, <2>5 DEF WorldMatch, IdsMatch
  <2> HIDE DEF id
  <2>9. SessionsMatch'
    <3>1. ASSUME NEW k \in DOMAIN sessions'
          PROVE  /\ sessions'[k] \in DOMAIN snakes' /\ ~snakes'[sessions'[k]].bot
                 /\ sessions'[k] \in DOMAIN connections'
                 /\ connections'[sessions'[k]] = k
      BY <2>2, <2>4, <2>5, <2>6 DEF WorldMatch, SessionsMatch
    <3>2. ASSUME NEW s \in DOMAIN snakes', ~snakes'[s].bot
          PROVE  /\ s \in DOMAIN connections' /\ connections'[s] \in DOMAIN sessions'
                 /\ sessions'[connections'[s]] = s
      BY <3>2, <2>2, <2>4, <2>5, <2>7 DEF WorldMatch, SessionsMatch, HasSession
    <3> QED  BY <3>1, <3>2 DEF SessionsMatch, HasSession
  <2> QED  BY <2>3, <2>8, <2>9 DEF WorldMatch
<1>4. CASE on_timer \/ on_timer_error \/ TickDone \/ BoundsDone \/ BroadcastDone
            \/ UNCHANGED vars \/ \E s \in todo : SkipSnake(s)
  <2>1. UNCHANGED <<fresh, sessions, connections, lastSnakeId, boxes, stale,
                    snakes, wrapped, ub>>
    BY <1>4 DEF on_timer, on_timer_error, TickDone, BoundsDone, BroadcastDone,
                SkipSnake, vars, clientVars, worldVars
  <2>2. WorldMatch
    BY <1>0, <2>1
  <2>3. ~ub'
    BY <2>1, <2>2 DEF WorldMatch
  <2> QED  BY <2>1, <2>2, <2>3, WorldFrame
<1>5. ASSUME NEW s \in todo, TickSnake(s)
      PROVE  WorldMatch'
  <2>1. /\ s \in DOMAIN snakes
        /\ UNCHANGED <<fresh, sessions, connections, lastSnakeId, stale, wrapped>>
    BY <1>5 DEF TickSnake, ListsInv, clientVars
  <2>2. WorldMatch
    BY <1>0, <2>1
  <2>3. PICK chg \in SUBSET Moves, aims \in BOOLEAN, ate \in BOOLEAN,
             S \in SUBSET Sectors : Tick(s, chg, aims, ate, S)
    BY <1>5 DEF TickSnake
  <2> DEFINE res == Ticked(snakes[s].update, chg, aims, ate)
             old == snakes[s].sectors
  <2>4. res.update \in SUBSET Flags
    BY <2>1 DEF Ticked, Flags, TypeOK, WorldTypeOK, Snake
  <2>5. /\ DOMAIN snakes' = DOMAIN snakes
        /\ \A x \in DOMAIN snakes :
             /\ snakes'[x].bot = snakes[x].bot
             /\ snakes'[x].sectors = IF x = s THEN S ELSE snakes[x].sectors
    BY <2>3, <2>4, MoveFacts DEF Tick
  <2>6. stale = {} /\ \A c \in Sectors :
          boxes[c] = {x \in DOMAIN snakes : c \in snakes[x].sectors}
    BY <2>2 DEF WorldMatch, SectorsMatch
  <2>7. ub' = FALSE
    BY <2>3, <2>6 DEF Tick
  <2>8. \A c \in Sectors : boxes'[c] = CASE c \in S \ old -> boxes[c] \cup {s}
                                         [] c \in old \ S -> boxes[c] \ {s}
                                         [] OTHER         -> boxes[c]
    BY <2>3 DEF Tick
  <2> HIDE DEF res
  <2>9. ASSUME NEW c \in Sectors
        PROVE  boxes'[c] = {x \in DOMAIN snakes' : c \in snakes'[x].sectors}
    <3>1. \A x : x \in boxes[c] <=> x \in DOMAIN snakes /\ c \in snakes[x].sectors
      BY <2>6
    <3>2. \A x : x \in boxes'[c] <=> IF x = s THEN c \in S ELSE x \in boxes[c]
      <4>1. CASE c \in S \ old
        <5>1. boxes'[c] = boxes[c] \cup {s}
          BY <4>1, <2>8
        <5> QED  BY <4>1, <5>1
      <4>2. CASE c \in old \ S
        <5>1. boxes'[c] = boxes[c] \ {s}
          BY <4>2, <2>8
        <5> QED  BY <4>2, <5>1
      <4>3. CASE c \in S <=> c \in old
        <5>1. boxes'[c] = boxes[c]
          BY <4>3, <2>8
        <5> QED  BY <4>3, <5>1, <3>1, <2>1
      <4> QED  BY <4>1, <4>2, <4>3
    <3>3. \A x : x \in boxes'[c] <=> x \in DOMAIN snakes' /\ c \in snakes'[x].sectors
      BY <3>1, <3>2, <2>1, <2>5
    <3> QED  BY <3>3
  <2>10. SectorsMatch'
    BY <2>1, <2>6, <2>9 DEF SectorsMatch
  <2>11. IdsMatch'
    BY <2>1, <2>2, <2>5 DEF WorldMatch, IdsMatch
  <2>12. SessionsMatch'
    BY <2>1, <2>2, <2>5 DEF WorldMatch, SessionsMatch, HasSession
  <2> QED  BY <2>7, <2>10, <2>11, <2>12 DEF WorldMatch
<1>6. CASE BoundsStep
  <2> DEFINE s == changes[cursor]
  <2>1. /\ s \in DOMAIN snakes /\ CheckSnakeBounds(s)
        /\ UNCHANGED <<fresh, sessions, connections, lastSnakeId, boxes, stale,
                       wrapped>>
    BY <1>6, CursorFacts DEF BoundsStep, clientVars
  <2>2. WorldMatch
    BY <1>0, <2>1
  <2>3. ~ub'
    BY <2>1, <2>2 DEF CheckSnakeBounds, WorldMatch, SectorsMatch
  <2>4. CASE snakes' = snakes
    BY <2>1, <2>2, <2>3, <2>4, WorldFrame
  <2>5. CASE snakes' = [snakes EXCEPT
                          ![s].update = snakes[s].update \cup {"dying"}]
    <3>1. /\ DOMAIN snakes' = DOMAIN snakes
          /\ \A x \in DOMAIN snakes : /\ snakes'[x].bot = snakes[x].bot
                                       /\ snakes'[x].sectors = snakes[x].sectors
      BY <2>1, <2>5, CheckFacts, FlagsFacts
    <3> QED  BY <2>1, <2>2, <2>3, <3>1, WorldFrame
  <2> QED  BY <2>1, <2>4, <2>5, CheckFacts
<1>7. CASE BroadcastStep
  <2> DEFINE s == changes[cursor]
  <2>1. /\ s \in DOMAIN snakes /\ snakes[s] \in Snake
        /\ UNCHANGED <<fresh, sessions, connections, lastSnakeId, boxes, stale,
                       wrapped>>
    BY <1>7, CursorFacts DEF BroadcastStep
  <2>2. WorldMatch
    BY <1>0, <2>1
  <2>3. \/ UNCHANGED <<snakes, shown, dead, ub>>
        \/ BroadcastDeath(s)
        \/ BroadcastMove(s)
    BY <1>7 DEF BroadcastStep
  <2>4. snakes[s].bot \/ HasSession(s)
    BY <2>1, <2>2 DEF WorldMatch, SessionsMatch
  <2>5. ~ub'
    BY <2>2, <2>3, <2>4 DEF BroadcastDeath, BroadcastMove, WorldMatch
  <2>6. CASE snakes' = snakes
    BY <2>1, <2>2, <2>5, <2>6, WorldFrame
  <2>7. CASE BroadcastDeath(s)
    <3>1. snakes[s].update \cup {"dead"} \in SUBSET Flags
      BY <2>1 DEF Snake, Flags
    <3>2. snakes' = [snakes EXCEPT ![s].update = snakes[s].update \cup {"dead"}]
      BY <2>7 DEF BroadcastDeath
    <3>3. /\ DOMAIN snakes' = DOMAIN snakes
          /\ \A x \in DOMAIN snakes : /\ snakes'[x].bot = snakes[x].bot
                                       /\ snakes'[x].sectors = snakes[x].sectors
      BY <3>1, <3>2, FlagsFacts
    <3> QED  BY <2>1, <2>2, <2>5, <3>3, WorldFrame
  <2>8. CASE BroadcastMove(s)
    <3>1. snakes[s].update \ Sent(s) \in SUBSET Flags
      BY <2>1 DEF Snake
    <3>2. snakes' = [snakes EXCEPT ![s].update = snakes[s].update \ Sent(s)]
      BY <2>8 DEF BroadcastMove
    <3>3. /\ DOMAIN snakes' = DOMAIN snakes
          /\ \A x \in DOMAIN snakes : /\ snakes'[x].bot = snakes[x].bot
                                       /\ snakes'[x].sectors = snakes[x].sectors
      BY <3>1, <3>2, FlagsFacts
    <3> QED  BY <2>1, <2>2, <2>5, <3>3, WorldFrame
  <2> QED  BY <2>3, <2>6, <2>7, <2>8
<1>8. CASE RemoveDeadSnakes
  <2> DEFINE ids == {dead[n] : n \in 1 .. Len(dead)}
  <2>1. /\ UNCHANGED <<fresh, sessions, lastSnakeId, wrapped, stale>>
        /\ changes = <<>> /\ RemoveSnakes(ids)
    BY <1>8 DEF RemoveDeadSnakes, ListsInv
  <2>2. WorldMatch
    BY <1>0, <2>1
  <2>3. \A s \in ids : s \in DOMAIN snakes /\ snakes[s].bot
    BY DEF ListsInv
  <2> HIDE DEF ids
  <2>4. SectorsMatch' /\ ~ub'
    BY <2>1, <2>2, RemoveKeepsSectors
  <2>5. /\ DOMAIN snakes' = DOMAIN snakes \ ids
        /\ \A x \in DOMAIN snakes \ ids : snakes'[x] = snakes[x]
        /\ DOMAIN connections' = DOMAIN connections \ ids
        /\ \A x \in DOMAIN connections \ ids : connections'[x] = connections[x]
    BY <2>1, RemoveSnakesFacts
  <2>6. IdsMatch'
    BY <2>1, <2>2, <2>5 DEF WorldMatch, IdsMatch
  <2>7. \A k \in DOMAIN sessions : sessions[k] \notin ids
    BY <2>2, <2>3 DEF WorldMatch, SessionsMatch
  <2>8. SessionsMatch'
    BY <2>1, <2>2, <2>5, <2>7 DEF WorldMatch, SessionsMatch, HasSession
  <2> QED  BY <2>4, <2>6, <2>8 DEF WorldMatch
<1> QED  BY <1>1, <1>2, <1>3, <1>4, <1>5, <1>6, <1>7, <1>8 DEF Next, TimerStep

\* The agreement holds in every state up to an overflow.
LEMMA WorldAlways == Spec => []WorldInv
<1>1. Spec => [](TypeOK /\ ListsInv)
  BY InitTypeOK, StepTypeOK, PTL DEF Spec
<1> QED  BY <1>1, InitWorld, StepWorld, PTL DEF Spec

\* As long as ids are fresh, every session's snake is in the world and every
\* player's snake has its session: no lookup by id or handle fails.
THEOREM SessionsAlwaysOwnSnakes == Spec => []SessionsOwnSnakes
<1>1. WorldInv => SessionsOwnSnakes
  BY DEF WorldInv, WorldMatch, SessionsOwnSnakes
<1> QED  BY <1>1, WorldAlways, PTL

\* As long as ids are fresh, the sectors point at exactly the boxes of the
\* snakes of the world.
THEOREM SectorsAlwaysIndexWorld == Spec => []SectorsIndexWorld
<1>1. WorldInv => SectorsIndexWorld
  BY DEF WorldInv, WorldMatch, SectorsIndexWorld
<1> QED  BY <1>1, WorldAlways, PTL

\* As long as ids are fresh, no handler dereferences end() or a freed snake.
THEOREM NoUndefinedBehaviourBeforeWrap == Spec => []NoUndefinedBehaviour
<1>1. WorldInv => NoUndefinedBehaviour
  BY DEF WorldInv, WorldMatch, NoUndefinedBehaviour
<1> QED  BY <1>1, WorldAlways, PTL

-----------------------------------------------------------------------------
(* Clients and the dead *)

\* What makes SnakesInRangeShown inductive: snakes come into range in steps
\* that tell no one, so the client has to draw the others as well.
LiveSnakesShown ==
  \A h \in DOMAIN sessions :
    {s \in DOMAIN snakes : "dead" \notin snakes[s].update} \subseteq shown[h]

\* A step that leaves the bits of the snakes and the clients' views alone, or
\* removes snakes, keeps every live snake on every screen.
LEMMA ShownFrame ==
  ASSUME TypeOK, LiveSnakesShown, DOMAIN sessions' \subseteq DOMAIN sessions,
         \A k \in DOMAIN sessions' : shown'[k] = shown[k],
         DOMAIN snakes' \subseteq DOMAIN snakes,
         \A x \in DOMAIN snakes' :
           "dead" \in snakes[x].update => "dead" \in snakes'[x].update
  PROVE  LiveSnakesShown'
BY DEF LiveSnakesShown

\* What a step does to the bits of the snakes that were there before it and
\* are there after it: it never takes the dead bit away.
LEMMA DeadStaysDead ==
  ASSUME TypeOK, ListsInv, [Next]_vars, NEW x \in DOMAIN snakes,
         x \in DOMAIN snakes', "dead" \in snakes[x].update
  PROVE  "dead" \in snakes'[x].update
<1>1. ASSUME NEW h \in fresh, on_open(h)
      PROVE  "dead" \in snakes'[x].update
  BY <1>1 DEF on_open, CreateAndAddSnake, Insert, Assign
<1>2. ASSUME NEW h \in DOMAIN sessions, NEW steers \in BOOLEAN,
             on_message(h, steers)
      PROVE  "dead" \in snakes'[x].update
  <2> DEFINE id == sessions[h]
  <2>1. CASE snakes' = snakes
    BY <2>1
  <2>2. CASE snakes' # snakes
    <3>1. /\ id \in DOMAIN snakes
          /\ snakes' = [snakes EXCEPT ![id].update = Steered(snakes[id].update)]
      BY <1>2, <2>2 DEF on_message
    <3>2. Steered(snakes[id].update) \in SUBSET Flags
      BY <3>1 DEF TypeOK, WorldTypeOK, Snake, Steered, Flags
    <3>3. \/ snakes'[x].update = snakes[x].update
          \/ snakes'[x].update = snakes[x].update \cup {"wangle"}
      BY <3>1, <3>2, FlagsFacts DEF Steered
    <3> QED  BY <3>3
  <2> QED  BY <2>1, <2>2
<1>3. ASSUME NEW ids, changes = <<>>, RemoveSnakes(ids)
      PROVE  "dead" \in snakes'[x].update
  BY <1>3, RemoveSnakesFacts
<1>4. ASSUME NEW h \in DOMAIN sessions, on_close(h)
      PROVE  "dead" \in snakes'[x].update
  BY <1>3, <1>4 DEF on_close, ListsInv
<1>5. CASE on_timer \/ on_timer_error \/ TickDone \/ BoundsDone \/ BroadcastDone
            \/ UNCHANGED vars \/ \E s \in todo : SkipSnake(s)
  BY <1>5 DEF on_timer, on_timer_error, TickDone, BoundsDone, BroadcastDone,
              SkipSnake, vars, worldVars
<1>6. ASSUME NEW s \in todo, TickSnake(s)
      PROVE  "dead" \in snakes'[x].update
  <2>1. s \in DOMAIN snakes /\ ~Halted(s)
    BY <1>6 DEF TickSnake, ListsInv
  <2>2. x # s
    BY <2>1 DEF Halted
  <2>3. PICK chg \in SUBSET Moves, aims \in BOOLEAN, ate \in BOOLEAN,
             S \in SUBSET Sectors : Tick(s, chg, aims, ate, S)
    BY <1>6 DEF TickSnake
  <2>4. Ticked(snakes[s].update, chg, aims, ate).update \in SUBSET Flags
    BY <2>1 DEF Ticked, Flags, TypeOK, WorldTypeOK, Snake
  <2> QED  BY <2>2, <2>3, <2>4, MoveFacts DEF Tick
<1>7. CASE BoundsStep
  <2> DEFINE s == changes[cursor]
  <2>1. s \in DOMAIN snakes /\ CheckSnakeBounds(s)
    BY <1>7, CursorFacts DEF BoundsStep
  <2>2. CASE snakes' = snakes
    BY <2>2
  <2>3. CASE snakes' = [snakes EXCEPT
                          ![s].update = snakes[s].update \cup {"dying"}]
    <3>1. \/ snakes'[x].update = snakes[x].update
          \/ snakes'[x].update = snakes[x].update \cup {"dying"}
      BY <2>1, <2>3, CheckFacts, FlagsFacts
    <3> QED  BY <3>1
  <2> QED  BY <2>1, <2>2, <2>3, CheckFacts
<1>8. CASE BroadcastStep
  <2> DEFINE s == changes[cursor]
  <2>1. s \in DOMAIN snakes /\ snakes[s] \in Snake
    BY <1>8, CursorFacts DEF BroadcastStep
  <2>2. \/ UNCHANGED <<snakes, shown, dead, ub>>
        \/ "dead" \notin snakes[s].update /\ BroadcastDeath(s)
        \/ "dead" \notin snakes[s].update /\ BroadcastMove(s)
    BY <1>8 DEF BroadcastStep
  <2>3. CASE "dead" \notin snakes[s].update /\ BroadcastDeath(s)
    <3>1. snakes[s].update \cup {"dead"} \in SUBSET Flags
      BY <2>1 DEF Snake, Flags
    <3>2. snakes' = [snakes EXCEPT ![s].update = snakes[s].update \cup {"dead"}]
      BY <2>3 DEF BroadcastDeath
    <3>3. x # s
      BY <2>3
    <3> QED  BY <3>1, <3>2, <3>3, FlagsFacts
  <2>4. CASE "dead" \notin snakes[s].update /\ BroadcastMove(s)
    <3>1. snakes[s].update \ Sent(s) \in SUBSET Flags
      BY <2>1 DEF Snake
    <3>2. snakes' = [snakes EXCEPT ![s].update = snakes[s].update \ Sent(s)]
      BY <2>4 DEF BroadcastMove
    <3>3. x # s
      BY <2>4
    <3> QED  BY <3>1, <3>2, <3>3, FlagsFacts
  <2> QED  BY <2>2, <2>3, <2>4
<1>9. CASE RemoveDeadSnakes
  BY <1>3, <1>9 DEF RemoveDeadSnakes, ListsInv
<1> QED  BY <1>1, <1>2, <1>4, <1>5, <1>6, <1>7, <1>8, <1>9 DEF Next, TimerStep

\* Which steps remove a snake: the reaper removes bots, a closing connection
\* the player it owns.
LEMMA WhoLeaves ==
  ASSUME TypeOK, ListsInv, WorldInv, [Next]_vars, ~wrapped',
         NEW x \in DOMAIN snakes, x \notin DOMAIN snakes'
  PROVE  phase = "reap" <=> snakes[x].bot
<1>1. CASE \E h \in DOMAIN sessions : on_close(h)
  <2>1. PICK h \in DOMAIN sessions : on_close(h)
    BY <1>1
  <2>2. /\ wrapped' = wrapped /\ changes = <<>> /\ phase = "idle"
        /\ RemoveSnakes({sessions[h]})
    BY <2>1 DEF on_close, ListsInv
  <2>3. DOMAIN snakes' = DOMAIN snakes \ {sessions[h]}
    BY <2>2, RemoveSnakesFacts
  <2>4. ~snakes[sessions[h]].bot
    BY <2>2 DEF WorldInv, WorldMatch, SessionsMatch
  <2> QED  BY <2>2, <2>3, <2>4
<1>2. CASE RemoveDeadSnakes
  <2> DEFINE ids == {dead[n] : n \in 1 .. Len(dead)}
  <2>1. changes = <<>> /\ phase = "reap" /\ RemoveSnakes(ids)
    BY <1>2 DEF RemoveDeadSnakes, ListsInv
  <2>2. \A s \in ids : snakes[s].bot
    BY DEF ListsInv
  <2> HIDE DEF ids
  <2>3. DOMAIN snakes' = DOMAIN snakes \ ids
    BY <2>1, RemoveSnakesFacts
  <2> QED  BY <2>1, <2>2, <2>3
<1>3. CASE \E h \in fresh : on_open(h)
  BY <1>3 DEF on_open, CreateAndAddSnake, Insert, Assign
<1>4. CASE \E h \in DOMAIN sessions : \E steers \in BOOLEAN : on_message(h, steers)
  BY <1>4 DEF on_message
<1>5. CASE on_timer \/ on_timer_error \/ TickDone \/ BoundsDone \/ BroadcastDone
            \/ UNCHANGED vars \/ \E s \in todo : SkipSnake(s)
  BY <1>5 DEF on_timer, on_timer_error, TickDone, BoundsDone, BroadcastDone,
              SkipSnake, vars, worldVars
<1>6. CASE \E s \in todo : TickSnake(s)
  BY <1>6 DEF TickSnake, Tick
<1>7. CASE BoundsStep
  BY <1>7 DEF BoundsStep, CheckSnakeBounds, Survives, Dies
<1>8. CASE BroadcastStep
  BY <1>8 DEF BroadcastStep, BroadcastDeath, BroadcastMove
<1> QED  BY <1>1, <1>2, <1>3, <1>4, <1>5, <1>6, <1>7, <1>8 DEF Next, TimerStep

\* A dead snake is never revived, whatever packets its player still sends; a
\* dead player leaves only when its connection closes, a dead bot only when
\* RemoveDeadSnakes collects it.
THEOREM DeathStaysFinal == Spec => DeathIsFinal
<1> DEFINE Final ==
      \A s \in DOMAIN snakes :
        "dead" \in snakes[s].update /\ ~wrapped' =>
          \/ s \in DOMAIN snakes' /\ "dead" \in snakes'[s].update
          \/ s \notin DOMAIN snakes' /\ (phase = "reap" <=> snakes[s].bot)
<1>1. TypeOK /\ ListsInv /\ WorldInv /\ [Next]_vars => [Final]_vars
  BY DeadStaysDead, WhoLeaves
<1>2. Spec => [](TypeOK /\ ListsInv)
  BY InitTypeOK, StepTypeOK, PTL DEF Spec
<1> QED  BY <1>1, <1>2, WorldAlways, PTL DEF Spec, DeathIsFinal

\* No step hides a live snake from a client.
LEMMA StepShown ==
  TypeOK /\ ListsInv /\ LiveSnakesShown /\ [Next]_vars => LiveSnakesShown'
<1> SUFFICES ASSUME TypeOK, ListsInv, LiveSnakesShown, [Next]_vars
             PROVE  LiveSnakesShown'
  OBVIOUS
<1>0. \A x \in DOMAIN snakes \cap DOMAIN snakes' :
        "dead" \in snakes[x].update => "dead" \in snakes'[x].update
  BY DeadStaysDead
<1>1. ASSUME NEW h \in fresh, on_open(h)
      PROVE  LiveSnakesShown'
  <2>1. /\ DOMAIN snakes' = DOMAIN snakes \cup {NextId}
        /\ \A x \in DOMAIN snakes : snakes'[x] = snakes[x]
    BY <1>1 DEF on_open, CreateAndAddSnake, Insert, Assign
  <2>2. /\ DOMAIN sessions' = DOMAIN sessions \cup {h}
        /\ \A k \in DOMAIN sessions' :
             shown'[k] = IF k = h THEN DOMAIN snakes \cup {NextId}
                                  ELSE shown[k] \cup {NextId}
    BY <1>1 DEF on_open, Introduced, Assign
  <2> QED  BY <2>1, <2>2 DEF LiveSnakesShown
<1>2. CASE DOMAIN snakes' \subseteq DOMAIN snakes /\ UNCHANGED <<sessions, shown>>
  BY <1>0, <1>2, ShownFrame
<1>3. ASSUME NEW h \in DOMAIN sessions, NEW steers \in BOOLEAN,
             on_message(h, steers)
      PROVE  LiveSnakesShown'
  BY <1>2, <1>3 DEF on_message, clientVars
<1>4. ASSUME NEW h \in DOMAIN sessions, on_close(h)
      PROVE  LiveSnakesShown'
  <2>1. DOMAIN snakes' \subseteq DOMAIN snakes
    BY <1>4 DEF on_close, RemoveSnakes, Erase
  <2>2. /\ DOMAIN sessions' \subseteq DOMAIN sessions
        /\ \A k \in DOMAIN sessions' : shown'[k] = shown[k]
    BY <1>4 DEF on_close, Erase, TypeOK, ClientTypeOK
  <2> QED  BY <1>0, <2>1, <2>2, ShownFrame
<1>5. CASE on_timer \/ on_timer_error \/ TickDone \/ BoundsDone \/ BroadcastDone
            \/ UNCHANGED vars \/ \E s \in todo : SkipSnake(s)
  <2>1. UNCHANGED <<snakes, sessions, shown>>
    BY <1>5 DEF on_timer, on_timer_error, TickDone, BoundsDone, BroadcastDone,
                SkipSnake, vars, worldVars, clientVars
  <2> QED  BY <1>2, <2>1
<1>6. ASSUME NEW s \in todo, TickSnake(s)
      PROVE  LiveSnakesShown'
  BY <1>2, <1>6 DEF TickSnake, Tick, clientVars
<1>7. CASE BoundsStep
  <2>1. DOMAIN snakes' = DOMAIN snakes
    BY <1>7 DEF BoundsStep, CheckSnakeBounds, Survives, Dies
  <2> QED  BY <1>2, <1>7, <2>1 DEF BoundsStep, clientVars
<1>8. CASE BroadcastStep
  <2> DEFINE s == changes[cursor]
  <2>1. s \in DOMAIN snakes /\ snakes[s] \in Snake /\ UNCHANGED sessions
    BY <1>8, CursorFacts DEF BroadcastStep
  <2>2. CASE BroadcastDeath(s)
    <3>1. snakes[s].update \cup {"dead"} \in SUBSET Flags
      BY <2>1 DEF Snake, Flags
    <3>2. snakes' = [snakes EXCEPT ![s].update = snakes[s].update \cup {"dead"}]
      BY <2>2 DEF BroadcastDeath
    <3>3. DOMAIN snakes' = DOMAIN snakes /\ "dead" \in snakes'[s].update
      <4>1. snakes'[s].update = snakes[s].update \cup {"dead"}
        BY <2>1, <3>1, <3>2, FlagsFacts
      <4> QED  BY <3>2, <4>1
    <3>4. \A k \in DOMAIN sessions : shown'[k] = shown[k] \ {s}
      BY <2>2 DEF BroadcastDeath
    <3> HIDE DEF s
    <3> QED  BY <1>0, <2>1, <3>3, <3>4 DEF LiveSnakesShown
  <2>3. CASE BroadcastMove(s) \/ UNCHANGED <<snakes, shown, dead, ub>>
    BY <1>2, <2>1, <2>3 DEF BroadcastMove
  <2> QED  BY <1>8, <2>2, <2>3 DEF BroadcastStep
<1>9. CASE RemoveDeadSnakes
  <2>1. DOMAIN snakes' \subseteq DOMAIN snakes
    BY <1>9 DEF RemoveDeadSnakes, RemoveSnakes, Erase
  <2> QED  BY <1>2, <1>9, <2>1 DEF RemoveDeadSnakes
<1> QED  BY <1>1, <1>3, <1>4, <1>5, <1>6, <1>7, <1>8, <1>9 DEF Next, TimerStep

\* Whatever comes into a client's range has been introduced to it before: by
\* the on_open of the one of the two that joined last.
THEOREM SnakesInRangeAlwaysShown == Spec => []SnakesInRangeShown
<1>1. Spec => [](TypeOK /\ ListsInv)
  BY InitTypeOK, StepTypeOK, PTL DEF Spec
<1>2. Init => LiveSnakesShown
  BY DEF Init, EmptyMap, LiveSnakesShown
<1>3. LiveSnakesShown => SnakesInRangeShown
  BY DEF LiveSnakesShown, SnakesInRangeShown
<1> QED  BY <1>1, <1>2, <1>3, StepShown, PTL DEF Spec

-----------------------------------------------------------------------------
(* The server implements the arena *)

\* What the mapping needs beyond the invariants above: the list
\* of the dead holds announced deaths only, and a snake whose head has still
\* to be checked in this tick is alive.
AnnouncedInv ==
  \A n \in 1 .. Len(dead) : "dead" \in snakes[dead[n]].update

AheadInv ==
  /\ phase = "tick" => \A n \in 1 .. Len(changes) : ~Halted(changes[n])
  /\ phase = "bounds" => \A n \in cursor .. Len(changes) : ~Halted(changes[n])

-----------------------------------------------------------------------------
(* The two invariants *)

\* Nothing is listed when the server starts.
LEMMA InitArenaInv == Init => AnnouncedInv /\ AheadInv
BY DEF Init, AnnouncedInv, AheadInv

\* The list of the dead grows by the death that is announced in the same step
\* and is emptied with the world.
LEMMA StepAnnounced ==
  TypeOK /\ ListsInv /\ AnnouncedInv /\ [Next]_vars => AnnouncedInv'
<1> SUFFICES ASSUME TypeOK, ListsInv, AnnouncedInv, [Next]_vars
             PROVE  AnnouncedInv'
  OBVIOUS
<1>1. dead \in Seq(Ids)
  BY DEF TypeOK, HandlerTypeOK
<1>2. CASE dead' = dead /\ DOMAIN snakes \subseteq DOMAIN snakes'
  <2> SUFFICES ASSUME NEW n \in 1 .. Len(dead)
               PROVE  "dead" \in snakes'[dead[n]].update
    BY <1>2 DEF AnnouncedInv
  <2>1. dead[n] \in DOMAIN snakes /\ "dead" \in snakes[dead[n]].update
    BY DEF ListsInv, AnnouncedInv
  <2> QED  BY <2>1, <1>2, DeadStaysDead
<1>3. CASE dead' = <<>>
  BY <1>3 DEF AnnouncedInv
<1>4. CASE BroadcastStep
  <2> DEFINE s == changes[cursor]
  <2>1. s \in DOMAIN snakes /\ s \in Ids /\ snakes[s] \in Snake
    BY <1>4, CursorFacts DEF BroadcastStep
  <2>2. DOMAIN snakes' = DOMAIN snakes
    BY <1>4 DEF BroadcastStep, BroadcastDeath, BroadcastMove
  <2>3. CASE dead' = dead
    BY <1>2, <2>2, <2>3
  <2>4. CASE dead' # dead
    <3>1. /\ snakes' = [snakes EXCEPT ![s].update = snakes[s].update \cup {"dead"}]
          /\ dead' = Append(dead, s)
      BY <1>4, <2>4 DEF BroadcastStep, BroadcastDeath, BroadcastMove
    <3>2. snakes[s].update \cup {"dead"} \in SUBSET Flags
      BY <2>1 DEF Snake, Flags
    <3>3. snakes'[s].update = snakes[s].update \cup {"dead"}
      BY <2>1, <3>1, <3>2, FlagsFacts, ZenonT(60)
    <3>4. ASSUME NEW n \in 1 .. Len(dead)
          PROVE  "dead" \in snakes'[dead[n]].update
      BY <2>2, DeadStaysDead DEF ListsInv, AnnouncedInv
    <3>5. /\ Len(dead') = Len(dead) + 1
          /\ \A n \in 1 .. Len(dead') : dead'[n] = IF n <= Len(dead) THEN dead[n] ELSE s
      BY <3>1, <1>1, <2>1
    <3>6. "dead" \in snakes'[s].update
      BY <3>3
    <3> SUFFICES ASSUME NEW n \in 1 .. Len(dead')
                 PROVE  "dead" \in snakes'[dead'[n]].update
      BY DEF AnnouncedInv
    <3>7. Len(dead) \in Nat
      BY <1>1
    <3>8. CASE n <= Len(dead)
      <4>1. n \in 1 .. Len(dead) /\ dead'[n] = dead[n]
        BY <3>5, <3>7, <3>8
      <4> QED  BY <3>4, <4>1
    <3>9. CASE ~(n <= Len(dead))
      <4>1. dead'[n] = s
        BY <3>5, <3>9
      <4> QED  BY <3>6, <4>1
    <3> QED  BY <3>8, <3>9
  <2> QED  BY <2>3, <2>4
<1>5. CASE RemoveDeadSnakes
  BY <1>3, <1>5 DEF RemoveDeadSnakes
<1>6. ASSUME NEW h \in DOMAIN sessions, on_close(h)
      PROVE  dead' = <<>>
  BY <1>6 DEF on_close, ListsInv
<1>7. ASSUME NEW h \in fresh, on_open(h)
      PROVE  dead' = dead /\ DOMAIN snakes \subseteq DOMAIN snakes'
  BY <1>7 DEF on_open, handlerVars, CreateAndAddSnake, Insert, Assign
<1>8. ASSUME NEW h \in DOMAIN sessions, NEW steers \in BOOLEAN,
             on_message(h, steers)
      PROVE  dead' = dead /\ DOMAIN snakes \subseteq DOMAIN snakes'
  BY <1>8 DEF on_message, handlerVars
<1>9. ASSUME \/ on_timer \/ on_timer_error \/ TickDone \/ BoundsDone
             \/ BroadcastDone \/ UNCHANGED vars \/ \E s \in todo : SkipSnake(s)
      PROVE  dead' = dead /\ DOMAIN snakes \subseteq DOMAIN snakes'
  BY <1>9 DEF on_timer, on_timer_error, TickDone, BoundsDone, BroadcastDone,
              SkipSnake, vars, worldVars, handlerVars
<1>10. ASSUME NEW s \in todo, TickSnake(s)
       PROVE  dead' = dead /\ DOMAIN snakes \subseteq DOMAIN snakes'
  BY <1>10 DEF TickSnake, Tick
<1>11. ASSUME BoundsStep
       PROVE  dead' = dead /\ DOMAIN snakes \subseteq DOMAIN snakes'
  BY <1>11 DEF BoundsStep, CheckSnakeBounds, Survives, Dies
<1> QED  BY <1>2, <1>3, <1>4, <1>5, <1>6, <1>7, <1>8, <1>9, <1>10, <1>11
         DEF Next, TimerStep

\* Tick reports living snakes only, and a check marks no snake but its own,
\* which is in the list once.
LEMMA StepAhead ==
  TypeOK /\ ListsInv /\ AheadInv /\ [Next]_vars => AheadInv'
<1> SUFFICES ASSUME TypeOK, ListsInv, AheadInv, [Next]_vars
             PROVE  AheadInv'
  OBVIOUS
<1>1. changes \in Seq(Ids) /\ cursor \in Nat \ {0}
  BY DEF TypeOK, HandlerTypeOK
<1>2. ASSUME phase' \notin {"tick", "bounds"} PROVE AheadInv'
  BY <1>2 DEF AheadInv
<1>3. CASE on_timer
  <2>1. changes' = <<>> /\ phase' = "tick"
    BY <1>3 DEF on_timer, ListsInv
  <2> QED  BY <2>1 DEF AheadInv
<1>4. CASE UNCHANGED vars \/ TickDone \/ \E s \in todo : SkipSnake(s)
  <2>1. CASE TickDone
    BY <2>1, <1>1 DEF TickDone, AheadInv, Halted, worldVars
  <2>2. CASE UNCHANGED vars \/ \E s \in todo : SkipSnake(s)
    BY <2>2 DEF SkipSnake, AheadInv, Halted, vars, worldVars, handlerVars
  <2> QED  BY <1>4, <2>1, <2>2
<1>5. ASSUME NEW s \in todo, TickSnake(s)
      PROVE  AheadInv'
  <2>1. s \in DOMAIN snakes /\ ~Halted(s) /\ phase = "tick" /\ phase' = "tick"
    BY <1>5 DEF TickSnake, ListsInv
  <2>2. PICK chg \in SUBSET Moves, aims \in BOOLEAN, ate \in BOOLEAN,
             S \in SUBSET Sectors : Tick(s, chg, aims, ate, S)
    BY <1>5 DEF TickSnake
  <2> DEFINE res == Ticked(snakes[s].update, chg, aims, ate)
  <2>3. res.update \in SUBSET Flags
    BY <2>1 DEF Ticked, Flags, TypeOK, WorldTypeOK, Snake
  <2>4. res.update \cap {"dying", "dead"} = {}
    BY <2>1 DEF Ticked, Halted, Moves
  <2>5. snakes' = [snakes EXCEPT ![s].update = res.update, ![s].sectors = S]
    BY <2>2 DEF Tick
  <2>6. /\ snakes'[s].update = res.update
        /\ \A x \in DOMAIN snakes \ {s} : snakes'[x] = snakes[x]
    <3> HIDE DEF res
    <3> QED  BY <2>1, <2>3, <2>5, MoveFacts
  <2>7. ~Halted(s)'
    BY <2>4, <2>6 DEF Halted
  <2>8. ASSUME NEW n \in 1 .. Len(changes)
        PROVE  snakes'[changes[n]].update \cap {"dying", "dead"} = {}
    <3>1. changes[n] \in DOMAIN snakes /\ changes[n] # s /\ ~Halted(changes[n])
      BY <2>1, <1>5 DEF ListsInv, AheadInv, TickSnake
    <3> QED  BY <3>1, <2>6 DEF Halted
  <2>9. changes' = changes \/ changes' = Append(changes, s)
    BY <2>2 DEF Tick
  <2>10. s \in Ids
    BY <2>1 DEF TypeOK, WorldTypeOK
  <2>11. ASSUME NEW n \in 1 .. Len(changes')
         PROVE  changes'[n] = s \/ (n \in 1 .. Len(changes) /\ changes'[n] = changes[n])
    BY <2>9, <2>10, <1>1
  <2>12. \A n \in 1 .. Len(changes') : ~Halted(changes[n])'
    BY <2>7, <2>8, <2>11 DEF Halted
  <2> QED  BY <2>1, <2>12 DEF AheadInv
<1>6. CASE BoundsStep
  <2> DEFINE s == changes[cursor]
  <2>1. /\ s \in DOMAIN snakes /\ cursor \in 1 .. Len(changes)
        /\ CheckSnakeBounds(s) /\ cursor' = cursor + 1 /\ changes' = changes
        /\ phase = "bounds" /\ phase' = "bounds"
    BY <1>6, CursorFacts DEF BoundsStep
  <2>2. \A x \in DOMAIN snakes \ {s} : snakes'[x].update = snakes[x].update
    <3>1. CASE snakes' = snakes
      BY <3>1
    <3>2. CASE snakes' = [snakes EXCEPT
                            ![s].update = snakes[s].update \cup {"dying"}]
      BY <2>1, <3>2, CheckFacts, FlagsFacts
    <3> QED  BY <2>1, <3>1, <3>2, CheckFacts
  <2>3. ASSUME NEW n \in cursor + 1 .. Len(changes)
        PROVE  ~Halted(changes[n])'
    <3>1. n \in 1 .. Len(changes) /\ n \in cursor .. Len(changes) /\ n # cursor
      BY <1>1
    <3>2. changes[n] \in DOMAIN snakes /\ changes[n] # s /\ ~Halted(changes[n])
      BY <2>1, <3>1 DEF ListsInv, AheadInv
    <3> QED  BY <2>1, <2>2, <3>2 DEF Halted
  <2> QED  BY <2>1, <2>3 DEF AheadInv, Halted
<1>7. ASSUME \/ \E h \in fresh : on_open(h)
             \/ \E h \in DOMAIN sessions : \E steers \in BOOLEAN : on_message(h, steers)
             \/ \E h \in DOMAIN sessions : on_close(h)
             \/ on_timer_error \/ BoundsDone \/ BroadcastStep \/ BroadcastDone
             \/ RemoveDeadSnakes
      PROVE  phase' \notin {"tick", "bounds"}
  BY <1>7 DEF on_open, on_message, on_close, on_timer_error, BoundsDone,
              BroadcastStep, BroadcastDone, RemoveDeadSnakes, handlerVars
<1> QED  BY <1>2, <1>3, <1>4, <1>5, <1>6, <1>7 DEF Next, TimerStep

-----------------------------------------------------------------------------
(* What the steps of the server do to the life of snakes *)

\* Steps that add or remove no snake and touch no dying or dead bit.
LEMMA LifeKept ==
  ASSUME DOMAIN snakes' = DOMAIN snakes, lastSnakeId' = lastSnakeId,
         \A x \in DOMAIN snakes :
           /\ "dead" \in snakes'[x].update <=> "dead" \in snakes[x].update
           /\ "dying" \in snakes'[x].update <=> "dying" \in snakes[x].update
  PROVE  Life' = Life
BY DEF Life, LifeOf

\* Steps that mark one snake.
LEMMA LifeMarked ==
  ASSUME DOMAIN snakes' = DOMAIN snakes, lastSnakeId' = lastSnakeId,
         NEW s \in DOMAIN snakes, s \in Ids, NEW v,
         \A x \in DOMAIN snakes \ {s} : snakes'[x].update = snakes[x].update,
         v = IF "dead" \in snakes'[s].update THEN "dead"
             ELSE IF "dying" \in snakes'[s].update THEN "dying" ELSE "alive"
  PROVE  Life' = [Life EXCEPT ![s] = v]
<1> SUFFICES ASSUME NEW i \in Ids
             PROVE  Life'[i] = IF i = s THEN v ELSE Life[i]
  BY DEF Life
<1>1. CASE i = s
  BY <1>1 DEF Life, LifeOf
<1>2. CASE i \in DOMAIN snakes \ {s}
  BY <1>2 DEF Life, LifeOf
<1>3. CASE i \notin DOMAIN snakes
  BY <1>3 DEF Life
<1> QED  BY <1>1, <1>2, <1>3

\* Steps that remove snakes whose ids the counter has passed.
LEMMA LifeEnded ==
  ASSUME NEW R \in SUBSET (1 .. lastSnakeId), DOMAIN snakes' = DOMAIN snakes \ R,
         lastSnakeId' = lastSnakeId,
         \A x \in DOMAIN snakes \ R : snakes'[x] = snakes[x],
         R \subseteq DOMAIN snakes
  PROVE  Life' = [i \in Ids |-> IF i \in R THEN "gone" ELSE Life[i]]
<1> SUFFICES ASSUME NEW i \in Ids
             PROVE  Life'[i] = IF i \in R THEN "gone" ELSE Life[i]
  BY DEF Life
<1>1. CASE i \in R
  BY <1>1 DEF Life
<1>2. CASE i \in DOMAIN snakes \ R
  BY <1>2 DEF Life, LifeOf
<1>3. CASE i \notin DOMAIN snakes
  BY <1>3 DEF Life
<1> QED  BY <1>1, <1>2, <1>3

\* A world of bots is an arena of bots.
LEMMA InitArena == Init => Abstract!Init
<1> SUFFICES ASSUME Init PROVE Abstract!Init  OBVIOUS
<1>1. snakes \in [1 .. lastSnakeId -> {[bot |-> TRUE, update |-> {}, sectors |-> S] :
                                  S \in SUBSET Sectors \ {{}}}]
  BY DEF Init
<1>2. \A i \in 1 .. lastSnakeId : snakes[i].update = {}
  BY <1>1
<1>3. DOMAIN snakes = 1 .. lastSnakeId
  BY <1>1 DEF Init
<1>4. Life \in [Ids -> {"none", "alive"}]
  BY <1>2, <1>3 DEF Life, LifeOf
<1> QED  BY <1>4 DEF Init, Abstract!Init, EmptyMap, Abstract!EmptyMap, NoKill

-----------------------------------------------------------------------------
(* The refinement *)

\* Every step of the server is a step of the arena or leaves it alone.
LEMMA StepArena ==
  /\ TypeOK /\ ListsInv /\ QuietInv /\ WorldInv /\ AnnouncedInv /\ AheadInv
  /\ WorldInv' /\ TypeOK' /\ [Next]_vars
  => [Abstract!Next]_(Abstract!vars)
<1> SUFFICES ASSUME TypeOK, ListsInv, QuietInv, WorldInv, AnnouncedInv, AheadInv,
                    WorldInv', TypeOK', [Next]_vars
             PROVE  Abstract!Next \/ UNCHANGED Abstract!vars
  OBVIOUS
<1>0. CASE wrapped'
  BY <1>0 DEF Abstract!Next, Abstract!Overflow, TypeOK, WorldTypeOK
<1> SUFFICES ASSUME ~wrapped'
             PROVE  Abstract!Next \/ UNCHANGED Abstract!vars
  BY <1>0
<1>a. snakes \in [DOMAIN snakes -> Snake] /\ DOMAIN snakes \subseteq Ids
  BY DEF TypeOK, WorldTypeOK
\* Steps that leave the abstract variables alone.
<1>b. ASSUME UNCHANGED <<fresh, sessions, lastSnakeId, kill, wrapped>>,
             DOMAIN snakes' = DOMAIN snakes,
             \A x \in DOMAIN snakes :
               /\ "dead" \in snakes'[x].update <=> "dead" \in snakes[x].update
               /\ "dying" \in snakes'[x].update <=> "dying" \in snakes[x].update
      PROVE  UNCHANGED Abstract!vars
  BY <1>b, LifeKept DEF Abstract!vars
<1>1. ASSUME NEW h \in fresh, on_open(h)
      PROVE  Abstract!Next
  <2>1. PICK S \in SUBSET Sectors : CreateAndAddSnake(S)
    BY <1>1 DEF on_open
  <2>2. ~wrapped /\ NextId # 0 /\ wrapped' = wrapped
    BY <2>1 DEF CreateAndAddSnake, TypeOK, WorldTypeOK
  <2>3. NextId = lastSnakeId + 1 /\ NextId \in Ids /\ lastSnakeId' = NextId
    BY <2>1, <2>2, NextIdType DEF CreateAndAddSnake
  <2>4. DOMAIN snakes \subseteq 1 .. lastSnakeId /\ lastSnakeId \in Nat
    BY <2>2 DEF WorldInv, WorldMatch, IdsMatch, TypeOK, WorldTypeOK, Ids
  <2>5. NextId \notin DOMAIN snakes /\ NextId \notin 1 .. lastSnakeId
    BY <2>3, <2>4
  <2>6. /\ DOMAIN snakes' = DOMAIN snakes \cup {NextId}
        /\ snakes'[NextId].update = {}
        /\ \A x \in DOMAIN snakes : snakes'[x] = snakes[x]
    BY <2>1, <2>5 DEF CreateAndAddSnake, Insert, Assign
  <2>7. Life[NextId] = "none"
    BY <2>3, <2>5 DEF Life
  <2>8. Life' = [Life EXCEPT ![NextId] = "alive"]
    <3> SUFFICES ASSUME NEW i \in Ids
                 PROVE  Life'[i] = IF i = NextId THEN "alive" ELSE Life[i]
      BY DEF Life
    <3>1. CASE i = NextId
      BY <3>1, <2>6 DEF Life, LifeOf
    <3>2. CASE i # NextId /\ i \in DOMAIN snakes
      BY <3>2, <2>6 DEF Life, LifeOf
    <3>3. CASE i # NextId /\ i \notin DOMAIN snakes
      <4>1. i \in 1 .. lastSnakeId' <=> i \in 1 .. lastSnakeId
        BY <2>3, <2>4, <3>3 DEF Ids
      <4> QED  BY <3>3, <4>1, <2>6 DEF Life
    <3> QED  BY <3>1, <3>2, <3>3
  <2>9. h \in Conns
    BY DEF TypeOK, ClientTypeOK
  <2>10. /\ fresh' = fresh \ {h} /\ sessions' = Assign(sessions, h, NextId)
         /\ kill' = kill
    BY <1>1 DEF on_open, handlerVars
  <2>11. Abstract!Join(h, NextId)
    BY <2>2, <2>7, <2>8, <2>10 DEF Abstract!Join, Assign, Abstract!Assign
  <2>12. NextId \in Ids /\ h \in Conns
    BY <2>3, <2>9
  <2> HIDE DEF NextId
  <2> QED  BY <2>11, <2>12 DEF Abstract!Next
<1>2. ASSUME NEW h \in DOMAIN sessions, NEW steers \in BOOLEAN,
             on_message(h, steers)
      PROVE  UNCHANGED Abstract!vars
  <2> DEFINE id == sessions[h]
  <2>1. UNCHANGED <<fresh, sessions, lastSnakeId, kill, wrapped>>
    BY <1>2 DEF on_message, clientVars, handlerVars
  <2>2. CASE snakes' = snakes
    BY <1>b, <2>1, <2>2
  <2>3. CASE snakes' # snakes
    <3>1. /\ id \in DOMAIN snakes
          /\ snakes' = [snakes EXCEPT ![id].update = Steered(snakes[id].update)]
      BY <1>2, <2>3 DEF on_message
    <3>2. Steered(snakes[id].update) \in SUBSET Flags
      BY <3>1, <1>a DEF Snake, Steered, Flags
    <3>3. /\ DOMAIN snakes' = DOMAIN snakes
          /\ \A x \in DOMAIN snakes :
               \/ snakes'[x].update = snakes[x].update
               \/ snakes'[x].update = snakes[x].update \cup {"wangle"}
      BY <3>1, <3>2, FlagsFacts DEF Steered
    <3> QED  BY <1>b, <2>1, <3>3
  <2> QED  BY <2>2, <2>3
<1>3. ASSUME NEW h \in DOMAIN sessions, on_close(h)
      PROVE  Abstract!Next
  <2> DEFINE s == sessions[h]
  <2>1. /\ UNCHANGED <<fresh, lastSnakeId, wrapped, kill>>
        /\ sessions' = Erase(sessions, {h}) /\ RemoveSnakes({s})
        /\ phase = "idle" /\ changes = <<>> /\ dead = <<>>
    BY <1>3 DEF on_close, ListsInv
  <2>2. /\ s \in DOMAIN snakes /\ s \in Ids /\ h \in Conns
        /\ DOMAIN snakes \subseteq 1 .. lastSnakeId
    BY <2>1, <1>a
       DEF WorldInv, WorldMatch, SessionsMatch, IdsMatch, TypeOK, ClientTypeOK
  <2>3. Life[s] \in {"alive", "dead"}
    BY <2>1, <2>2 DEF QuietInv, QuietSnake, Pending, Halted, Life, LifeOf
  <2>4. /\ DOMAIN snakes' = DOMAIN snakes \ {s}
        /\ \A x \in DOMAIN snakes \ {s} : snakes'[x] = snakes[x]
    BY <2>1, RemoveSnakesFacts
  <2>5. Life' = [i \in Ids |-> IF i \in {s} THEN "gone" ELSE Life[i]]
    <3> HIDE DEF s
    <3>1. {s} \in SUBSET (1 .. lastSnakeId) /\ {s} \subseteq DOMAIN snakes
      BY <2>2
    <3> QED  BY <2>1, <2>4, <3>1, LifeEnded
  <2>6. Life' = [Life EXCEPT ![s] = "gone"]
    BY <2>5 DEF Life
  <2>7. Abstract!Leave(h)
    BY <2>1, <2>3, <2>6 DEF Abstract!Leave, Erase, Abstract!Erase
  <2> QED  BY <2>2, <2>7 DEF Abstract!Next
<1>4. ASSUME \/ on_timer \/ on_timer_error \/ TickDone \/ BroadcastDone
             \/ UNCHANGED vars \/ \E s \in todo : SkipSnake(s)
      PROVE  UNCHANGED Abstract!vars
  <2>1. UNCHANGED <<fresh, sessions, lastSnakeId, kill, wrapped, snakes>>
    BY <1>4 DEF on_timer, on_timer_error, TickDone, BroadcastDone, SkipSnake,
                vars, worldVars, clientVars, handlerVars
  <2> QED  BY <1>b, <2>1
<1>5. CASE BoundsDone
  <2>1. UNCHANGED <<fresh, sessions, lastSnakeId, wrapped, snakes>> /\ kill' = <<>>
    BY <1>5 DEF BoundsDone, worldVars, clientVars, NoKill
  <2>2. Life' = Life
    BY <2>1, LifeKept
  <2> QED  BY <2>1, <2>2 DEF Abstract!Next, Abstract!Miss
<1>6. ASSUME NEW s \in todo, TickSnake(s)
      PROVE  UNCHANGED Abstract!vars
  <2>1. s \in DOMAIN snakes /\ ~Halted(s)
    BY <1>6 DEF TickSnake, ListsInv
  <2>2. PICK chg \in SUBSET Moves, aims \in BOOLEAN, ate \in BOOLEAN,
             S \in SUBSET Sectors : Tick(s, chg, aims, ate, S)
    BY <1>6 DEF TickSnake
  <2> DEFINE F == Ticked(snakes[s].update, chg, aims, ate).update
  <2>3. F \in SUBSET Flags /\ F \cap {"dying", "dead"} = {}
    BY <2>1, <1>a DEF Ticked, Flags, Moves, Halted, Snake
  <2>4. snakes' = [snakes EXCEPT ![s].update = F, ![s].sectors = S]
    BY <2>2 DEF Tick
  <2>5. /\ DOMAIN snakes' = DOMAIN snakes
        /\ snakes'[s].update = F
        /\ \A x \in DOMAIN snakes \ {s} : snakes'[x] = snakes[x]
    <3> HIDE DEF F
    <3> QED  BY <2>1, <2>3, <2>4, MoveFacts
  <2>6. \A x \in DOMAIN snakes :
          /\ "dead" \in snakes'[x].update <=> "dead" \in snakes[x].update
          /\ "dying" \in snakes'[x].update <=> "dying" \in snakes[x].update
    <3> HIDE DEF F
    <3> QED  BY <2>1, <2>3, <2>5 DEF Halted
  <2>7. UNCHANGED <<fresh, sessions, lastSnakeId, kill, wrapped>>
    BY <1>6 DEF TickSnake, clientVars
  <2> QED  BY <1>b, <2>5, <2>6, <2>7
<1>7. CASE BoundsStep
  <2> DEFINE s == changes[cursor]
  <2>1. /\ s \in DOMAIN snakes /\ s \in Ids /\ CheckSnakeBounds(s)
        /\ UNCHANGED <<fresh, sessions, lastSnakeId, wrapped>>
    BY <1>7, CursorFacts DEF BoundsStep, clientVars
  <2>2. ~Halted(s)
    <3>1. cursor \in cursor .. Len(changes) /\ phase = "bounds"
      BY <1>7 DEF BoundsStep, TypeOK, HandlerTypeOK
    <3> QED  BY <3>1 DEF AheadInv
  <2>3. Life[s] = "alive"
    BY <2>1, <2>2 DEF Life, LifeOf, Halted
  <2>4. CASE snakes' = snakes /\ kill' = <<>>
    <3>1. Life' = Life
      BY <2>1, <2>4, LifeKept
    <3> QED  BY <2>1, <2>4, <3>1 DEF Abstract!Next, Abstract!Miss
  <2>5. ASSUME snakes' = [snakes EXCEPT
                            ![s].update = snakes[s].update \cup {"dying"}],
               kill' = <<>> \/ \E k \in DOMAIN snakes \ {s} : kill' = <<s, k>>
        PROVE  Abstract!Next
    <3>1. snakes[s].update \cup {"dying"} \in SUBSET Flags
      BY <2>1, <1>a DEF Snake, Flags
    <3>2. /\ DOMAIN snakes' = DOMAIN snakes
          /\ \A x \in DOMAIN snakes \ {s} : snakes'[x].update = snakes[x].update
          /\ snakes'[s].update = snakes[s].update \cup {"dying"}
      <4> HIDE DEF s
      <4> QED  BY <2>1, <2>5, <3>1, FlagsFacts, ZenonT(60)
    <3>3. "dead" \notin snakes'[s].update /\ "dying" \in snakes'[s].update
      BY <2>2, <3>2 DEF Halted
    <3>4. Life' = [Life EXCEPT ![s] = "dying"]
      <4> HIDE DEF s
      <4> QED  BY <2>1, <3>2, <3>3, LifeMarked
    <3>5. \A k \in DOMAIN snakes : k \in Abstract!Bodies
      BY <1>a DEF Abstract!Bodies, Life, LifeOf
    <3>6. kill' \in {<<>>} \cup {<<s, k>> : k \in Abstract!Bodies \ {s}}
      <4> HIDE DEF s
      <4> QED  BY <2>5, <3>5
    <3>7. Abstract!Die(s)
      BY <2>1, <2>3, <3>4, <3>6 DEF Abstract!Die
    <3> HIDE DEF s
    <3> QED  BY <2>1, <3>7 DEF Abstract!Next
  <2>6. ASSUME NEW around \in SUBSET Sectors, NEW c \in around,
               NEW k \in boxes[c] \ {s}
        PROVE  k \in DOMAIN snakes \ {s}
    BY <2>1 DEF WorldInv, WorldMatch, SectorsMatch
  <2> HIDE DEF s
  <2> QED  BY <2>1, <2>4, <2>5, <2>6 DEF CheckSnakeBounds, Survives, Dies, NoKill
<1>8. CASE BroadcastStep
  <2> DEFINE s == changes[cursor]
  <2>1. /\ s \in DOMAIN snakes /\ s \in Ids /\ snakes[s] \in Snake
        /\ UNCHANGED <<fresh, sessions, lastSnakeId, wrapped, kill>>
    BY <1>8, CursorFacts DEF BroadcastStep
  <2>2. CASE UNCHANGED snakes
    BY <1>b, <2>1, <2>2
  <2>3. CASE /\ "dead" \notin snakes[s].update /\ "dying" \in snakes[s].update
             /\ BroadcastDeath(s)
    <3>1. snakes[s].update \cup {"dead"} \in SUBSET Flags
      BY <2>1 DEF Snake, Flags
    <3>2. snakes' = [snakes EXCEPT ![s].update = snakes[s].update \cup {"dead"}]
      BY <2>3 DEF BroadcastDeath
    <3>3. /\ DOMAIN snakes' = DOMAIN snakes
          /\ \A x \in DOMAIN snakes \ {s} : snakes'[x].update = snakes[x].update
          /\ snakes'[s].update = snakes[s].update \cup {"dead"}
      BY <2>1, <3>1, <3>2, FlagsFacts, ZenonT(60)
    <3>4. "dead" \in snakes'[s].update
      BY <3>3
    <3>5. Life' = [Life EXCEPT ![s] = "dead"]
      <4> HIDE DEF s
      <4> QED  BY <2>1, <3>3, <3>4, LifeMarked
    <3>6. Life[s] = "dying"
      BY <2>1, <2>3 DEF Life, LifeOf
    <3>7. Abstract!Announce(s)
      BY <2>1, <3>5, <3>6 DEF Abstract!Announce
    <3> HIDE DEF s
    <3> QED  BY <2>1, <3>7 DEF Abstract!Next
  <2>4. CASE BroadcastMove(s)
    <3>1. snakes[s].update \ Sent(s) \in SUBSET Flags
      BY <2>1 DEF Snake
    <3>2. snakes' = [snakes EXCEPT ![s].update = snakes[s].update \ Sent(s)]
      BY <2>4 DEF BroadcastMove
    <3>3. /\ DOMAIN snakes' = DOMAIN snakes
          /\ \A x \in DOMAIN snakes :
               \/ snakes'[x].update = snakes[x].update
               \/ x = s /\ snakes'[x].update = snakes[x].update \ Sent(s)
      BY <3>1, <3>2, FlagsFacts
    <3>4. "dead" \notin Sent(s) /\ "dying" \notin Sent(s)
      BY DEF Sent, Moves
    <3>5. \A x \in DOMAIN snakes :
            /\ "dead" \in snakes'[x].update <=> "dead" \in snakes[x].update
            /\ "dying" \in snakes'[x].update <=> "dying" \in snakes[x].update
      BY <3>3, <3>4
    <3> QED  BY <1>b, <2>1, <3>3, <3>5
  <2> QED  BY <1>8, <2>2, <2>3, <2>4 DEF BroadcastStep
<1>9. CASE RemoveDeadSnakes
  <2> DEFINE R == {dead[n] : n \in 1 .. Len(dead)}
  <2>1. /\ UNCHANGED <<fresh, sessions, lastSnakeId, wrapped, kill>>
        /\ RemoveSnakes(R) /\ changes = <<>>
    BY <1>9 DEF RemoveDeadSnakes, ListsInv
  <2>2. \A i \in R : /\ i \in DOMAIN snakes /\ snakes[i].bot
                      /\ "dead" \in snakes[i].update
    BY DEF ListsInv, AnnouncedInv
  <2>3. \A i \in DOMAIN snakes : 
          "dead" \in snakes[i].update /\ snakes[i].bot => i \in R
    BY DEF QuietInv, QuietSnake
  <2> HIDE DEF R
  <2>4. /\ SessionsMatch /\ DOMAIN snakes \subseteq 1 .. lastSnakeId
    BY <2>1 DEF WorldInv, WorldMatch, IdsMatch
  <2>5. /\ DOMAIN snakes' = DOMAIN snakes \ R
        /\ \A x \in DOMAIN snakes \ R : snakes'[x] = snakes[x]
    BY <2>1, RemoveSnakesFacts
  <2>6. Life' = [i \in Ids |-> IF i \in R THEN "gone" ELSE Life[i]]
    <3>1. R \in SUBSET (1 .. lastSnakeId) /\ R \subseteq DOMAIN snakes
      BY <2>2, <2>4
    <3> QED  BY <2>1, <2>5, <3>1, LifeEnded
  <2>7. \A i \in Ids : Life[i] = "dead" <=>
                          i \in DOMAIN snakes /\ "dead" \in snakes[i].update
    BY DEF Life, LifeOf
  <2>8. \A i \in DOMAIN snakes : snakes[i].bot <=> i \notin Abstract!Played
    <3>1. ASSUME NEW i \in DOMAIN snakes, i \in Abstract!Played
          PROVE  ~snakes[i].bot
      BY <2>4, <3>1 DEF Abstract!Played, SessionsMatch
    <3>2. ASSUME NEW i \in DOMAIN snakes, ~snakes[i].bot
          PROVE  i \in Abstract!Played
      BY <2>4, <3>2 DEF Abstract!Played, SessionsMatch, HasSession
    <3> QED  BY <3>1, <3>2
  <2>9. \A i \in Ids : i \in R <=> i \in Abstract!DeadBots
    BY <2>2, <2>3, <2>7, <2>8, <1>a DEF Abstract!DeadBots
  <2>10. Life' = [i \in Ids |-> IF i \in Abstract!DeadBots THEN "gone" ELSE Life[i]]
    BY <2>6, <2>9
  <2>11. Abstract!ReapBots
    BY <2>1, <2>10 DEF Abstract!ReapBots
  <2> QED  BY <2>11 DEF Abstract!Next
<1> QED  BY <1>1, <1>2, <1>3, <1>4, <1>5, <1>6, <1>7, <1>8, <1>9 DEF Next, TimerStep

\* The server keeps the arena's promises: a snake dies at most once and only of
\* the border or of a body in the world, its death is announced before it
\* leaves, and no id is used for two snakes.
THEOREM ServerImplementsArena == Spec => ImplementsArena
<1>1. Spec => [](TypeOK /\ ListsInv)
  BY InitTypeOK, StepTypeOK, PTL DEF Spec
<1>2. Spec => [](AnnouncedInv /\ AheadInv)
  BY <1>1, InitArenaInv, StepAnnounced, StepAhead, PTL DEF Spec
<1>3. Spec => []QuietInv
  BY <1>1, InitQuiet, StepQuiet, PTL DEF Spec
<1> QED  BY <1>1, <1>2, <1>3, WorldAlways, InitArena, StepArena, PTL
         DEF Spec, ImplementsArena, Abstract!Spec
=============================================================================
