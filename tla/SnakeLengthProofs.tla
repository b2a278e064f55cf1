------------------------- MODULE SnakeLengthProofs --------------------------
(***************************************************************************)
(* Proofs about SnakeLength, for every set of clients, every amount and    *)
(* mix of food and every length of the snake.                              *)
(***************************************************************************)
EXTENDS SnakeLength, TLAPS

\* The fullness the owner shows is stale only while change_fullness says so,
\* and the bit is never left set by a broadcast.
FullnessInv ==
  /\ alive /\ ~changeFullness => ownerFam = fullness
  /\ alive /\ phase = "idle" => ~changeFullness
  /\ phase # "idle" => alive

\* No screen is behind the counter, and the counter is ahead of the snake by
\* at most the one part that the move being broadcast has cost.
LagInv ==
  alive => /\ \A c \in DOMAIN drawn : drawn[c] >= clientPartsIndex
           /\ clientPartsIndex <= parts + 1
           /\ phase # "broadcast" => clientPartsIndex <= parts

LengthInv == TypeOK /\ LagInv /\ FullnessInv

\* The part of the state that is about the clients.
ClientsOK ==
  /\ DOMAIN drawn \subseteq Clients /\ Owner \in DOMAIN drawn
  /\ drawn \in [DOMAIN drawn -> Int]

\* The snake on_open has just created, as its owner and the others see it.
LEMMA InitLength == Init => LengthInv
<1> SUFFICES ASSUME Init PROVE LengthInv
  OBVIOUS
<1>1. /\ parts \in Nat /\ parts >= MinParts /\ clientPartsIndex = parts
      /\ fullness = 0 /\ ownerFam = 0 /\ phase = "idle"
  BY BoundsAssumption DEF Init, MinParts
<1>2. acceleration = FALSE /\ changeFullness = FALSE /\ alive = TRUE
  BY DEF Init
<1>3. food \in [FoodSizes -> Nat]
  BY BoundsAssumption DEF Init
<1>4. PICK W \in {V \in SUBSET Clients : Owner \in V} :
        drawn = [c \in W |-> parts]
  BY DEF Init
<1>5. ClientsOK /\ DOMAIN drawn \subseteq Clients
  BY <1>1, <1>4 DEF ClientsOK
<1>6. LagInv
  BY <1>1, <1>4 DEF LagInv
<1>7. TypeOK
  <2>1. acceleration \in BOOLEAN /\ changeFullness \in BOOLEAN /\ alive \in BOOLEAN
    BY <1>2, Zenon
  <2> QED  BY <1>1, <1>3, <1>5, <2>1 DEF TypeOK, ClientsOK
<1>8. FullnessInv
  BY <1>1, <1>2 DEF FullnessInv
<1> QED  BY <1>6, <1>7, <1>8 DEF LengthInv

\* Joining and leaving: a client that joins between handlers draws the whole
\* snake, which the counter is never ahead of.
LEMMA JoinFacts ==
  ASSUME LengthInv, NEW c \in Clients, Join(c) \/ Leave(c)
  PROVE  ClientsOK' /\ LagInv'
<1>1. UNCHANGED <<parts, alive, clientPartsIndex, phase>> /\ phase = "idle"
  BY DEF Join, Leave, bodyVars
<1>2. clientPartsIndex \in Nat /\ parts \in Nat
  BY DEF LengthInv, TypeOK
<1>3. CASE Join(c)
  <2>1. drawn' = [k \in DOMAIN drawn \cup {c} |-> IF k = c THEN parts ELSE drawn[k]]
    BY <1>3 DEF Join, Assign
  <2>2. ClientsOK'
    BY <1>2, <2>1 DEF LengthInv, TypeOK, ClientsOK
  <2>3. LagInv'
    BY <1>1, <1>2, <2>1 DEF LengthInv, LagInv
  <2> QED  BY <2>2, <2>3
<1>4. CASE Leave(c)
  <2>1. /\ drawn' = [k \in DOMAIN drawn \ {c} |-> drawn[k]]
        /\ c # Owner
    BY <1>4 DEF Leave, Erase
  <2>2. ClientsOK'
    BY <2>1 DEF LengthInv, TypeOK, ClientsOK
  <2>3. LagInv'
    BY <1>1, <1>2, <2>1 DEF LengthInv, LagInv
  <2> QED  BY <2>2, <2>3
<1> QED  BY <1>3, <1>4

\* IncreaseSnake carries a full hundred into one part.
LEMMA IncreaseFacts ==
  ASSUME LengthInv, NEW size \in FoodSizes, IncreaseSnake(size)
  PROVE  /\ parts' \in Nat /\ parts' >= parts
         /\ fullness' \in 0 .. 99
         /\ Mass' = Mass + size
<1>1. size \in 1 .. 100
  BY FoodAssumption
<1>2. parts \in Nat /\ parts >= 3 /\ fullness \in 0 .. 99
  BY DEF LengthInv, TypeOK, MinParts
<1> QED  BY <1>1, <1>2 DEF IncreaseSnake, Mass, MinParts

\* DecreaseSnake borrows at most one part for BoostCost.
LEMMA DecreaseFacts ==
  ASSUME LengthInv, parts > MinParts, DecreaseSnake(BoostCost)
  PROVE  /\ parts' \in Nat /\ parts' >= MinParts /\ parts' >= parts - 1
         /\ fullness' \in 0 .. 99
         /\ food' \in [FoodSizes -> Nat]
         /\ Mass' = Mass - BoostCost
<1>1. parts \in Nat /\ parts > 3 /\ fullness \in 0 .. 99 /\ food \in [FoodSizes -> Nat]
  BY DEF LengthInv, TypeOK, MinParts
<1>2. CASE BoostCost > fullness
  <2> DEFINE rest == 33 - fullness
  <2>1. rest \in 1 .. 33 /\ rest \div 100 = 0 /\ rest % 100 = rest
    BY <1>1, <1>2 DEF BoostCost
  <2>2. parts' = parts - 1 /\ fullness' = 100 - rest
    BY <1>1, <1>2, <2>1 DEF DecreaseSnake, BoostCost, MinParts
  <2>3. food' \in {food, [food EXCEPT ![DroppedSize] = @ + 1]}
    BY <1>1, <1>2, <2>1 DEF DecreaseSnake, BoostCost, MinParts
  <2>4. food' \in [FoodSizes -> Nat]
    BY <1>1, <2>3
  <2> QED  BY <1>1, <2>1, <2>2, <2>4 DEF Mass, BoostCost, MinParts
<1>3. CASE ~(BoostCost > fullness)
  BY <1>1, <1>3 DEF DecreaseSnake, Mass, BoostCost, MinParts
<1> QED  BY <1>2, <1>3

\* BroadcastUpdates sends the part that a move has cost, or one that it won.
LEMMA SendFacts ==
  ASSUME LengthInv, BroadcastUpdates
  PROVE  /\ ClientsOK' /\ LagInv'
         /\ clientPartsIndex' \in Nat /\ clientPartsIndex' >= MinParts
<1>1. /\ clientPartsIndex \in Nat /\ clientPartsIndex >= MinParts
      /\ parts \in Nat /\ parts >= MinParts /\ MinParts \in Nat
      /\ drawn \in [DOMAIN drawn -> Int]
  BY DEF LengthInv, TypeOK, MinParts
<1>2. phase = "broadcast" /\ phase' = "idle" /\ UNCHANGED <<parts, alive>>
  BY DEF BroadcastUpdates
<1>3. alive => /\ \A c \in DOMAIN drawn : drawn[c] >= clientPartsIndex
               /\ clientPartsIndex <= parts + 1
  BY <1>2 DEF LengthInv, LagInv
<1>4. PICK d \in {1, 0, -1} :
        /\ clientPartsIndex' = clientPartsIndex + d
        /\ drawn' = [c \in DOMAIN drawn |-> drawn[c] + d]
        /\ d = 1 => clientPartsIndex < parts
        /\ d = 0 => clientPartsIndex = parts
        /\ d = -1 => clientPartsIndex > parts
  <2>1. CASE clientPartsIndex < parts
    <3>1. SendLength(1)
      BY <2>1 DEF BroadcastUpdates
    <3> QED  BY <1>1, <2>1, <3>1 DEF SendLength
  <2>2. CASE clientPartsIndex > parts
    <3>1. SendLength(-1)
      BY <1>1, <2>2 DEF BroadcastUpdates
    <3> QED  BY <1>1, <2>2, <3>1 DEF SendLength
  <2>3. CASE clientPartsIndex = parts
    <3>1. clientPartsIndex' = clientPartsIndex + 0 /\ drawn' = drawn
      BY <1>1, <2>3 DEF BroadcastUpdates
    <3>2. drawn = [c \in DOMAIN drawn |-> drawn[c] + 0]
      BY <1>1
    <3> QED  BY <2>3, <3>1, <3>2
  <2> QED  BY <1>1, <2>1, <2>2, <2>3
<1>5. DOMAIN drawn' = DOMAIN drawn /\ d \in Int
  BY <1>4
<1>6. ClientsOK'
  BY <1>1, <1>4, <1>5 DEF LengthInv, TypeOK, ClientsOK
<1>7. clientPartsIndex' \in Nat /\ clientPartsIndex' >= MinParts
  BY <1>1, <1>4
<1>8. LagInv'
  <2> SUFFICES ASSUME alive
               PROVE  /\ \A c \in DOMAIN drawn' : drawn'[c] >= clientPartsIndex'
                      /\ clientPartsIndex' <= parts
    BY <1>1, <1>2, <1>7 DEF LagInv
  <2>1. clientPartsIndex' <= parts
    BY <1>1, <1>3, <1>4
  <2>2. ASSUME NEW c \in DOMAIN drawn PROVE drawn'[c] >= clientPartsIndex'
    BY <1>1, <1>3, <1>4, <1>5, <2>2
  <2> QED  BY <1>5, <2>1, <2>2
<1> QED  BY <1>6, <1>7, <1>8

\* The clients' state does not change, and the snake has lost nothing, or one
\* part that is about to be broadcast.
LEMMA ClientsFrame ==
  ASSUME LengthInv, UNCHANGED <<clientPartsIndex, drawn, alive>>, parts' \in Int,
         \/ parts' >= parts /\ phase # "broadcast"
         \/ parts' >= parts - 1 /\ phase # "broadcast" /\ phase' = "broadcast"
         \/ UNCHANGED <<parts, phase>>
  PROVE  ClientsOK' /\ LagInv'
<1>1. clientPartsIndex \in Nat /\ parts \in Nat /\ alive \in BOOLEAN
  BY DEF LengthInv, TypeOK
<1>2. ClientsOK'
  BY DEF LengthInv, TypeOK, ClientsOK
<1>3. alive => /\ clientPartsIndex <= parts + 1
               /\ phase # "broadcast" => clientPartsIndex <= parts
  BY DEF LengthInv, LagInv
<1>4. PICK i \in Int, m \in Int, n \in Int :
        i = clientPartsIndex /\ m = parts /\ n = parts'
  BY <1>1
<1>5. alive => i <= n + 1 /\ (phase' # "broadcast" => i <= n)
  <2> SUFFICES ASSUME alive
               PROVE  i <= n + 1 /\ (phase' # "broadcast" => i <= n)
    OBVIOUS
  <2>1. i <= m + 1 /\ (phase # "broadcast" => i <= m)
    BY <1>3, <1>4
  <2>2. \/ n >= m /\ phase # "broadcast"
        \/ n >= m - 1 /\ phase # "broadcast" /\ phase' = "broadcast"
        \/ n = m /\ phase' = phase
    BY <1>4
  <2> QED  BY <2>1, <2>2
<1>6. LagInv'
  BY <1>4, <1>5 DEF LengthInv, LagInv
<1> QED  BY <1>2, <1>6

\* Every step keeps the invariant.
LEMMA StepLength == LengthInv /\ [Next]_vars => LengthInv'
<1> SUFFICES ASSUME LengthInv, [Next]_vars PROVE LengthInv'
  OBVIOUS
<1>0. parts \in Nat /\ parts >= MinParts /\ MinParts \in Nat
  BY DEF LengthInv, TypeOK, MinParts
<1>1. ASSUME NEW c \in Clients, Join(c) \/ Leave(c) PROVE LengthInv'
  <2>1. ClientsOK' /\ LagInv'
    BY <1>1, JoinFacts
  <2>2. UNCHANGED <<bodyVars, clientPartsIndex, ownerFam, phase>>
    BY <1>1 DEF Join, Leave
  <2> QED  BY <2>1, <2>2 DEF LengthInv, TypeOK, FullnessInv, ClientsOK, bodyVars
<1>2. ASSUME NEW on \in BOOLEAN, SetAcceleration(on) PROVE LengthInv'
  <2>1. acceleration' \in BOOLEAN
    BY <1>2, Zenon DEF SetAcceleration
  <2>2. UNCHANGED <<parts, fullness, changeFullness, alive, food, clientVars, phase>>
    BY <1>2 DEF SetAcceleration
  <2>3. ClientsOK' /\ LagInv'
    BY <1>0, <2>2, ClientsFrame DEF clientVars
  <2> QED  BY <2>1, <2>2, <2>3 DEF LengthInv, TypeOK, FullnessInv, ClientsOK, clientVars
<1>3. ASSUME NEW size \in FoodSizes, Eat(size) PROVE LengthInv'
  <2>1. parts' \in Nat /\ parts' >= parts /\ fullness' \in 0 .. 99
    BY <1>3, IncreaseFacts DEF Eat
  <2>2. food' \in [FoodSizes -> Nat]
    BY <1>3 DEF Eat, LengthInv, TypeOK
  <2>3. changeFullness' = TRUE /\ phase = "eat"
    BY <1>3 DEF Eat, IncreaseSnake
  <2>4. UNCHANGED <<acceleration, alive, clientVars, phase>>
    BY <1>3 DEF Eat
  <2>5. ClientsOK' /\ LagInv'
    BY <2>1, <2>3, <2>4, ClientsFrame DEF clientVars
  <2>6. parts' >= MinParts
    BY <1>0, <2>1
  <2>7. TypeOK'
    BY <2>1, <2>2, <2>3, <2>4, <2>5, <2>6 DEF LengthInv, TypeOK, ClientsOK, clientVars
  <2>8. FullnessInv'
    BY <2>3, <2>4 DEF LengthInv, FullnessInv
  <2> QED  BY <2>5, <2>7, <2>8 DEF LengthInv
<1>4. CASE StartMove
  <2>1. /\ phase = "idle" /\ alive /\ phase' = "eat"
        /\ UNCHANGED <<bodyVars, clientVars>>
    BY <1>4 DEF StartMove
  <2>2. ClientsOK' /\ LagInv'
    BY <1>0, <2>1, ClientsFrame DEF clientVars, bodyVars
  <2> QED  BY <2>1, <2>2
           DEF LengthInv, TypeOK, FullnessInv, ClientsOK, clientVars, bodyVars
<1>5. CASE PayBoost
  <2>1. phase = "eat" /\ phase' = "broadcast" /\ UNCHANGED <<alive, clientVars>>
    BY <1>5 DEF PayBoost
  <2>2. CASE acceleration /\ parts > MinParts
    <3>1. /\ DecreaseSnake(BoostCost) /\ changeFullness' = TRUE
          /\ acceleration' = acceleration
      BY <1>5, <2>2 DEF PayBoost
    <3>2. /\ parts' \in Nat /\ parts' >= MinParts /\ parts' >= parts - 1
          /\ fullness' \in 0 .. 99 /\ food' \in [FoodSizes -> Nat]
      BY <2>2, <3>1, DecreaseFacts
    <3>3. ClientsOK' /\ LagInv'
      BY <2>1, <3>2, ClientsFrame DEF clientVars
    <3>4. TypeOK'
      BY <2>1, <3>1, <3>2, <3>3 DEF LengthInv, TypeOK, ClientsOK, clientVars
    <3>5. FullnessInv'
      BY <2>1, <3>1 DEF LengthInv, FullnessInv
    <3> QED  BY <3>3, <3>4, <3>5 DEF LengthInv
  <2>3. CASE ~(acceleration /\ parts > MinParts)
    <3>1. acceleration' = FALSE
      BY <1>5, <2>3 DEF PayBoost
    <3>2. UNCHANGED <<parts, fullness, food, changeFullness>>
      BY <1>5, <2>3 DEF PayBoost
    <3>3. ClientsOK' /\ LagInv'
      BY <1>0, <2>1, <3>2, ClientsFrame DEF clientVars
    <3>4. TypeOK'
      BY <2>1, <3>1, <3>2, <3>3 DEF LengthInv, TypeOK, ClientsOK, clientVars
    <3>5. FullnessInv'
      BY <2>1, <3>2 DEF LengthInv, FullnessInv, clientVars
    <3> QED  BY <3>3, <3>4, <3>5 DEF LengthInv
  <2> QED  BY <2>2, <2>3
<1>6. CASE BroadcastUpdates
  <2>1. /\ phase = "broadcast" /\ phase' = "idle" /\ changeFullness' = FALSE
        /\ UNCHANGED <<parts, fullness, acceleration, alive, food>>
    BY <1>6 DEF BroadcastUpdates
  <2>2. /\ ClientsOK' /\ LagInv'
        /\ clientPartsIndex' \in Nat /\ clientPartsIndex' >= MinParts
    BY <1>6, SendFacts
  <2>3. /\ ownerFam' \in {ownerFam, fullness}
        /\ changeFullness => ownerFam' = fullness
    BY <1>6 DEF BroadcastUpdates, packet_inc, packet_remove_part,
           packet_fullness
  <2>4. TypeOK'
    BY <2>1, <2>2, <2>3 DEF LengthInv, TypeOK, ClientsOK
  <2>5. FullnessInv'
    BY <2>1, <2>3 DEF LengthInv, FullnessInv
  <2> QED  BY <2>2, <2>4, <2>5 DEF LengthInv
<1>7. CASE Die
  <2>1. /\ alive' = FALSE /\ phase' = "idle"
        /\ UNCHANGED <<parts, fullness, acceleration, changeFullness, food, clientVars>>
    BY <1>7 DEF Die
  <2>2. LagInv'
    BY <2>1 DEF LagInv
  <2> QED  BY <2>1, <2>2 DEF LengthInv, TypeOK, FullnessInv, clientVars
<1>8. CASE UNCHANGED vars
  BY <1>8 DEF vars, bodyVars, clientVars, LengthInv, TypeOK, LagInv, FullnessInv
<1> QED  BY <1>1, <1>2, <1>3, <1>4, <1>5, <1>6, <1>7, <1>8 DEF Next, TimerStep

\* The invariant holds in every reachable state.
LEMMA LengthAlways == Spec => []LengthInv
BY InitLength, StepLength, PTL DEF Spec

\* A snake never has fewer than MinParts parts nor a fullness of a whole part.
THEOREM LengthTypeCorrect == Spec => []TypeOK
<1>1. LengthInv => TypeOK
  BY DEF LengthInv
<1> QED  BY <1>1, LengthAlways, PTL

\* No client is ever told to remove a part it does not draw: the counter is
\* never ahead of a screen, and between handlers never ahead of the snake.
THEOREM ClientsAlwaysDrawEnough == Spec => []ClientsDrawEnough
<1>1. LengthInv => ClientsDrawEnough
  BY DEF LengthInv, LagInv, ClientsDrawEnough
<1> QED  BY <1>1, LengthAlways, PTL

\* Between handlers the owner's client shows the fullness of the living snake.
THEOREM OwnerAlwaysSeesFullness == Spec => []OwnerSeesFullness
<1>1. LengthInv => OwnerSeesFullness
  BY DEF LengthInv, FullnessInv, OwnerSeesFullness
<1> QED  BY <1>1, LengthAlways, PTL

\* Mass comes only from food and goes only into boosting, at the exact rate.
THEOREM MassIsAccounted == Spec => MassAccounting
<1> DEFINE Accounted ==
      /\ \A size \in FoodSizes : Eat(size) => Mass' = Mass + size
      /\ PayBoost => Mass' = Mass - (IF acceleration' THEN BoostCost ELSE 0)
      /\ phase # "eat" => Mass' = Mass
<1>1. LengthInv /\ [Next]_vars => [Accounted]_vars
  <2> SUFFICES ASSUME LengthInv, Next PROVE Accounted
    OBVIOUS
  <2>1. ASSUME NEW size \in FoodSizes, Eat(size) PROVE Mass' = Mass + size
    BY <2>1, IncreaseFacts DEF Eat
  <2>2. ASSUME PayBoost
        PROVE  Mass' = Mass - (IF acceleration' THEN BoostCost ELSE 0)
    <3>1. CASE acceleration /\ parts > MinParts
      <4>1. DecreaseSnake(BoostCost) /\ acceleration'
        BY <2>2, <3>1 DEF PayBoost
      <4> QED  BY <3>1, <4>1, DecreaseFacts
    <3>2. CASE ~(acceleration /\ parts > MinParts)
      <4>1. ~acceleration' /\ Mass' = Mass
        BY <2>2, <3>2 DEF PayBoost, Mass
      <4>2. Mass \in Nat
        BY DEF LengthInv, TypeOK, Mass
      <4> QED  BY <4>1, <4>2
    <3> QED  BY <3>1, <3>2
  <2>3. ASSUME phase # "eat" PROVE Mass' = Mass
    BY <2>3 DEF Next, TimerStep, Join, Leave, SetAcceleration, Eat, StartMove,
       PayBoost, BroadcastUpdates, Die, bodyVars, Mass
  <2> QED  BY <2>1, <2>2, <2>3
<1> QED  BY <1>1, LengthAlways, PTL DEF Spec, MassAccounting
=============================================================================
