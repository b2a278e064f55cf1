------------------------------- MODULE Arena -------------------------------
(***************************************************************************)
(* What the game server promises about the life of snakes, without ticks,  *)
(* flags, lists or sectors.                                                *)
(*                                                                         *)
(* A connection plays at most one snake, once.  A snake is born, dies of   *)
(* the border or of a body that lies in the arena, is announced dead, and  *)
(* leaves: a player's snake together with its connection, dead bots all    *)
(* at the same time.  An id is used for one snake only.  No one leaves     *)
(* between dying and the announcement.  All this holds until the counter   *)
(* of ids overflows; then nothing is promised any more.                    *)
(***************************************************************************)
EXTENDS Maps

CONSTANTS
  Conns,  \* the connections
  Ids     \* the ids of snakes

VARIABLES
  waiting,   \* connections that have not joined yet
  plays,     \* connection -> the id of its snake
  life,      \* id -> "none", "alive", "dying", "dead" or "gone"
  kill,      \* <<victim, killer>> of the last look at the borders, or <<>>
  overflow   \* the counter of ids has overflowed

vars == <<waiting, plays, life, kill, overflow>>

Bodies == {i \in Ids : life[i] \in {"alive", "dying", "dead"}}
Played == {plays[h] : h \in DOMAIN plays}
DeadBots == {i \in Ids \ Played : life[i] = "dead"}

\* A world of bots.
Init ==
  /\ waiting = Conns
  /\ plays = EmptyMap
  /\ life \in [Ids -> {"none", "alive"}]
  /\ kill = <<>>
  /\ overflow = FALSE

Join(h, i) ==
  /\ h \in waiting /\ life[i] = "none"
  /\ waiting' = waiting \ {h}
  /\ plays' = Assign(plays, h, i)
  /\ life' = [life EXCEPT ![i] = "alive"]
  /\ UNCHANGED <<kill, overflow>>

\* The border has no id; a body may be dead, but not the victim's own.
Die(i) ==
  /\ life[i] = "alive"
  /\ life' = [life EXCEPT ![i] = "dying"]
  /\ kill' \in {<<>>} \cup {<<i, k>> : k \in Bodies \ {i}}
  /\ UNCHANGED <<waiting, plays, overflow>>

\* A look that hits nothing.
Miss ==
  /\ kill' = <<>>
  /\ UNCHANGED <<waiting, plays, life, overflow>>

Announce(i) ==
  /\ life[i] = "dying"
  /\ life' = [life EXCEPT ![i] = "dead"]
  /\ UNCHANGED <<waiting, plays, kill, overflow>>

Leave(h) ==
  /\ h \in DOMAIN plays /\ life[plays[h]] \in {"alive", "dead"}
  /\ plays' = Erase(plays, {h})
  /\ life' = [life EXCEPT ![plays[h]] = "gone"]
  /\ UNCHANGED <<waiting, kill, overflow>>

ReapBots ==
  /\ life' = [i \in Ids |-> IF i \in DeadBots THEN "gone" ELSE life[i]]
  /\ UNCHANGED <<waiting, plays, kill, overflow>>

Overflow == overflow' = TRUE

Next ==
  \/ \E h \in Conns, i \in Ids : Join(h, i)
  \/ \E i \in Ids : Die(i) \/ Announce(i)
  \/ \E h \in Conns : Leave(h)
  \/ Miss \/ ReapBots \/ Overflow

Spec == Init /\ [][Next]_vars
=============================================================================
