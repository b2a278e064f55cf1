---------------------------- MODULE ServerArena ----------------------------
(***************************************************************************)
(* The server implements the arena: GameServer under a refinement mapping. *)
(***************************************************************************)
EXTENDS GameServer

\* The life of a snake, read off the bits of its update field.
LifeOf(s) ==
  IF "dead" \in snakes[s].update THEN "dead"
  ELSE IF "dying" \in snakes[s].update THEN "dying"
  ELSE "alive"

\* An id that is not in the world has left it if the counter has passed it.
Life ==
  [i \in Ids |-> IF i \in DOMAIN snakes THEN LifeOf(i)
                 ELSE IF i \in 1 .. lastSnakeId THEN "gone" ELSE "none"]

Abstract == INSTANCE Arena WITH waiting <- fresh, plays <- sessions,
                                life <- Life, overflow <- wrapped

\* Every behaviour of the server is one of the arena: handlers and the loops
\* of on_timer keep the promises made there, for every interleaving.
ImplementsArena == Abstract!Spec
=============================================================================
