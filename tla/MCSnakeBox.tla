----------------------------- MODULE MCSnakeBox -----------------------------
(* An instance of SnakeBox for TLC. *)
EXTENDS SnakeBox

Life(n, x, y, a, frames, turns, gains, bound) ==
  [length |-> n, head |-> <<x, y>>, angle |-> a, frames |-> frames,
   turns |-> turns, gains |-> gains, ticks |-> bound]

EveryTurn == -6 .. 6

\* Snakes that cross sectors and corners soon: one of three parts, ticked with
\* delays; snakes of up to nine parts that turn every way or eat and boost, and
\* some that keep going long enough for the tail to follow where the head has
\* been, straight on, in a curve or in a zigzag; and longer ones.
MCLives ==
  {Life(3, 10500, 10500, 0, {1, 3}, EveryTurn, {0}, 3),
   Life(5, 11700, 10700, 1, {1}, EveryTurn, {-1, 0, 2}, 3),
   Life(9, 12010, 10870, 6, {1}, EveryTurn, {0}, 5),
   Life(9, 11200, 11960, 1, {1}, EveryTurn, {2}, 5),
   Life(3, 11990, 12010, 5, {1}, {0, 1}, {0}, 9),
   Life(6, 9020, 8990, 2, {1}, {-1, 0}, {0}, 9),
   Life(7, 14980, 9010, 3, {1}, {-1, 1}, {0}, 9),
   Life(9, 10500, 15010, 0, {1}, {0, 2}, {0}, 10),
   Life(9, 8970, 13490, 7, {1}, {-2, 0}, {0}, 10),
   Life(20, 11900, 11800, 1, {1}, EveryTurn, {0}, 4),
   Life(25, 11900, 11000, 7, {1}, EveryTurn, {0}, 4),
   Life(26, 11980, 9060, 2, {1}, EveryTurn, {0}, 4)}
=============================================================================
