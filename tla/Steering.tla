------------------------------ MODULE Steering ------------------------------
(***************************************************************************)
(* How a snake turns: the wanted angle that a player's packet (on_message, *)
(* src/src/server/game.cc) or TickAI sets, the rotation in Snake::Tick     *)
(* (src/src/game/snake.cc), the rotation packets of BroadcastUpdates, and  *)
(* what one client makes of them.  The clients do not affect one another,  *)
(* so one stands for all: it watches since the snake was created, or joins *)
(* at any time after that and is introduced to the snake by on_open.       *)
(*                                                                         *)
(* An angle is a number of equal units, Circle of them to the full circle: *)
(* 250 in the steering packet.  A player's wanted angle is not normalised, *)
(* so 0 and Circle are different values of the same direction.  The snake  *)
(* is alive: Tick and BroadcastUpdates skip a dead one.                    *)
(***************************************************************************)
EXTENDS Integers, FiniteSets

\* A definition followed by one that is the real operation is a faulty variant
\* of it that no specification uses.

CONSTANTS
  Circle,            \* units in a full circle
  Turn,              \* units a snake turns in a rotation frame
  rot_step_interval, \* Snake::rot_step_interval, 93 in the code
  ai_step_interval,  \* Snake::ai_step_interval, 1000 in the code
  Delays             \* the dt Snake::Tick may be called with

ASSUME CircleAssumption == Circle \in Nat \ {0} /\ Turn \in Nat \ {0}
ASSUME IntervalAssumption ==
  rot_step_interval \in Nat \ {0} /\ ai_step_interval \in Nat \ {0}
ASSUME DelaysAssumption == Delays \subseteq Nat \ {0}

VARIABLES
  bot,           \* Snake::bot
  angle,         \* Snake::angle
  wangle,        \* Snake::wangle
  changeWangle,  \* the bit change_wangle of Snake::update
  rot_ticks,     \* Snake::rot_ticks
  ai_ticks,      \* Snake::ai_ticks
  watching,      \* the client has a session
  toldAngle,     \* external: the angle the client has read, or Garbled
  toldWangle,    \* external: the wanted angle the client has read, or Garbled
  toldWay,       \* external: the direction that came with it, or "none"
  late           \* history: it joined in the middle of a turn, and has not read
                 \* a wanted angle since

told == <<watching, toldAngle, toldWangle, toldWay, late>>
vars == <<bot, angle, wangle, changeWangle, rot_ticks, ai_ticks, told>>

Angles == 0 .. Circle - 1

\* Math::normalize_angle
normalize_angle(a) == a % Circle

\* The way from one angle to another, in -Circle/2 .. Circle/2.
Way(from, to) ==
  LET d == normalize_angle(to - from)
  IN  IF 2 * d > Circle THEN d - Circle ELSE d

Abs(n) == IF n < 0 THEN -n ELSE n

-----------------------------------------------------------------------------
(* packet_rotation: what a packet has of "ang", "wang" and "sp". *)

Fields == {"ang", "wang", "sp"}

IsClockwiseLongWay(ang, wang) == normalize_angle(wang - ang) > 0

\* packet_rotation::is_clockwise computes the way once more.
is_clockwise(ang, wang) == Way(ang, wang) > 0

GetRotTypeUntyped(fields, cw) == IF cw THEN "4" ELSE "e"

\* packet_rotation::get_rot_type, the letters of out_packet_t.
get_rot_type(fields, cw) ==
  IF "wang" \notin fields
  THEN IF fields = {"sp"} THEN "3" ELSE "e"
  ELSE IF "ang" \notin fields THEN "E"
  ELSE IF "sp" \notin fields
  THEN IF cw THEN "5" ELSE "3"
  ELSE IF cw THEN "4" ELSE "e"

\* operator<<: a byte for every field there is, after the snake id.
Bytes(fields) == Cardinality(fields)

\* How a client reads a packet that carries n bytes after the snake id: the
\* letter, with the comments of out_packet_t, and the length say which.
Reads(type, n) ==
  CASE type = "5" -> {"ang", "wang"}
    [] type = "3" -> IF n = 1 THEN {"sp"} ELSE {"ang", "wang"}
    [] type = "E" -> IF n = 1 THEN {"wang"} ELSE {"wang", "sp"}
    [] type \in {"e", "4"} -> CASE n = 1 -> {"ang"} [] n = 2 -> {"ang", "sp"}
                              [] n = 3 -> Fields

\* What a client makes of a packet that it reads differently; a client that
\* has no session knows no more.
Garbled == -1

-----------------------------------------------------------------------------

\* CreateSnake sets both angles to the same value, and packet_add_snake sends
\* it for both.
Init ==
  /\ bot \in BOOLEAN /\ watching \in BOOLEAN
  /\ angle \in Angles
  /\ wangle = angle
  /\ toldAngle = IF watching THEN angle ELSE Garbled
  /\ toldWangle = toldAngle
  /\ changeWangle = FALSE /\ late = FALSE
  /\ rot_ticks = 0 /\ ai_ticks = 0
  /\ toldWay = "none"

\* on_open of the client: packet_add_snake sends the angle a second time where
\* the client expects the wanted angle.
Join ==
  /\ ~watching
  /\ watching' = TRUE
  /\ toldAngle' = angle /\ toldWangle' = angle
  /\ toldWay' = "none"
  /\ late' = (angle # wangle /\ ~changeWangle)
  /\ UNCHANGED <<bot, angle, wangle, changeWangle, rot_ticks, ai_ticks>>

\* A steering packet: on_message computes pi * packet_type / 125.
Steer(a) ==
  /\ ~bot
  /\ wangle' = a
  /\ changeWangle' = TRUE
  /\ UNCHANGED <<bot, angle, rot_ticks, ai_ticks, told>>

\* TickAI runs when an AI frame is over.  It aims at right angles to the line
\* from the centre of the map, which may be any direction.
Aims(dt) == bot /\ ai_ticks + dt > ai_step_interval

TickAI(dt, aim) ==
  /\ wangle' = IF Aims(dt) THEN aim ELSE wangle
  /\ ai_ticks' = IF Aims(dt) THEN (ai_ticks + dt) % ai_step_interval
                 ELSE IF bot THEN ai_ticks + dt ELSE ai_ticks

RotatedForward(rotation) ==
  normalize_angle(IF Abs(Way(angle, wangle')) < rotation THEN wangle'
                  ELSE angle + rotation)

RotatedUnnormalized(rotation) ==
  LET way == Way(angle, wangle')
  IN  IF Abs(way) < rotation THEN wangle'
      ELSE IF way > 0 THEN angle + rotation ELSE angle - rotation

RotatedPastTarget(rotation) ==
  LET way == Way(angle, wangle')
  IN  normalize_angle(IF way > 0 THEN angle + rotation ELSE angle - rotation)

\* The angle after a rotation, towards the wanted angle TickAI has left.
Rotated(rotation) ==
  LET way == Way(angle, wangle')
  IN  normalize_angle(IF Abs(way) < rotation THEN wangle'
                      ELSE IF way > 0 THEN angle + rotation
                      ELSE angle - rotation)

\* BroadcastUpdates: the new angle if there is one, with it the wanted angle
\* if that is marked, and the speed if Tick has changed it.  The client has
\* only letter and length to go by.
SendRotation(rotated, marked, speeds) ==
  LET fields == (IF rotated THEN {"ang"} ELSE {})
                  \cup (IF rotated /\ marked THEN {"wang"} ELSE {})
                  \cup (IF speeds THEN {"sp"} ELSE {})
      cw == is_clockwise(angle', wangle')
      read == IF fields = {} \/ ~watching THEN {}
              ELSE Reads(get_rot_type(fields, cw), Bytes(fields))
  IN  /\ toldAngle' = IF "ang" \notin read THEN toldAngle
                      ELSE IF read = fields THEN angle' ELSE Garbled
      /\ IF "wang" \in read
         THEN /\ toldWangle' = IF read = fields THEN wangle' ELSE Garbled
              /\ toldWay' = IF cw THEN "cw" ELSE "ccw"
              /\ late' = FALSE
         ELSE UNCHANGED <<toldWangle, toldWay, late>>
      /\ changeWangle' = (marked /\ ~rotated)
      /\ UNCHANGED watching

\* on_timer, as far as it concerns the angles of one snake.  The time counts
\* only while the angles differ, and a mark stays until the angle changes.
on_timer(dt, aim, speeds) ==
  LET time == rot_ticks + dt
      frames == time \div rot_step_interval
      turning == angle # wangle'
      rotated == turning /\ frames > 0
  IN  /\ TickAI(dt, aim)
      /\ angle' = IF rotated THEN Rotated(Turn * frames) ELSE angle
      /\ rot_ticks' = IF rotated THEN time % rot_step_interval
                      ELSE IF turning THEN time ELSE rot_ticks
      /\ SendRotation(rotated, changeWangle \/ (Aims(dt) /\ aim # wangle), speeds)
      /\ UNCHANGED bot

TimerStep ==
  \E dt \in Delays, speeds \in BOOLEAN :
    \E aim \in IF Aims(dt) THEN Angles ELSE {wangle} : on_timer(dt, aim, speeds)

Next ==
  \/ \E a \in 0 .. Circle : Steer(a)
  \/ Join
  \/ TimerStep

Spec == Init /\ [][Next]_vars

\* The timer keeps ticking; players and bots steer as they like, and the client
\* need not come.
FairSpec == Spec /\ WF_vars(TimerStep)

-----------------------------------------------------------------------------
(* Properties *)

\* Types; the angle is normalised whatever was wanted, which write_ang8 and
\* write_ang24 rely on, and less than a frame of time is left over.
TypeOK ==
  /\ bot \in BOOLEAN /\ changeWangle \in BOOLEAN
  /\ watching \in BOOLEAN /\ late \in BOOLEAN
  /\ angle \in Angles /\ toldAngle \in Angles \cup {Garbled}
  /\ wangle \in 0 .. Circle /\ toldWangle \in 0 .. Circle \cup {Garbled}
  /\ rot_ticks \in 0 .. rot_step_interval - 1
  /\ ai_ticks \in 0 .. ai_step_interval
  /\ toldWay \in {"none", "cw", "ccw"}

\* A client knows how the snake lies, and where it is turning to unless that
\* is still marked as a change to be sent or the client came in the middle of
\* the turn: no steering is lost between the packet that sets the mark and the
\* broadcast that clears it, a client that comes in between is told by the
\* broadcast, and no packet is misread, although it has no list of its fields
\* and the letters are shared between combinations of them.  What a late client
\* is not told is the subject of NewcomersKnowWhereTo.
ClientsKnowAngles ==
  watching => /\ toldAngle = angle
              /\ changeWangle \/ late \/ toldWangle = wangle

\* The snake turns the way the client was told: get_rot_type works out the
\* direction from the angles after the rotation, Snake::Tick from the ones
\* before the next, and they agree until the wanted angle changes, however
\* many rotations later and also when the target is just opposite.
TurnsAsTold ==
  [][wangle' = wangle /\ ~changeWangle /\ angle' # angle /\ toldWay # "none"
       => (Way(angle, angle') > 0) = (toldWay = "cw")]_vars

\* A snake turns the short way and never past its target: no step that leaves
\* the wanted angle alone takes it further away, however long the step was.
TurnsTowards ==
  [][wangle' = wangle =>
       Abs(Way(angle', wangle')) <= Abs(Way(angle, wangle))]_vars

Settles(w) == <>[](wangle = w) => <>[](angle = wangle)

\* A snake that is steered to a direction and then left alone comes to lie in
\* it, and no more rotation packets are sent.
SteeringSettles == \A w \in Angles : Settles(w)

\* p_base.h says that 0 and 250 point right: a snake steered to 250 comes to
\* rest like one steered to 0.
FullCircleSettles == Settles(Circle)

\* p_snake.h says that packet_add_snake carries eang and wang, the angles of
\* the snake: a client knows the direction the snake turns to, also if it came
\* when the wanted angle had already been sent to the others.
NewcomersKnowWhereTo ==
  watching => changeWangle \/ normalize_angle(toldWangle) = normalize_angle(wangle)
=============================================================================
