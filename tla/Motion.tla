------------------------------- MODULE Motion -------------------------------
(***************************************************************************)
(* Time and speed: how the wall clock reaches a snake's movement.          *)
(* GameServer::on_timer measures dt (src/src/server/game.cc), World::Tick  *)
(* cuts it into virtual frames (src/src/game/world.cc), and Snake::Tick    *)
(* turns those into movement frames whose length depends on the speed      *)
(* that the same Tick then changes (src/src/game/snake.cc).                *)
(*                                                                         *)
(* One snake, with the numbers of the code.  A speed is in pixels per      *)
(* second, a time in milliseconds, a distance in 1/1000 pixel.             *)
(***************************************************************************)
EXTENDS Integers

\* A definition followed by one that is the real operation is a faulty variant
\* of it that no specification uses.

CONSTANTS
  Delays,   \* the times that may pass between two calls of on_timer
  MaxTime   \* bound: the run ends when that much time has passed

ASSUME DelaysAssumption == Delays \subseteq Nat
ASSUME MaxTimeAssumption == MaxTime \in Nat

VARIABLES
  elapsed,       \* history: the sum of all dt
  ticks,         \* World::ticks
  frames,        \* World::frames
  mov_ticks,     \* Snake::mov_ticks
  used,          \* history: the time that has become movement
  speed,         \* Snake::speed
  acceleration,  \* Snake::acceleration
  moved          \* history: the distance of the last Tick

vars == <<elapsed, ticks, frames, mov_ticks, used, speed, acceleration, moved>>

frame_time_ms      == 8
move_step_distance == 42
base_move_speed    == 185
boost_speed        == 448
speed_acceleration == 1000
sector_size        == 300

\* The length of a movement frame: one step at this speed.
mov_frame_interval(sp) == (1000 * move_step_distance) \div sp

\* The whole frames in a time, as a time.
Whole(time, frame) == (time \div frame) * frame

Init ==
  /\ elapsed = 0 /\ ticks = 0 /\ frames = 0
  /\ mov_ticks = 0 /\ used = 0 /\ moved = 0
  /\ speed = base_move_speed
  /\ acceleration = FALSE

\* in_packet_t_start_acc and in_packet_t_stop_acc
SetAcceleration(on) ==
  /\ acceleration' = on
  /\ UNCHANGED <<elapsed, ticks, frames, mov_ticks, used, speed, moved>>

NewSpeedOvershoots(wantedSpeed, frames_ticks) ==
  LET acc == ((speed_acceleration * frames_ticks) \div 1000) % 65536
  IN  IF wantedSpeed = speed THEN speed
      ELSE IF wantedSpeed > speed THEN speed + acc ELSE speed - acc

\* The speed after frames_ticks of acceleration towards wantedSpeed; acc is a
\* uint16_t.
NewSpeed(wantedSpeed, frames_ticks) ==
  LET acc == ((speed_acceleration * frames_ticks) \div 1000) % 65536
      gap == IF wantedSpeed > speed THEN wantedSpeed - speed
                                    ELSE speed - wantedSpeed
  IN  IF gap <= acc THEN wantedSpeed
      ELSE IF wantedSpeed > speed THEN speed + acc ELSE speed - acc

\* The movement of a Tick that reaches a frame.  short: parts.size() <= 3,
\* which ends a boost.
MoveOneFrame(time, short) ==
  LET frames_ticks == mov_frame_interval(speed)
      boosts == acceleration /\ ~short
  IN  /\ mov_ticks' = time - frames_ticks
      /\ used' = used + frames_ticks
      /\ moved' = speed * frames_ticks
      /\ acceleration' = boosts
      /\ speed' = NewSpeed(IF boosts THEN boost_speed ELSE base_move_speed,
                           frames_ticks)

MoveAtNewSpeed(time, short) ==
  LET frames_ticks == Whole(time, mov_frame_interval(speed))
      boosts == acceleration /\ ~short
  IN  /\ mov_ticks' = time - frames_ticks
      /\ used' = used + frames_ticks
      /\ acceleration' = boosts
      /\ speed' = NewSpeed(IF boosts THEN boost_speed ELSE base_move_speed,
                           frames_ticks)
      /\ moved' = speed' * frames_ticks

Move(time, short) ==
  LET frames_ticks == Whole(time, mov_frame_interval(speed))
      boosts == acceleration /\ ~short
  IN  /\ mov_ticks' = time - frames_ticks
      /\ used' = used + frames_ticks
      /\ moved' = speed * frames_ticks
      /\ acceleration' = boosts
      /\ speed' = NewSpeed(IF boosts THEN boost_speed ELSE base_move_speed,
                           frames_ticks)

\* Snake::Tick(dt)
SnakeTick(dt, short) ==
  LET time == mov_ticks + dt
  IN  IF time >= mov_frame_interval(speed)
      THEN Move(time, short)
      ELSE /\ mov_ticks' = time
           /\ moved' = 0
           /\ UNCHANGED <<used, acceleration, speed>>

\* World::Tick(dt)
WorldTick(dt, short) ==
  LET vfr == (ticks + dt) \div frame_time_ms
  IN  /\ ticks' = ticks + dt - vfr * frame_time_ms
      /\ frames' = frames + vfr
      /\ IF vfr > 0
         THEN SnakeTick(vfr * frame_time_ms, short)
         ELSE /\ moved' = 0
              /\ UNCHANGED <<mov_ticks, used, acceleration, speed>>

\* on_timer: NextTick(now) makes the next dt start where this one ended.
on_timer(dt, short) ==
  /\ elapsed + dt <= MaxTime
  /\ elapsed' = elapsed + dt
  /\ WorldTick(dt, short)

Next ==
  \/ \E on \in BOOLEAN : SetAcceleration(on)
  \/ \E dt \in Delays, short \in BOOLEAN : on_timer(dt, short)

Spec == Init /\ [][Next]_vars

-----------------------------------------------------------------------------
(* Properties *)

\* Types; the speed stays between the base and the boost speed, so that a
\* movement frame never has length zero and the speed byte of packet_rotation
\* (18 * speed / 32) fits in eight bits.
TypeOK ==
  /\ elapsed \in Nat /\ frames \in Nat /\ used \in Nat /\ moved \in Nat
  /\ ticks \in 0 .. frame_time_ms - 1
  /\ mov_ticks \in Nat
  /\ speed \in base_move_speed .. boost_speed
  /\ acceleration \in BOOLEAN

\* No time is lost or counted twice: what on_timer measured is in the frames
\* that have passed and in World::ticks, and what the frames handed to the
\* snake is in its movement and in mov_ticks, although the length of a
\* movement frame changes with the speed; and none piles up: what is left is
\* less than the longest movement frame.
TimeAccounting ==
  /\ frame_time_ms * frames + ticks = elapsed
  /\ used + mov_ticks = frame_time_ms * frames
  /\ mov_ticks < mov_frame_interval(base_move_speed)

\* A snake inside death_radius before a Tick is on the grid of sectors after
\* it: UpdateEatenFood looks up the sector of the head before CheckSnakeBounds
\* has looked at the border, and relies on the margin of one sector.
MoveStaysInMargin == moved <= 1000 * sector_size
=============================================================================
