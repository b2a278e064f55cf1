---------------------------- MODULE MotionProofs ----------------------------
(***************************************************************************)
(* Proofs about Motion, for every pattern of timer delays and without a    *)
(* bound on the time that passes.                                          *)
(***************************************************************************)
EXTENDS Motion, TLAPS

\* The remainder a Tick leaves is less than a frame at the speed before the
\* Tick, and the speed is never below base_move_speed.
MotionInv == TypeOK /\ TimeAccounting

\* What integer division by a positive number gives.
LEMMA Division ==
  ASSUME NEW a \in Nat, NEW b \in Nat, b > 0
  PROVE  /\ a \div b \in Nat
         /\ (a \div b) * b <= a
         /\ a - (a \div b) * b < b
         /\ (a \div b) * b \in Nat
<1>1. a = b * (a \div b) + (a % b) /\ a % b \in 0 .. b - 1 /\ a \div b \in Nat
  BY Z3
<1> QED  BY <1>1

\* A movement frame lasts between 93 and 227 milliseconds and covers at most
\* move_step_distance.
LEMMA IntervalFacts ==
  ASSUME NEW sp \in base_move_speed .. boost_speed
  PROVE  /\ mov_frame_interval(sp) \in 93 .. 227
         /\ mov_frame_interval(sp) * sp <= 1000 * move_step_distance
         /\ mov_frame_interval(base_move_speed) = 227
<1> DEFINE f == 42000 \div sp
<1>1. sp \in Nat /\ sp >= 185 /\ sp <= 448
  BY DEF base_move_speed, boost_speed
<1>2. f \in Nat /\ f * sp <= 42000 /\ 42000 - f * sp < sp
  BY <1>1, Division
<1> HIDE DEF f
<1>3. f * 185 <= f * sp /\ f * sp <= f * 448
  BY <1>1, <1>2
<1>4. f <= 227 /\ f >= 93
  BY <1>1, <1>2, <1>3
<1>5. mov_frame_interval(sp) = f
  BY DEF f, mov_frame_interval, move_step_distance
<1>6. mov_frame_interval(base_move_speed) = 227
  BY DEF mov_frame_interval, move_step_distance, base_move_speed
<1> QED  BY <1>2, <1>4, <1>5, <1>6 DEF move_step_distance

\* Acceleration never leaves the range of speeds.
LEMMA SpeedFacts ==
  ASSUME speed \in base_move_speed .. boost_speed, NEW t \in Nat,
         NEW w \in {base_move_speed, boost_speed}
  PROVE  NewSpeed(w, t) \in base_move_speed .. boost_speed
<1> DEFINE whole == (speed_acceleration * t) \div 1000
           acc == whole % 65536
<1>1. whole \in Nat
  BY DEF speed_acceleration
<1>2. acc \in Nat
  <2> HIDE DEF whole
  <2> QED  BY <1>1
<1> HIDE DEF acc
<1>3. NewSpeed(w, t) =
        LET gap == IF w > speed THEN w - speed ELSE speed - w
        IN  IF gap <= acc THEN w
            ELSE IF w > speed THEN speed + acc ELSE speed - acc
  BY DEF NewSpeed, acc
<1> QED  BY <1>2, <1>3 DEF base_move_speed, boost_speed

\* The state starts in the invariant: nothing has moved.
LEMMA InitMotion == Init => MotionInv
<1>1. base_move_speed \in base_move_speed .. boost_speed
  BY DEF base_move_speed, boost_speed
<1>2. mov_frame_interval(base_move_speed) = 227
  BY <1>1, IntervalFacts
<1>3. Init => acceleration \in BOOLEAN
  BY Zenon DEF Init
<1>4. Init => TypeOK
  BY <1>1, <1>3 DEF Init, TypeOK, frame_time_ms
<1>5. Init => TimeAccounting
  BY <1>2 DEF Init, TimeAccounting, frame_time_ms
<1> QED  BY <1>4, <1>5 DEF MotionInv

\* What Move does: it uses whole frames of the old speed and keeps the rest.
LEMMA MoveFacts ==
  ASSUME MotionInv, NEW time \in Nat, NEW short \in BOOLEAN, Move(time, short)
  PROVE  /\ mov_ticks' \in Nat /\ mov_ticks' < 227
         /\ used' \in Nat /\ used' + mov_ticks' = used + time
         /\ speed' \in base_move_speed .. boost_speed
         /\ acceleration' \in BOOLEAN
         /\ moved' \in Nat
         /\ time < 744 => moved' <= 7 * 1000 * move_step_distance
<1> DEFINE f == mov_frame_interval(speed)
           k == time \div f
           boosts == acceleration /\ ~short
           w == IF boosts THEN boost_speed ELSE base_move_speed
<1>1. /\ speed \in base_move_speed .. boost_speed /\ speed \in Nat
      /\ used \in Nat
  BY DEF MotionInv, TypeOK, base_move_speed, boost_speed
<1>2. f \in 93 .. 227 /\ f * speed <= 42000 /\ f \in Nat /\ f > 0
  <2>1. f \in 93 .. 227 /\ f * speed <= 1000 * move_step_distance
    BY <1>1, IntervalFacts
  <2> QED  BY <2>1 DEF move_step_distance
<1> HIDE DEF f
<1>3. k \in Nat /\ k * f <= time /\ time - k * f < f /\ k * f \in Nat
  BY <1>2, Division
<1> HIDE DEF k
<1>4. /\ mov_ticks' = time - k * f
      /\ used' = used + k * f
      /\ moved' = speed * (k * f)
      /\ speed' = NewSpeed(w, k * f)
  BY DEF Move, Whole, f, k
<1>5. acceleration' = boosts
  BY DEF Move
<1>6. acceleration' \in BOOLEAN
  BY <1>5, Zenon DEF MotionInv, TypeOK
<1>7. w \in {base_move_speed, boost_speed}
  OBVIOUS
<1>8. speed' \in base_move_speed .. boost_speed
  BY <1>1, <1>3, <1>4, <1>7, SpeedFacts
<1>9. moved' = k * (f * speed)
  BY <1>1, <1>2, <1>3, <1>4
<1>10. f * speed \in Nat
  BY <1>1, <1>2
<1>11. moved' \in Nat
  BY <1>3, <1>9, <1>10
<1>12. ASSUME time < 744 PROVE moved' <= 294000
  <2>1. k * 93 <= k * f
    BY <1>2, <1>3
  <2>2. k <= 7
    BY <2>1, <1>3, <1>12
  <2>3. k * (f * speed) <= k * 42000
    BY <1>2, <1>3, <1>10
  <2>4. moved' \in Nat /\ moved' <= k * 42000
    BY <2>3, <1>9, <1>11
  <2> HIDE DEF k
  <2> QED  BY <2>2, <2>4, <1>3
<1> QED  BY <1>1, <1>2, <1>3, <1>4, <1>6, <1>8, <1>11, <1>12
         DEF move_step_distance

\* What WorldTick hands to the snake: whole virtual frames.
LEMMA FrameFacts ==
  ASSUME MotionInv, NEW dt \in Nat
  PROVE  LET vfr == (ticks + dt) \div frame_time_ms
         IN  /\ vfr \in Nat
             /\ ticks + dt - vfr * frame_time_ms \in 0 .. frame_time_ms - 1
             /\ dt <= 512 => vfr * frame_time_ms <= 512
BY DEF MotionInv, TypeOK, frame_time_ms

\* A step keeps the invariant, and after delays of at most 512 milliseconds it
\* moves the head by at most seven steps.
LEMMA StepMotion ==
  ASSUME MotionInv, [Next]_vars
  PROVE  /\ MotionInv'
         /\ MoveStaysInMargin /\ Delays \subseteq 0 .. 512 => MoveStaysInMargin'
<1> USE DEF MotionInv
<1>1. mov_frame_interval(base_move_speed) = 227
  BY IntervalFacts DEF base_move_speed, boost_speed
<1>2. ASSUME NEW on \in BOOLEAN, SetAcceleration(on)
      PROVE  MotionInv' /\ (MoveStaysInMargin => MoveStaysInMargin')
  <2>1. acceleration' \in BOOLEAN
    BY <1>2 DEF SetAcceleration
  <2> QED  BY <1>2, <2>1 DEF SetAcceleration, TypeOK, TimeAccounting,
              MoveStaysInMargin
<1>3. ASSUME NEW dt \in Delays, NEW short \in BOOLEAN, on_timer(dt, short)
      PROVE  MotionInv' /\ (Delays \subseteq 0 .. 512 => MoveStaysInMargin')
  <2> DEFINE vfr == (ticks + dt) \div frame_time_ms
  <2>1. dt \in Nat /\ (Delays \subseteq 0 .. 512 => dt <= 512)
    BY DelaysAssumption
  <2>2. /\ vfr \in Nat
        /\ ticks + dt - vfr * 8 \in 0 .. 7
        /\ dt <= 512 => vfr * 8 <= 512
    BY <2>1, FrameFacts DEF frame_time_ms
  <2>3. /\ elapsed' = elapsed + dt
        /\ ticks' = ticks + dt - vfr * 8
        /\ frames' = frames + vfr
    BY <1>3 DEF on_timer, WorldTick, frame_time_ms
  <2>4. /\ vfr > 0 => SnakeTick(vfr * 8, short)
        /\ ~(vfr > 0) => /\ moved' = 0
                         /\ UNCHANGED <<mov_ticks, used, acceleration, speed>>
    BY <1>3 DEF on_timer, WorldTick, frame_time_ms
  <2> HIDE DEF vfr
  <2>5. /\ mov_ticks \in Nat /\ mov_ticks < 227 /\ used \in Nat /\ ticks \in 0 .. 7
        /\ elapsed \in Nat /\ frames \in Nat
        /\ 8 * frames + ticks = elapsed /\ used + mov_ticks = 8 * frames
    BY <1>1 DEF TypeOK, TimeAccounting, frame_time_ms
  <2> DEFINE time == mov_ticks + vfr * 8
             Result == /\ mov_ticks' \in Nat /\ mov_ticks' < 227
                       /\ used' \in Nat /\ used' + mov_ticks' = used + time
                       /\ speed' \in base_move_speed .. boost_speed
                       /\ acceleration' \in BOOLEAN
                       /\ moved' \in Nat
                       /\ time < 744 => moved' <= 294000
  <2>6. time \in Nat
    BY <2>2, <2>5
  <2>7. Result
    <3>1. CASE vfr > 0 /\ time >= mov_frame_interval(speed)
      <4>1. Move(time, short)
        BY <3>1, <2>4 DEF SnakeTick
      <4> HIDE DEF time
      <4> QED  BY <4>1, <2>6, MoveFacts DEF move_step_distance
    <3>2. CASE vfr > 0 /\ ~(time >= mov_frame_interval(speed))
      <4>1. mov_ticks' = time /\ moved' = 0
        BY <3>2, <2>4 DEF SnakeTick
      <4>2. UNCHANGED <<used, acceleration, speed>>
        BY <3>2, <2>4 DEF SnakeTick
      <4>3. mov_frame_interval(speed) \in 93 .. 227
        BY IntervalFacts DEF TypeOK
      <4>4. acceleration' \in BOOLEAN
        BY <4>2, Zenon DEF TypeOK
      <4> QED  BY <4>1, <4>2, <4>3, <4>4, <3>2, <2>5, <2>6 DEF TypeOK
    <3>3. CASE ~(vfr > 0)
      <4>1. vfr * 8 = 0
        BY <3>3, <2>2
      <4>2. moved' = 0 /\ UNCHANGED <<mov_ticks, used, acceleration, speed>>
        BY <3>3, <2>4
      <4>3. acceleration' \in BOOLEAN
        BY <4>2, Zenon DEF TypeOK
      <4> QED  BY <4>1, <4>2, <4>3, <2>5 DEF TypeOK
    <3> QED  BY <3>1, <3>2, <3>3
  <2>8. TypeOK'
    <3>1. acceleration' \in BOOLEAN
      BY <2>7
    <3>2. speed' \in base_move_speed .. boost_speed
      BY <2>7
    <3>3. /\ elapsed' \in Nat /\ frames' \in Nat /\ ticks' \in 0 .. 7
      BY <2>1, <2>2, <2>3, <2>5
    <3>4. used' \in Nat /\ moved' \in Nat /\ mov_ticks' \in Nat
      BY <2>7
    <3>5. 0 .. frame_time_ms - 1 = 0 .. 7
      BY DEF frame_time_ms
    <3> HIDE DEF Result
    <3> QED  BY <3>1, <3>2, <3>3, <3>4, <3>5, Zenon DEF TypeOK
  <2>9. TimeAccounting'
    <3>1. 8 * frames' + ticks' = elapsed'
      BY <2>1, <2>2, <2>3, <2>5
    <3>2. used' + mov_ticks' = used + (mov_ticks + vfr * 8)
      BY <2>7, SMT
    <3>3. used + (mov_ticks + vfr * 8) = 8 * frames'
      BY <2>2, <2>3, <2>5, SMT
    <3>4. mov_ticks' < mov_frame_interval(base_move_speed)
      BY <2>7, <1>1
    <3> QED  BY <3>1, <3>2, <3>3, <3>4, SMT DEF TimeAccounting, frame_time_ms
  <2>10. ASSUME Delays \subseteq 0 .. 512 PROVE MoveStaysInMargin'
    BY <2>10, <2>1, <2>2, <2>5, <2>7 DEF MoveStaysInMargin, sector_size
  <2> QED  BY <2>8, <2>9, <2>10
<1>4. CASE UNCHANGED vars
  BY <1>4 DEF vars, TypeOK, TimeAccounting, MoveStaysInMargin
<1> QED  BY <1>2, <1>3, <1>4 DEF Next

\* The invariant holds in every reachable state.
LEMMA MotionAlways == Spec => []MotionInv
BY InitMotion, StepMotion, PTL DEF Spec

\* The speed stays between base_move_speed and boost_speed, so that the
\* division in Snake::Tick is never by zero.
THEOREM MotionTypeCorrect == Spec => []TypeOK
<1>1. MotionInv => TypeOK
  BY DEF MotionInv
<1> QED  BY <1>1, MotionAlways, PTL

\* No time is lost or counted twice between on_timer, World::Tick and
\* Snake::Tick, for every pattern of delays and speed changes.
THEOREM TimeIsAccounted == Spec => []TimeAccounting
<1>1. MotionInv => TimeAccounting
  BY DEF MotionInv
<1> QED  BY <1>1, MotionAlways, PTL

\* As long as no two calls of on_timer are more than 512 milliseconds apart, a
\* Tick moves a head by less than the margin between border and grid, however
\* the snake had accelerated and slowed down before.
THEOREM MovesStayInMargin ==
  ASSUME Delays \subseteq 0 .. 512
  PROVE  Spec => []MoveStaysInMargin
<1>1. Init => MoveStaysInMargin
  BY DEF Init, MoveStaysInMargin, sector_size
<1>2. MotionInv /\ MoveStaysInMargin /\ [Next]_vars => MoveStaysInMargin'
  BY StepMotion
<1> QED  BY <1>1, <1>2, MotionAlways, PTL DEF Spec

-----------------------------------------------------------------------------
(* How late on_timer may be for what the other proofs assume of a Tick *)

\* A Tick moves a snake by one movement frame at most.
OneStepATick == moved <= 1000 * move_step_distance

\* A Tick moves a head by less than half a sector.
HalfASectorATick == moved < 500 * sector_size

\* With less than n + 1 frames of time Move makes at most n steps, and with a
\* whole frame at least one.
LEMMA StepsMoved ==
  ASSUME MotionInv, NEW time \in Nat, NEW short \in BOOLEAN, Move(time, short),
         NEW n \in Nat, time < (n + 1) * mov_frame_interval(speed),
         time >= mov_frame_interval(speed)
  PROVE  /\ moved' <= n * 42000
         /\ mov_ticks' <= time - mov_frame_interval(speed)
<1> DEFINE f == mov_frame_interval(speed)
           k == time \div f
<1>1. speed \in base_move_speed .. boost_speed /\ speed \in Nat
  BY DEF MotionInv, TypeOK, base_move_speed, boost_speed
<1>2. f \in Nat /\ f > 0 /\ f * speed <= 42000 /\ f * speed \in Nat
  <2>1. f \in 93 .. 227 /\ f * speed <= 1000 * move_step_distance
    BY <1>1, IntervalFacts
  <2> HIDE DEF f
  <2> QED  BY <1>1, <2>1 DEF move_step_distance
<1>3. time < (n + 1) * f /\ time >= f
  OBVIOUS
<1>4. mov_ticks' = time - k * f /\ moved' = speed * (k * f)
  BY DEF Move, Whole
<1> HIDE DEF f
<1>5. k \in Nat /\ k * f <= time /\ time - k * f < f /\ k * f \in Nat
  BY <1>2, Division
<1> HIDE DEF k
<1>6. k <= n
  <2>1. ASSUME k >= n + 1 PROVE FALSE
    <3>1. (n + 1) * f <= k * f
      BY <1>2, <1>5, <2>1
    <3>2. (n + 1) * f \in Nat
      BY <1>2
    <3> QED  BY <1>3, <1>5, <3>1, <3>2
  <2> QED  BY <1>5, <2>1
<1>7. k >= 1
  <2>1. ASSUME k = 0 PROVE FALSE
    BY <1>2, <1>3, <1>5, <2>1
  <2> QED  BY <1>5, <2>1
<1>8. k * f >= f
  BY <1>2, <1>5, <1>7
<1>9. moved' <= n * 42000
  <2>1. PICK x \in Nat : x = k * (f * speed)
    BY <1>2, <1>5
  <2>2. moved' = x
    BY <1>1, <1>2, <1>4, <1>5, <2>1
  <2>3. x <= k * 42000
    BY <1>2, <1>5, <2>1
  <2>4. k * 42000 <= n * 42000
    BY <1>5, <1>6
  <2>5. x <= n * 42000
    BY <1>5, <2>3, <2>4
  <2> QED  BY <2>2, <2>5
<1>10. mov_ticks' <= time - f
  BY <1>2, <1>4, <1>5, <1>8
<1> QED  BY <1>9, <1>10 DEF f

\* What on_timer does to the time and the distance, after a delay of at most d.
LEMMA TimerFacts ==
  ASSUME MotionInv, NEW dt \in Delays, NEW short \in BOOLEAN, on_timer(dt, short),
         NEW d \in Nat, d % 8 = 0, dt <= d
  PROVE  \/ mov_ticks' < mov_frame_interval(speed') /\ moved' = 0
         \/ /\ moved' = 0 /\ UNCHANGED <<mov_ticks, speed>>
         \/ \E time \in Nat : /\ time <= mov_ticks + d
                              /\ time >= mov_frame_interval(speed)
                              /\ Move(time, short)
<1> DEFINE vfr == (ticks + dt) \div frame_time_ms
           time == mov_ticks + vfr * frame_time_ms
<1>1. dt \in Nat /\ ticks \in 0 .. 7 /\ mov_ticks \in Nat
  BY DelaysAssumption DEF MotionInv, TypeOK, frame_time_ms
<1>2. vfr \in Nat /\ time \in Nat /\ time <= mov_ticks + d
  <2>1. vfr = (ticks + dt) \div 8
    BY DEF frame_time_ms
  <2> HIDE DEF vfr
  <2>2. vfr \in Nat /\ vfr * 8 <= d
    <3>1. PICK e \in Nat : d = 8 * e
      <4>1. d \div 8 \in Nat /\ d = 8 * (d \div 8)
        OBVIOUS
      <4> QED  BY <4>1
    <3>2. ticks + dt <= 8 * e + 7
      BY <1>1, <3>1
    <3> QED  BY <1>1, <2>1, <3>1, <3>2
  <2> QED  BY <1>1, <2>2 DEF frame_time_ms
<1>3. /\ vfr > 0 => SnakeTick(vfr * frame_time_ms, short)
      /\ ~ (vfr > 0) => moved' = 0 /\ UNCHANGED <<mov_ticks, used, acceleration, speed>>
  BY DEF on_timer, WorldTick
<1> HIDE DEF vfr
<1>4. CASE ~ (vfr > 0)
  BY <1>3, <1>4
<1>5. CASE vfr > 0 /\ time >= mov_frame_interval(speed)
  <2>1. Move(time, short)
    BY <1>3, <1>5 DEF SnakeTick
  <2> HIDE DEF time
  <2> QED  BY <1>2, <1>5, <2>1
<1>6. CASE vfr > 0 /\ ~ (time >= mov_frame_interval(speed))
  <2>1. mov_ticks' = time /\ moved' = 0 /\ speed' = speed
    BY <1>3, <1>6 DEF SnakeTick
  <2>2. mov_frame_interval(speed) \in 93 .. 227
    BY IntervalFacts DEF MotionInv, TypeOK
  <2>3. mov_ticks' < mov_frame_interval(speed')
    BY <1>2, <1>6, <2>1, <2>2
  <2> QED  BY <2>1, <2>3
<1> QED  BY <1>4, <1>5, <1>6

\* The time that is left over is less than a frame at the speed the snake now
\* has: what a Tick leaves is less than the shortest frame.
Prompt == mov_ticks < mov_frame_interval(speed) /\ OneStepATick

LEMMA StepPrompt ==
  ASSUME Delays \subseteq 0 .. 88, MotionInv, Prompt, [Next]_vars
  PROVE  Prompt'
<1>1. mov_ticks \in Nat /\ speed \in base_move_speed .. boost_speed
  BY DEF MotionInv, TypeOK
<1>2. mov_frame_interval(speed) \in 93 .. 227 /\ mov_ticks < mov_frame_interval(speed)
  BY <1>1, IntervalFacts DEF Prompt
<1>3. MotionInv'
  BY StepMotion
<1>4. mov_ticks' \in Nat /\ mov_frame_interval(speed') \in 93 .. 227
  <2>1. mov_ticks' \in Nat /\ speed' \in base_move_speed .. boost_speed
    BY <1>3 DEF MotionInv, TypeOK
  <2> QED  BY <2>1, IntervalFacts
<1>5. ASSUME NEW on \in BOOLEAN, SetAcceleration(on) PROVE Prompt'
  BY <1>5 DEF SetAcceleration, Prompt, OneStepATick
<1>6. ASSUME NEW dt \in Delays, NEW short \in BOOLEAN, on_timer(dt, short) PROVE Prompt'
  <2>1. dt <= 88 /\ 88 \in Nat /\ 88 % 8 = 0
    OBVIOUS
  <2>2. \/ mov_ticks' < mov_frame_interval(speed') /\ moved' = 0
        \/ moved' = 0 /\ UNCHANGED <<mov_ticks, speed>>
        \/ \E time \in Nat : /\ time <= mov_ticks + 88
                             /\ time >= mov_frame_interval(speed)
                             /\ Move(time, short)
    BY <1>6, <2>1, TimerFacts
  <2>3. CASE mov_ticks' < mov_frame_interval(speed') /\ moved' = 0
    BY <2>3 DEF Prompt, OneStepATick, move_step_distance
  <2>4. CASE moved' = 0 /\ UNCHANGED <<mov_ticks, speed>>
    BY <2>4 DEF Prompt, OneStepATick, move_step_distance
  <2>5. ASSUME NEW time \in Nat, time <= mov_ticks + 88,
               time >= mov_frame_interval(speed), Move(time, short)
        PROVE  Prompt'
    <3>1. time < (1 + 1) * mov_frame_interval(speed) /\ 1 \in Nat
      BY <1>1, <1>2, <2>5
    <3>2. moved' <= 1 * 42000 /\ mov_ticks' <= time - mov_frame_interval(speed)
      BY <2>5, <3>1, StepsMoved
    <3>3. mov_ticks' < mov_frame_interval(speed')
      BY <1>1, <1>2, <1>4, <2>5, <3>2
    <3> QED  BY <3>2, <3>3 DEF Prompt, OneStepATick, move_step_distance
  <2> QED  BY <2>2, <2>3, <2>4, <2>5
<1>7. CASE UNCHANGED vars
  BY <1>7 DEF vars, Prompt, OneStepATick
<1> QED  BY <1>5, <1>6, <1>7 DEF Next

\* As long as no two calls of on_timer are more than 88 milliseconds apart, every
\* Snake::Tick covers at most one movement frame, although frames become shorter
\* while a snake speeds up: what TouchesAreFound and BodyIsDrawn call on time.
THEOREM TicksAreOnTime ==
  ASSUME Delays \subseteq 0 .. 88
  PROVE  Spec => []OneStepATick
<1>1. Init => Prompt
  <2>1. mov_frame_interval(base_move_speed) = 227
    BY IntervalFacts DEF base_move_speed, boost_speed
  <2> QED  BY <2>1 DEF Init, Prompt, OneStepATick, move_step_distance
<1>2. MotionInv /\ Prompt /\ [Next]_vars => Prompt'
  BY StepPrompt
<1>3. Prompt => OneStepATick
  BY DEF Prompt
<1> QED  BY <1>1, <1>2, <1>3, MotionAlways, PTL DEF Spec

\* As long as no two calls of on_timer are more than 144 milliseconds apart, no
\* Snake::Tick moves a head by half a sector: what ViewStaysAroundHead asks for.
THEOREM MovesAreSmall ==
  ASSUME Delays \subseteq 0 .. 144
  PROVE  Spec => []HalfASectorATick
<1>1. Init => HalfASectorATick
  BY DEF Init, HalfASectorATick, sector_size
<1>2. ASSUME MotionInv, HalfASectorATick, [Next]_vars PROVE HalfASectorATick'
  <2>1. mov_ticks \in Nat /\ mov_ticks < 227 /\ mov_frame_interval(speed) \in 93 .. 227
    <3>1. mov_ticks \in Nat /\ speed \in base_move_speed .. boost_speed
      BY <1>2 DEF MotionInv, TypeOK
    <3>2. mov_frame_interval(base_move_speed) = 227 /\ mov_frame_interval(speed) \in 93 .. 227
      BY <3>1, IntervalFacts
    <3> QED  BY <1>2, <3>1, <3>2 DEF MotionInv, TimeAccounting
  <2>2. ASSUME NEW on \in BOOLEAN, SetAcceleration(on) PROVE HalfASectorATick'
    BY <1>2, <2>2 DEF SetAcceleration, HalfASectorATick
  <2>3. ASSUME NEW dt \in Delays, NEW short \in BOOLEAN, on_timer(dt, short)
        PROVE  HalfASectorATick'
    <3>1. dt <= 144 /\ 144 \in Nat /\ 144 % 8 = 0
      OBVIOUS
    <3>2. \/ moved' = 0
          \/ \E time \in Nat : /\ time <= mov_ticks + 144
                               /\ time >= mov_frame_interval(speed)
                               /\ Move(time, short)
      BY <1>2, <2>3, <3>1, TimerFacts
    <3>3. CASE moved' = 0
      BY <3>3 DEF HalfASectorATick, sector_size
    <3>4. ASSUME NEW time \in Nat, time <= mov_ticks + 144,
                 time >= mov_frame_interval(speed), Move(time, short)
          PROVE  HalfASectorATick'
      <4>1. time < (3 + 1) * mov_frame_interval(speed) /\ 3 \in Nat
        BY <2>1, <3>4
      <4>2. moved' <= 3 * 42000
        BY <1>2, <3>4, <4>1, StepsMoved
      <4>3. moved' \in Nat
        <5>1. MotionInv'
          BY <1>2, StepMotion
        <5> QED  BY <5>1 DEF MotionInv, TypeOK
      <4> QED  BY <4>2, <4>3 DEF HalfASectorATick, sector_size
    <3> QED  BY <3>2, <3>3, <3>4
  <2>4. CASE UNCHANGED vars
    BY <1>2, <2>4 DEF vars, HalfASectorATick
  <2> QED  BY <1>2, <2>2, <2>3, <2>4 DEF Next
<1> QED  BY <1>1, <1>2, MotionAlways, PTL DEF Spec
=============================================================================
