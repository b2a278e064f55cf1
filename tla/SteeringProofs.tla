--------------------------- MODULE SteeringProofs ---------------------------
(***************************************************************************)
(* Proofs about Steering, for every circle, rate of turn, interval and     *)
(* pattern of delays.                                                      *)
(***************************************************************************)
EXTENDS Steering, FiniteSetTheorems, TLAPS

-----------------------------------------------------------------------------
(* Angles *)

\* normalize_angle adds or takes off one full circle where that is enough.
LEMMA NormalizeOnce ==
  ASSUME NEW x \in Int, -Circle <= x, x < 2 * Circle
  PROVE  normalize_angle(x) = IF x < 0 THEN x + Circle
                              ELSE IF x < Circle THEN x ELSE x - Circle
<1> DEFINE C == Circle
           q == x \div C
           r == x % C
<1>1. C \in Nat /\ C > 0
  BY CircleAssumption
<1>2. q \in Int /\ r \in 0 .. C - 1 /\ x = C * q + r
  BY <1>1
<1> HIDE DEF q, r
<1>3. CASE q >= 2
  <2>1. C * q >= C * 2
    BY <1>1, <1>2, <1>3
  <2> QED
    BY <1>1, <1>2, <2>1
<1>4. CASE q <= -2
  <2>1. C * q <= C * (-2)
    BY <1>1, <1>2, <1>4
  <2> QED
    BY <1>1, <1>2, <2>1
<1>5. CASE q = 1
  <2>1. C * q = C
    BY <1>1, <1>5
  <2> QED
    BY <1>1, <1>2, <2>1 DEF normalize_angle, r
<1>6. CASE q = 0
  <2>1. C * q = 0
    BY <1>1, <1>6
  <2> QED
    BY <1>1, <1>2, <2>1 DEF normalize_angle, r
<1>7. CASE q = -1
  <2>1. C * q = -C
    BY <1>1, <1>7
  <2> QED
    BY <1>1, <1>2, <2>1 DEF normalize_angle, r
<1> QED
  BY <1>2, <1>3, <1>4, <1>5, <1>6, <1>7

\* The way from an angle to a wanted angle, without a remainder.
LEMMA WayIs ==
  ASSUME NEW a \in Angles, NEW w \in 0 .. Circle
  PROVE  /\ Way(a, w) \in Int
         /\ Way(a, w) \in {w - a, w - a + Circle, w - a - Circle}
         /\ 2 * Way(a, w) <= Circle /\ -Circle < 2 * Way(a, w)
<1>1. Circle \in Nat /\ Circle > 0 /\ a \in 0 .. Circle - 1
  BY CircleAssumption DEF Angles
<1> DEFINE d == normalize_angle(w - a)
<1>2. /\ d = IF w - a < 0 THEN w - a + Circle
             ELSE IF w - a < Circle THEN w - a ELSE w - a - Circle
  BY <1>1, NormalizeOnce
<1>3. Way(a, w) = IF 2 * d > Circle THEN d - Circle ELSE d
  BY DEF Way
<1> HIDE DEF d
<1> QED
  BY <1>1, <1>2, <1>3

\* Only one way is short enough.
LEMMA WayIsUnique ==
  ASSUME NEW a \in Angles, NEW w \in 0 .. Circle, NEW n \in Int,
         n \in {w - a, w - a + Circle, w - a - Circle},
         2 * n <= Circle, -Circle < 2 * n
  PROVE  Way(a, w) = n
<1>1. Circle \in Nat /\ Circle > 0 /\ a \in 0 .. Circle - 1
  BY CircleAssumption DEF Angles
<1> DEFINE m == Way(a, w)
<1>2. /\ m \in Int /\ m \in {w - a, w - a + Circle, w - a - Circle}
      /\ 2 * m <= Circle /\ -Circle < 2 * m
  BY WayIs
<1> HIDE DEF m
<1> QED
  BY <1>1, <1>2 DEF m

\* An angle that is turned by no more than the way to the target, and never by
\* nothing, lies nearer on the same side; what it has turned by is the way
\* between the two.
LEMMA TurnedBy ==
  ASSUME NEW a \in Angles, NEW w \in 0 .. Circle, NEW t \in Int,
         \/ 0 <= t /\ t <= Way(a, w)
         \/ 0 >= t /\ t >= Way(a, w)
  PROVE  /\ normalize_angle(a + t) \in Angles
         /\ Way(normalize_angle(a + t), w) = Way(a, w) - t
         /\ Way(a, normalize_angle(a + t)) = t
<1>1. Circle \in Nat /\ Circle > 0 /\ a \in 0 .. Circle - 1
  BY CircleAssumption DEF Angles
<1> DEFINE m == Way(a, w)
           b == normalize_angle(a + t)
<1>2. /\ m \in Int /\ m \in {w - a, w - a + Circle, w - a - Circle}
      /\ 2 * m <= Circle /\ -Circle < 2 * m
  BY WayIs
<1>3. (0 <= t /\ t <= m) \/ (0 >= t /\ t >= m)
  OBVIOUS
<1>4. b = IF a + t < 0 THEN a + t + Circle
          ELSE IF a + t < Circle THEN a + t ELSE a + t - Circle
  <2> HIDE DEF m
  <2>1. a + t \in Int /\ -Circle <= a + t /\ a + t < 2 * Circle
    BY <1>1, <1>2, <1>3
  <2> HIDE DEF b
  <2>2. PICK x \in Int : x = a + t
    BY <2>1
  <2>3. normalize_angle(x) = IF x < 0 THEN x + Circle
                             ELSE IF x < Circle THEN x ELSE x - Circle
    BY <2>1, <2>2, NormalizeOnce
  <2>4. b = normalize_angle(x)
    BY <2>2 DEF b
  <2> QED
    BY <1>1, <2>1, <2>2, <2>3, <2>4
<1> HIDE DEF m, b
<1>5. b \in Angles /\ b \in 0 .. Circle
  BY <1>1, <1>2, <1>3, <1>4 DEF Angles
<1>6. Way(b, w) = m - t
  <2>1. /\ m - t \in Int /\ 2 * (m - t) <= Circle /\ -Circle < 2 * (m - t)
    BY <1>1, <1>2, <1>3
  <2>2. m - t \in {w - b, w - b + Circle, w - b - Circle}
    <3>1. CASE m = w - a
      BY <1>1, <1>2, <1>3, <1>4, <3>1
    <3>2. CASE m = w - a + Circle
      BY <1>1, <1>2, <1>3, <1>4, <3>2
    <3>3. CASE m = w - a - Circle
      BY <1>1, <1>2, <1>3, <1>4, <3>3
    <3> QED
      BY <1>2, <3>1, <3>2, <3>3
  <2> QED
    BY <1>5, <2>1, <2>2, WayIsUnique
<1>7. Way(a, b) = t
  <2>1. 2 * t <= Circle /\ -Circle < 2 * t
    BY <1>1, <1>2, <1>3
  <2>2. t \in {b - a, b - a + Circle, b - a - Circle}
    BY <1>1, <1>2, <1>3, <1>4
  <2> QED
    BY <1>5, <2>1, <2>2, WayIsUnique
<1> QED
  BY <1>5, <1>6, <1>7 DEF m, b

\* A rotation turns towards the wanted angle, by no more than the way to it,
\* and by something unless there is no way to go: this includes the last one,
\* which ends at the wanted angle whatever the rate of turn.
LEMMA RotatedBy ==
  ASSUME angle \in Angles, wangle' \in 0 .. Circle, NEW rotation \in Nat \ {0}
  PROVE  \E t \in Int :
           /\ \/ 0 <= t /\ t <= Way(angle, wangle')
              \/ 0 >= t /\ t >= Way(angle, wangle')
           /\ t = 0 => Way(angle, wangle') = 0
           /\ Rotated(rotation) = normalize_angle(angle + t)
<1>1. Circle \in Nat /\ Circle > 0 /\ angle \in 0 .. Circle - 1
  BY CircleAssumption DEF Angles
<1> DEFINE m == Way(angle, wangle')
           w == wangle'
<1>2. /\ m \in Int /\ m \in {w - angle, w - angle + Circle, w - angle - Circle}
      /\ 2 * m <= Circle /\ -Circle < 2 * m
  BY WayIs
<1>3. w \in 0 .. Circle
  OBVIOUS
<1>4. Rotated(rotation)
        = normalize_angle(IF Abs(m) < rotation THEN w
                          ELSE IF m > 0 THEN angle + rotation
                          ELSE angle - rotation)
  BY DEF Rotated
<1> HIDE DEF m, w
<1>5. CASE Abs(m) < rotation
  <2>1. PICK x \in Int : x = angle + m
    BY <1>1, <1>2
  <2>2. w \in Int /\ -Circle <= w /\ w < 2 * Circle
    BY <1>1, <1>3
  <2>3. -Circle <= x /\ x < 2 * Circle
    BY <1>1, <1>2, <2>1
  <2>4. normalize_angle(w) = IF w < 0 THEN w + Circle
                             ELSE IF w < Circle THEN w ELSE w - Circle
    BY <2>2, NormalizeOnce
  <2>5. normalize_angle(x) = IF x < 0 THEN x + Circle
                             ELSE IF x < Circle THEN x ELSE x - Circle
    BY <2>3, NormalizeOnce
  <2>6. normalize_angle(w) = normalize_angle(x)
    BY <1>1, <1>2, <1>3, <2>1, <2>4, <2>5
  <2>7. Rotated(rotation) = normalize_angle(angle + m)
    BY <1>4, <1>5, <2>1, <2>6
  <2>8. (0 <= m /\ m <= m) \/ (0 >= m /\ m >= m)
    BY <1>2
  <2> QED
    BY <1>2, <2>7, <2>8 DEF m
<1>6. CASE ~(Abs(m) < rotation) /\ m > 0
  <2>1. 0 <= rotation /\ rotation <= m /\ rotation # 0 /\ rotation \in Int
    BY <1>2, <1>6 DEF Abs
  <2>2. Rotated(rotation) = normalize_angle(angle + rotation)
    BY <1>4, <1>6
  <2> QED
    BY <2>1, <2>2 DEF m
<1>7. CASE ~(Abs(m) < rotation) /\ ~(m > 0)
  <2>1. PICK t \in Int : t = -rotation
    OBVIOUS
  <2>2. 0 >= t /\ t >= m /\ t # 0
    BY <1>2, <1>7, <2>1 DEF Abs
  <2>3. angle - rotation = angle + t
    BY <1>1, <2>1
  <2>4. Rotated(rotation) = normalize_angle(angle + t)
    BY <1>4, <1>7, <2>3
  <2> QED
    BY <2>2, <2>4 DEF m
<1> QED
  BY <1>5, <1>6, <1>7

LEMMA ProductNotZero ==
  ASSUME NEW a \in Nat \ {0}, NEW b \in Nat \ {0}
  PROVE  a * b \in Nat \ {0}
  OBVIOUS

-----------------------------------------------------------------------------
(* Rotation packets *)

\* The combinations of fields that BroadcastUpdates sends.
Sent == {{"ang"}, {"ang", "wang"}, {"sp"}, {"ang", "sp"}, {"ang", "wang", "sp"}}

\* A client reads each of them back from its letter and its length.
LEMMA ReadsBack ==
  ASSUME NEW f \in Sent, NEW cw \in BOOLEAN
  PROVE  Reads(get_rot_type(f, cw), Bytes(f)) = f
<1>1. \A x : Cardinality({x}) = 1
  BY FS_Singleton
<1>2. IsFiniteSet({"ang"}) /\ Cardinality({"ang"}) = 1
  BY FS_Singleton
<1>3. /\ IsFiniteSet({"ang"} \cup {"wang"})
      /\ Cardinality({"ang"} \cup {"wang"}) = 2
  BY <1>2, FS_AddElement
<1>4. Cardinality({"ang"} \cup {"sp"}) = 2
  BY <1>2, FS_AddElement
<1>5. Cardinality(({"ang"} \cup {"wang"}) \cup {"sp"}) = 3
  BY <1>3, FS_AddElement
<1>6. /\ {"ang", "wang"} = {"ang"} \cup {"wang"}
      /\ {"ang", "sp"} = {"ang"} \cup {"sp"}
      /\ {"ang", "wang", "sp"} = ({"ang"} \cup {"wang"}) \cup {"sp"}
  OBVIOUS
<1>7. CASE f = {"ang"}
  <2>1. get_rot_type(f, cw) = "e"
    BY <1>7 DEF get_rot_type
  <2>2. Bytes(f) = 1
    BY <1>1, <1>7 DEF Bytes
  <2> QED
    BY <1>7, <2>1, <2>2 DEF Reads
<1>8. CASE f = {"sp"}
  <2>1. get_rot_type(f, cw) = "3"
    BY <1>8 DEF get_rot_type
  <2>2. Bytes(f) = 1
    BY <1>1, <1>8 DEF Bytes
  <2> QED
    BY <1>8, <2>1, <2>2 DEF Reads
<1>9. CASE f = {"ang", "wang"}
  <2>1. get_rot_type(f, cw) \in {"5", "3"}
    BY <1>9 DEF get_rot_type
  <2>2. Bytes(f) = 2
    BY <1>3, <1>6, <1>9 DEF Bytes
  <2> QED
    BY <1>9, <2>1, <2>2 DEF Reads
<1>10. CASE f = {"ang", "sp"}
  <2>1. get_rot_type(f, cw) = "e"
    BY <1>10 DEF get_rot_type
  <2>2. Bytes(f) = 2
    BY <1>4, <1>6, <1>10 DEF Bytes
  <2> QED
    BY <1>10, <2>1, <2>2 DEF Reads
<1>11. CASE f = {"ang", "wang", "sp"}
  <2>1. get_rot_type(f, cw) \in {"4", "e"}
    BY <1>11 DEF get_rot_type
  <2>2. Bytes(f) = 3
    BY <1>5, <1>6, <1>11 DEF Bytes
  <2> QED
    BY <1>11, <2>1, <2>2 DEF Reads, Fields
<1> QED
  BY <1>7, <1>8, <1>9, <1>10, <1>11 DEF Sent

\* What BroadcastUpdates leaves a client with: nothing if it has no session.
LEMMA SendRotationTells ==
  ASSUME NEW rotated \in BOOLEAN, NEW marked \in BOOLEAN, NEW speeds \in BOOLEAN,
         watching \in BOOLEAN, late \in BOOLEAN,
         SendRotation(rotated, marked, speeds)
  PROVE  /\ watching' = watching /\ late' \in BOOLEAN
         /\ late /\ ~(rotated /\ marked) => late'
         /\ toldAngle' = IF watching /\ rotated THEN angle' ELSE toldAngle
         /\ toldWangle' = IF watching /\ rotated /\ marked THEN wangle'
                          ELSE toldWangle
         /\ toldWay' = IF watching /\ rotated /\ marked
                       THEN IF Way(angle', wangle') > 0 THEN "cw" ELSE "ccw"
                       ELSE toldWay
         /\ changeWangle' = (marked /\ ~rotated)
<1> DEFINE fields == (IF rotated THEN {"ang"} ELSE {})
                       \cup (IF rotated /\ marked THEN {"wang"} ELSE {})
                       \cup (IF speeds THEN {"sp"} ELSE {})
           cw == is_clockwise(angle', wangle')
           read == IF fields = {} \/ ~watching THEN {}
                   ELSE Reads(get_rot_type(fields, cw), Bytes(fields))
<1>1. /\ toldAngle' = IF "ang" \notin read THEN toldAngle
                      ELSE IF read = fields THEN angle' ELSE Garbled
      /\ IF "wang" \in read
         THEN /\ toldWangle' = IF read = fields THEN wangle' ELSE Garbled
              /\ toldWay' = IF cw THEN "cw" ELSE "ccw"
              /\ late' = FALSE
         ELSE UNCHANGED <<toldWangle, toldWay, late>>
      /\ changeWangle' = (marked /\ ~rotated)
      /\ watching' = watching
  BY DEF SendRotation
<1>2. cw = (Way(angle', wangle') > 0) /\ cw \in BOOLEAN
  BY DEF is_clockwise
<1>3. fields \in Sent \cup {{}}
  BY DEF Sent
<1>4. /\ ("ang" \in fields) = rotated
      /\ ("wang" \in fields) = (rotated /\ marked)
  OBVIOUS
<1> HIDE DEF fields, cw
<1>5. CASE watching
  <2>1. read = fields
    BY <1>2, <1>3, <1>5, ReadsBack
  <2> HIDE DEF read
  <2> QED
    BY <1>1, <1>2, <1>4, <1>5, <2>1
<1>6. CASE ~watching
  <2>1. "ang" \notin read /\ "wang" \notin read
    BY <1>6
  <2> HIDE DEF read
  <2> QED
    BY <1>1, <1>6, <2>1
<1> QED
  BY <1>5, <1>6

-----------------------------------------------------------------------------
(* The inductive invariant *)

\* As long as no other wanted angle waits to be sent, the way that is left has
\* the direction the client was told with it; a client that has no session was
\* told none.
ToldWayLasts ==
  /\ ~changeWangle /\ toldWay # "none" /\ Way(angle, wangle) # 0
       => (Way(angle, wangle) > 0) = (toldWay = "cw")
  /\ ~watching => toldWay = "none"

IInv == TypeOK /\ ClientsKnowAngles /\ ToldWayLasts

LEMMA InitIInv == Init => IInv
<1> SUFFICES ASSUME Init PROVE IInv
  OBVIOUS
<1>1. Circle \in Nat /\ Circle > 0
  BY CircleAssumption
<1>2. TypeOK
  <2>1. /\ bot \in BOOLEAN /\ changeWangle \in BOOLEAN
        /\ watching \in BOOLEAN /\ late \in BOOLEAN
    BY DEF Init
  <2>2. /\ angle \in Angles /\ toldAngle \in Angles \cup {Garbled}
        /\ wangle \in 0 .. Circle /\ toldWangle \in 0 .. Circle \cup {Garbled}
    BY <1>1 DEF Init, Angles
  <2>3. /\ rot_ticks \in 0 .. rot_step_interval - 1
        /\ ai_ticks \in 0 .. ai_step_interval
        /\ toldWay \in {"none", "cw", "ccw"}
    BY IntervalAssumption DEF Init
  <2> QED
    BY <2>1, <2>2, <2>3 DEF TypeOK
<1>3. ClientsKnowAngles /\ ToldWayLasts
  BY DEF Init, ClientsKnowAngles, ToldWayLasts
<1> QED
  BY <1>2, <1>3 DEF IInv

\* A steering packet marks the wanted angle.
LEMMA SteerIInv ==
  ASSUME IInv, NEW a \in 0 .. Circle, Steer(a)
  PROVE  IInv'
<1> USE DEF Steer, told
<1>1. TypeOK'
  BY DEF IInv, TypeOK
<1>2. ClientsKnowAngles' /\ ToldWayLasts'
  BY DEF IInv, ClientsKnowAngles, ToldWayLasts
<1> QED
  BY <1>1, <1>2 DEF IInv

\* A newcomer is told the angle, and knows the wanted angle with it unless the
\* snake is turning.
LEMMA JoinIInv ==
  ASSUME IInv, Join
  PROVE  IInv'
<1> USE DEF Join
<1>1. TypeOK'
  <2>1. late' \in BOOLEAN /\ watching' \in BOOLEAN
    OBVIOUS
  <2>2. Angles \subseteq 0 .. Circle
    BY CircleAssumption DEF Angles
  <2> QED
    BY <2>1, <2>2 DEF IInv, TypeOK
<1>2. ClientsKnowAngles'
  BY DEF ClientsKnowAngles
<1>3. ToldWayLasts'
  BY DEF ToldWayLasts
<1> QED
  BY <1>1, <1>2, <1>3 DEF IInv

\* What on_timer does to the angles: it leaves the angle alone or turns it by t
\* towards the wanted angle, and tells the clients.
LEMMA TimerTurns ==
  ASSUME IInv, NEW dt \in Delays, NEW speeds \in BOOLEAN,
         NEW aim \in IF Aims(dt) THEN Angles ELSE {wangle},
         on_timer(dt, aim, speeds)
  PROVE  \E rotated \in BOOLEAN, marked \in BOOLEAN, t \in Int :
           /\ ~marked => ~changeWangle /\ wangle' = wangle
           /\ rotated => angle' = normalize_angle(angle + t)
           /\ ~rotated => angle' = angle
           /\ \/ 0 <= t /\ t <= Way(angle, wangle')
              \/ 0 >= t /\ t >= Way(angle, wangle')
           /\ rotated /\ t = 0 => Way(angle, wangle') = 0
           /\ ~rotated => t = 0
           /\ SendRotation(rotated, marked, speeds)
<1> DEFINE time == rot_ticks + dt
           frames == time \div rot_step_interval
           turning == angle # wangle'
           rotated == turning /\ frames > 0
           marked == changeWangle \/ (Aims(dt) /\ aim # wangle)
<1>1. /\ TickAI(dt, aim)
      /\ angle' = IF rotated THEN Rotated(Turn * frames) ELSE angle
      /\ SendRotation(rotated, marked, speeds)
  BY DEF on_timer
<1>2. rotated \in BOOLEAN /\ marked \in BOOLEAN
  BY DEF IInv, TypeOK
<1>3. angle \in Angles /\ wangle' \in 0 .. Circle
  <2>1. angle \in Angles /\ wangle \in 0 .. Circle
    BY DEF IInv, TypeOK
  <2>2. Angles \subseteq 0 .. Circle
    BY CircleAssumption DEF Angles
  <2>3. wangle' = IF Aims(dt) THEN aim ELSE wangle
    BY <1>1 DEF TickAI
  <2> QED
    BY <2>1, <2>2, <2>3
<1>4. ~marked => ~changeWangle /\ wangle' = wangle
  BY <1>1 DEF TickAI
<1>5. frames \in Nat
  <2>1. rot_ticks \in Nat /\ dt \in Nat /\ rot_step_interval \in Nat \ {0}
    BY DelaysAssumption, IntervalAssumption DEF IInv, TypeOK
  <2> QED
    BY <2>1
<1> DEFINE m == Way(angle, wangle')
<1>6. m \in Int
  BY <1>3, WayIs
<1> HIDE DEF rotated, marked, frames, m
<1>7. CASE ~rotated
  <2>1. angle' = angle
    BY <1>1, <1>7
  <2>2. (0 <= 0 /\ 0 <= m) \/ (0 >= 0 /\ 0 >= m)
    BY <1>6
  <2> QED
    BY <1>1, <1>2, <1>4, <1>7, <2>1, <2>2 DEF m
<1>8. CASE rotated
  <2>1. Turn * frames \in Nat \ {0}
    <3>1. frames \in Nat \ {0}
      BY <1>5, <1>8 DEF rotated
    <3>2. Turn \in Nat \ {0}
      BY CircleAssumption
    <3> QED
      BY <3>1, <3>2, ProductNotZero
  <2>2. PICK t \in Int :
           /\ \/ 0 <= t /\ t <= Way(angle, wangle')
              \/ 0 >= t /\ t >= Way(angle, wangle')
           /\ t = 0 => Way(angle, wangle') = 0
           /\ Rotated(Turn * frames) = normalize_angle(angle + t)
    BY <1>3, <2>1, RotatedBy
  <2>3. angle' = normalize_angle(angle + t)
    BY <1>1, <1>8, <2>2
  <2> QED
    BY <1>1, <1>2, <1>4, <1>8, <2>2, <2>3
<1> QED
  BY <1>7, <1>8

\* The timer keeps the types, also when a stall makes it turn by several frames.
LEMMA TimerType ==
  ASSUME IInv, NEW dt \in Delays, NEW speeds \in BOOLEAN,
         NEW aim \in IF Aims(dt) THEN Angles ELSE {wangle},
         on_timer(dt, aim, speeds)
  PROVE  /\ bot' \in BOOLEAN /\ wangle' \in 0 .. Circle
         /\ rot_ticks' \in 0 .. rot_step_interval - 1
         /\ ai_ticks' \in 0 .. ai_step_interval
<1>1. /\ rot_ticks \in 0 .. rot_step_interval - 1
      /\ ai_ticks \in 0 .. ai_step_interval
      /\ bot \in BOOLEAN /\ wangle \in 0 .. Circle
      /\ dt \in Nat \ {0}
      /\ rot_step_interval \in Nat \ {0} /\ ai_step_interval \in Nat \ {0}
      /\ Circle \in Nat \ {0}
  BY DelaysAssumption, IntervalAssumption, CircleAssumption DEF IInv, TypeOK
<1> DEFINE time == rot_ticks + dt
           frames == time \div rot_step_interval
           turning == angle # wangle'
           rotated == turning /\ frames > 0
<1>2. /\ rot_ticks' = IF rotated THEN time % rot_step_interval
                      ELSE IF turning THEN time ELSE rot_ticks
      /\ wangle' = IF Aims(dt) THEN aim ELSE wangle
      /\ ai_ticks' = IF Aims(dt) THEN (ai_ticks + dt) % ai_step_interval
                     ELSE IF bot THEN ai_ticks + dt ELSE ai_ticks
      /\ bot' = bot
  BY DEF on_timer, TickAI
<1>3. bot' \in BOOLEAN
  BY <1>1, <1>2
<1>4. wangle' \in 0 .. Circle
  BY <1>1, <1>2 DEF Angles
<1>5. rot_ticks' \in 0 .. rot_step_interval - 1
  <2>1. time \in Nat /\ time % rot_step_interval \in 0 .. rot_step_interval - 1
    BY <1>1
  <2>2. CASE frames > 0
    BY <1>1, <1>2, <2>1, <2>2
  <2>3. CASE ~(frames > 0)
    <3>1. frames \in Nat
      BY <1>1
    <3>2. frames = 0
      BY <2>3, <3>1
    <3>3. time < rot_step_interval
      BY <1>1, <2>1, <3>2
    <3> QED
      BY <1>1, <1>2, <2>1, <2>3, <3>3
  <2> QED
    BY <2>2, <2>3
<1>6. ai_ticks' \in 0 .. ai_step_interval
  <2>1. /\ ai_ticks + dt \in Nat
        /\ (ai_ticks + dt) % ai_step_interval \in 0 .. ai_step_interval - 1
    BY <1>1
  <2>2. CASE Aims(dt)
    BY <1>1, <1>2, <2>1, <2>2
  <2>3. CASE ~Aims(dt) /\ bot
    BY <1>1, <1>2, <2>1, <2>3 DEF Aims
  <2>4. CASE ~bot
    BY <1>1, <1>2, <2>4 DEF Aims
  <2> QED
    BY <2>2, <2>3, <2>4
<1> QED
  BY <1>3, <1>4, <1>5, <1>6

LEMMA TimerIInv ==
  ASSUME IInv, NEW dt \in Delays, NEW speeds \in BOOLEAN,
         NEW aim \in IF Aims(dt) THEN Angles ELSE {wangle},
         on_timer(dt, aim, speeds)
  PROVE  IInv'
<1>1. PICK rotated \in BOOLEAN, marked \in BOOLEAN, t \in Int :
           /\ ~marked => ~changeWangle /\ wangle' = wangle
           /\ rotated => angle' = normalize_angle(angle + t)
           /\ ~rotated => angle' = angle
           /\ \/ 0 <= t /\ t <= Way(angle, wangle')
              \/ 0 >= t /\ t >= Way(angle, wangle')
           /\ rotated /\ t = 0 => Way(angle, wangle') = 0
           /\ ~rotated => t = 0
           /\ SendRotation(rotated, marked, speeds)
  BY TimerTurns
<1>0. watching \in BOOLEAN /\ late \in BOOLEAN
  BY DEF IInv, TypeOK
<1>2. /\ watching' = watching /\ late' \in BOOLEAN
      /\ late /\ ~(rotated /\ marked) => late'
      /\ toldAngle' = IF watching /\ rotated THEN angle' ELSE toldAngle
      /\ toldWangle' = IF watching /\ rotated /\ marked THEN wangle' ELSE toldWangle
      /\ toldWay' = IF watching /\ rotated /\ marked
                    THEN IF Way(angle', wangle') > 0 THEN "cw" ELSE "ccw"
                    ELSE toldWay
      /\ changeWangle' = (marked /\ ~rotated)
  BY <1>0, <1>1, SendRotationTells
<1>3. /\ bot' \in BOOLEAN /\ wangle' \in 0 .. Circle
      /\ rot_ticks' \in 0 .. rot_step_interval - 1
      /\ ai_ticks' \in 0 .. ai_step_interval
  BY TimerType
<1>4. angle \in Angles /\ Way(angle, wangle') \in Int
  BY <1>3, WayIs DEF IInv, TypeOK
<1>5. rotated => /\ angle' \in Angles
                 /\ Way(angle', wangle') = Way(angle, wangle') - t
  BY <1>1, <1>3, <1>4, TurnedBy
<1>6. TypeOK'
  <2>1. angle' \in Angles
    BY <1>1, <1>4, <1>5
  <2>2. toldAngle' \in Angles \cup {Garbled}
    BY <1>2, <2>1 DEF IInv, TypeOK
  <2>3. toldWangle' \in 0 .. Circle \cup {Garbled}
    BY <1>2, <1>3 DEF IInv, TypeOK
  <2>4. toldWay' \in {"none", "cw", "ccw"}
    BY <1>2 DEF IInv, TypeOK
  <2>5. changeWangle' \in BOOLEAN /\ watching' \in BOOLEAN /\ late' \in BOOLEAN
    BY <1>0, <1>2
  <2> QED
    BY <1>3, <2>1, <2>2, <2>3, <2>4, <2>5 DEF TypeOK
<1>7. ClientsKnowAngles'
  <2> SUFFICES ASSUME watching
               PROVE  /\ toldAngle' = angle'
                      /\ changeWangle' \/ late' \/ toldWangle' = wangle'
    BY <1>2 DEF ClientsKnowAngles
  <2>1. toldAngle' = angle'
    BY <1>1, <1>2 DEF IInv, ClientsKnowAngles
  <2>2. CASE marked
    <3>1. CASE rotated
      <4>1. toldWangle' = wangle'
        BY <1>2, <2>2, <3>1
      <4> QED
        BY <2>1, <4>1
    <3>2. CASE ~rotated
      <4>1. changeWangle'
        BY <1>2, <2>2, <3>2
      <4> QED
        BY <2>1, <4>1
    <3> QED
      BY <3>1, <3>2
  <2>3. CASE ~marked
    <3>1. ~changeWangle /\ wangle' = wangle
      BY <1>1, <2>3, Zenon
    <3>2. toldWangle' = toldWangle
      BY <1>2, <2>3
    <3>3. late => late'
      BY <1>2, <2>3, Zenon
    <3>4. late \/ toldWangle = wangle
      BY <3>1 DEF IInv, ClientsKnowAngles
    <3> QED
      BY <2>1, <3>1, <3>2, <3>3, <3>4
  <2> QED
    BY <2>1, <2>2, <2>3
<1>8. ToldWayLasts'
  <2>0. ~watching' => toldWay' = "none"
    BY <1>0, <1>2 DEF IInv, ToldWayLasts
  <2> SUFFICES ASSUME ~changeWangle', toldWay' # "none",
                      Way(angle', wangle') # 0
               PROVE  (Way(angle', wangle') > 0) = (toldWay' = "cw")
    BY <2>0 DEF ToldWayLasts
  <2>1. CASE rotated /\ marked
    BY <1>2, <2>0, <2>1
  <2>2. CASE ~marked
    <3>1. /\ ~changeWangle /\ wangle' = wangle /\ toldWay' = toldWay
      BY <1>1, <1>2, <2>2
    <3> DEFINE m == Way(angle, wangle')
               n == Way(angle', wangle')
    <3>2. n = m - t /\ m \in Int
      <4>1. CASE rotated
        BY <1>4, <1>5, <4>1
      <4>2. CASE ~rotated
        BY <1>1, <1>4, <4>2
      <4> QED
        BY <4>1, <4>2
    <3>3. (0 <= t /\ t <= m) \/ (0 >= t /\ t >= m)
      BY <1>1
    <3>4. m # 0 => (m > 0) = (toldWay = "cw")
      BY <3>1 DEF IInv, ToldWayLasts
    <3>5. n # 0
      OBVIOUS
    <3> HIDE DEF m, n
    <3>6. m # 0 /\ (n > 0) = (m > 0)
      BY <3>2, <3>3, <3>5
    <3> QED
      BY <3>1, <3>4, <3>6 DEF n
  <2>3. CASE marked /\ ~rotated
    BY <1>2, <2>3
  <2> QED
    BY <2>1, <2>2, <2>3
<1> QED
  BY <1>6, <1>7, <1>8 DEF IInv

LEMMA NextIInv == IInv /\ [Next]_vars => IInv'
<1> SUFFICES ASSUME IInv, [Next]_vars PROVE IInv'
  OBVIOUS
<1>1. CASE \E a \in 0 .. Circle : Steer(a)
  BY <1>1, SteerIInv
<1>2. CASE TimerStep
  BY <1>2, TimerIInv DEF TimerStep
<1>3. CASE Join
  BY <1>3, JoinIInv
<1>4. CASE UNCHANGED vars
  <2> USE <1>4 DEF vars, told
  <2>1. TypeOK'
    BY DEF IInv, TypeOK
  <2>2. ClientsKnowAngles' /\ ToldWayLasts'
    BY DEF IInv, ClientsKnowAngles, ToldWayLasts
  <2> QED
    BY <2>1, <2>2 DEF IInv
<1> QED
  BY <1>1, <1>2, <1>3, <1>4 DEF Next

LEMMA Invariance == Spec => []IInv
  BY InitIInv, NextIInv, PTL DEF Spec

-----------------------------------------------------------------------------
(* Theorems *)

\* The angle of a snake stays normalised, whatever the players want and
\* however long a tick was, and less than a rotation frame is left over.
THEOREM TypesHold == Spec => []TypeOK
<1>1. IInv => TypeOK
  BY DEF IInv
<1> QED
  BY <1>1, Invariance, PTL

\* No steering is lost between on_message, which sets the mark, and
\* BroadcastUpdates, which clears it, and no rotation packet is misread.  A
\* client knows the wanted angle whenever it came, unless that was in the middle
\* of a turn whose wanted angle had been sent; the next one mends that.
THEOREM AnglesAreKnown == Spec => []ClientsKnowAngles
<1>1. IInv => ClientsKnowAngles
  BY DEF IInv
<1> QED
  BY <1>1, Invariance, PTL

\* No rotation of Snake::Tick takes a snake further from the angle it wants, for
\* every rate of turn and every length of a step.
THEOREM TurnsTheShortWay == Spec => TurnsTowards
<1>1. ASSUME IInv, [Next]_vars
      PROVE  [wangle' = wangle =>
                Abs(Way(angle', wangle')) <= Abs(Way(angle, wangle))]_vars
  <2> SUFFICES ASSUME Next, wangle' = wangle
               PROVE  Abs(Way(angle', wangle')) <= Abs(Way(angle, wangle))
    BY <1>1
  <2>1. angle \in Angles /\ wangle \in 0 .. Circle /\ Way(angle, wangle) \in Int
    BY <1>1, WayIs DEF IInv, TypeOK
  <2>2. CASE \E a \in 0 .. Circle : Steer(a)
    BY <2>1, <2>2 DEF Steer, Abs
  <2>3. CASE Join
    BY <2>1, <2>3 DEF Join, Abs
  <2>4. CASE TimerStep
    <3>1. PICK rotated \in BOOLEAN, t \in Int :
             /\ rotated => angle' = normalize_angle(angle + t)
             /\ ~rotated => angle' = angle
             /\ \/ 0 <= t /\ t <= Way(angle, wangle)
                \/ 0 >= t /\ t >= Way(angle, wangle)
             /\ ~rotated => t = 0
      BY <1>1, <2>4, TimerTurns DEF TimerStep
    <3>2. Way(angle', wangle') = Way(angle, wangle) - t
      <4>1. CASE rotated
        BY <2>1, <3>1, <4>1, TurnedBy
      <4>2. CASE ~rotated
        BY <2>1, <3>1, <4>2
      <4> QED
        BY <4>1, <4>2
    <3> QED
      BY <2>1, <3>1, <3>2 DEF Abs
  <2> QED
    BY <2>2, <2>3, <2>4 DEF Next
<1> QED
  BY <1>1, Invariance, PTL DEF Spec, TurnsTowards

\* A snake turns the way the clients were told, however many rotations ago.
THEOREM TurnsTheToldWay == Spec => TurnsAsTold
<1>1. ASSUME IInv, [Next]_vars
      PROVE  [wangle' = wangle /\ ~changeWangle /\ angle' # angle
                /\ toldWay # "none"
                => (Way(angle, angle') > 0) = (toldWay = "cw")]_vars
  <2> SUFFICES ASSUME Next, wangle' = wangle, ~changeWangle, angle' # angle,
                      toldWay # "none"
               PROVE  (Way(angle, angle') > 0) = (toldWay = "cw")
    BY <1>1
  <2>1. angle \in Angles /\ wangle \in 0 .. Circle /\ Way(angle, wangle) \in Int
    BY <1>1, WayIs DEF IInv, TypeOK
  <2>2. CASE \E a \in 0 .. Circle : Steer(a)
    BY <2>2 DEF Steer
  <2>3. CASE Join
    BY <2>1, <2>3 DEF Join, Abs
  <2>4. CASE TimerStep
    <3>1. PICK rotated \in BOOLEAN, t \in Int :
             /\ rotated => angle' = normalize_angle(angle + t)
             /\ ~rotated => angle' = angle
             /\ \/ 0 <= t /\ t <= Way(angle, wangle)
                \/ 0 >= t /\ t >= Way(angle, wangle)
      BY <1>1, <2>4, TimerTurns DEF TimerStep
    <3>2. angle' = normalize_angle(angle + t)
      BY <3>1
    <3>3. Way(angle, angle') = t
      BY <2>1, <3>1, <3>2, TurnedBy
    <3>4. t # 0
      <4>1. SUFFICES ASSUME t = 0 PROVE angle' = angle
        OBVIOUS
      <4>2. angle \in Int /\ 0 <= angle /\ angle < Circle /\ Circle \in Nat
        BY <2>1, CircleAssumption DEF Angles
      <4>3. normalize_angle(angle) = angle
        BY <4>2, NormalizeOnce
      <4>4. angle + t = angle
        BY <4>1, <4>2
      <4> QED
        BY <3>2, <4>3, <4>4
    <3>5. Way(angle, wangle) # 0 /\ (Way(angle, wangle) > 0) = (t > 0)
      BY <2>1, <3>1, <3>4
    <3>6. (Way(angle, wangle) > 0) = (toldWay = "cw")
      BY <1>1, <3>5 DEF IInv, ToldWayLasts
    <3> QED
      BY <3>3, <3>5, <3>6
  <2> QED
    BY <2>2, <2>3, <2>4 DEF Next
<1> QED
  BY <1>1, Invariance, PTL DEF Spec, TurnsAsTold
=============================================================================
