--------------------------- MODULE ProtocolProofs ---------------------------
(***************************************************************************)
(* Proofs about Protocol: packets fit into their buffers and clocks follow *)
(* for every number of connections, length of snakes and amount of food.   *)
(***************************************************************************)
EXTENDS Protocol, SequenceTheorems, TLAPS

\* What operator<< writes is no more than get_size() says.
Announced(p) == p.size \in Nat /\ p.bytes \in Nat /\ p.bytes <= p.size

Whole(p) == Buffered(p.bytes, Room(p.size)) = p.bytes

\* WSPPServer::send leaves a packet whole if it writes no more than it announces.
LEMMA AnnouncedIsWhole ==
  ASSUME NEW p, Announced(p)
  PROVE  Whole(p)
BY DEF Announced, Whole, Buffered, Room

\* packet_add_snake announces one part more than it writes.
LEMMA AddSnakeIsWhole ==
  ASSUME NEW parts \in Parts, NEW name \in Nat
  PROVE  Whole(packet_add_snake(parts, name))
<1>1. parts \in Nat /\ parts >= 3
  BY SizesAssumption
<1>2. Announced(packet_add_snake(parts, name))
  BY <1>1 DEF Announced, packet_add_snake, Packet, PacketBase, string, uint8, uint16, uint24
<1> QED
  BY <1>2, AnnouncedIsWhole

\* The packets of a fixed size.
LEMMA FixedAreWhole ==
  /\ Whole(PacketInit) /\ Whole(packet_remove_snake) /\ Whole(packet_move)
  /\ Whole(packet_inc) /\ Whole(packet_fullness) /\ Whole(packet_end)
  /\ Whole(packet_sector) /\ Whole(packet_spawn_food) /\ Whole(packet_pong)
BY DEF Whole, Buffered, Room, PacketInit, packet_remove_snake, packet_move,
       packet_inc, packet_fullness, packet_end, packet_sector, packet_spawn_food,
       packet_pong, Packet, PacketBase, uint8, uint16, uint24

\* The packets with fields that may be left out.
LEMMA OptionalAreWhole ==
  /\ \A f \in BOOLEAN : Whole(packet_remove_part(f)) /\ Whole(packet_eat_food(f))
  /\ \A n \in 1 .. 3 : Whole(packet_rotation(n))
BY DEF Whole, Buffered, Room, packet_remove_part, packet_eat_food, packet_rotation,
       Packet, PacketBase, uint8, uint16, uint24

\* The packets that grow with the number of foods or shapes.
LEMMA ListsAreWhole ==
  ASSUME NEW n \in Counts
  PROVE  Whole(packet_set_food(n)) /\ Whole(packet_debug_draw(n))
<1>1. n \in Nat
  BY SizesAssumption
<1>2. Announced(packet_set_food(n)) /\ Announced(packet_debug_draw(n))
  BY <1>1 DEF Announced, packet_set_food, packet_debug_draw, Packet, PacketBase,
              uint8, uint16, uint24
<1> QED
  BY <1>2, AnnouncedIsWhole

\* Everything the timer sends.
LEMMA TimerPacketsAreWhole ==
  /\ \A p \in Broadcasts : Whole(p)
  /\ \A p \in Singles : Whole(p)
  /\ \A p \in PointOfView : Whole(p)
BY FixedAreWhole, OptionalAreWhole, ListsAreWhole DEF Broadcasts, Singles, PointOfView

-----------------------------------------------------------------------------
(* Types *)

Session(t) == [last_packet_time : 0 .. t, name : Nat,
               protocol_version : 0 .. 255, skin : 0 .. 255]
Client(t) == [joined : 0 .. t, clock : Nat, late : BOOLEAN,
              whole : BOOLEAN, waiting : BOOLEAN]

\* What is left of a message after white space is a message.
LEMMA SkipWhiteType ==
  ASSUME NEW S, NEW bytes \in Seq(S)
  PROVE  SkipWhite(bytes) \in Seq(S)
<1> DEFINE first == {i \in 1 .. Len(bytes) :
                       bytes[i] \notin White /\ \A j \in 1 .. i - 1 : bytes[j] \in White}
<1>1. CASE first = {}
  BY <1>1 DEF SkipWhite
<1>2. CASE first # {}
  <2>1. PICK i \in first : i = CHOOSE k \in first : TRUE
    BY <1>2
  <2>2. i \in 1 .. Len(bytes)
    BY <2>1
  <2>3. SkipWhite(bytes) = SubSeq(bytes, i, Len(bytes))
    BY <1>2, <2>1 DEF SkipWhite
  <2> HIDE DEF first
  <2>4. i \in Int /\ Len(bytes) \in Int /\ \A j \in i .. Len(bytes) : bytes[j] \in S
    BY <2>2
  <2>5. SubSeq(bytes, i, Len(bytes)) \in Seq(S)
    BY <2>4, SubSeqProperties
  <2> QED
    BY <2>3, <2>5
<1> QED
  BY <1>1, <1>2

\* A profile leaves a session a session, and its clock alone.
LEMMA ProfileType ==
  ASSUME NEW t \in Nat, NEW s \in Session(t),
         NEW bytes \in Seq(0 .. 255), bytes # <<>>
  PROVE  /\ Profile(s, bytes) \in Session(t)
         /\ Profile(s, bytes).last_packet_time = s.last_packet_time
<1> DEFINE B == 0 .. 255
           version == SkipWhite(Tail(bytes))
           shade == IF version = <<>> THEN <<>> ELSE SkipWhite(Tail(version))
           v == IF version = <<>> THEN s.protocol_version ELSE Head(version)
           k == IF shade = <<>> THEN s.skin ELSE Head(shade)
<1>1. version \in Seq(B)
  <2>1. Tail(bytes) \in Seq(B)
    BY HeadTailProperties
  <2> HIDE DEF B
  <2> QED
    BY <2>1, SkipWhiteType
<1>2. shade \in Seq(B)
  <2> HIDE DEF B, version
  <2>1. CASE version = <<>>
    BY <2>1
  <2>2. CASE version # <<>>
    <3>1. Tail(version) \in Seq(B)
      BY <1>1, <2>2, HeadTailProperties
    <3> QED
      BY <2>2, <3>1, SkipWhiteType
  <2> QED
    BY <2>1, <2>2
<1>3. Profile(s, bytes) = [s EXCEPT !.protocol_version = v, !.skin = k]
  BY DEF Profile, Session
<1>4. s.protocol_version \in B /\ s.skin \in B
  BY DEF Session
<1>5. v \in B /\ k \in B
  <2> HIDE DEF B, version, shade
  <2>1. version # <<>> => Head(version) \in B
    BY <1>1, HeadTailProperties
  <2>2. shade # <<>> => Head(shade) \in B
    BY <1>2, HeadTailProperties
  <2> QED
    BY <1>4, <2>1, <2>2
<1> DEFINE T == 0 .. t
<1>6. Session(t) = [last_packet_time : T, name : Nat, protocol_version : B, skin : B]
  BY DEF Session
<1> HIDE DEF v, k, B, T
<1>7. /\ s.last_packet_time \in T /\ s.name \in Nat
      /\ s = [last_packet_time |-> s.last_packet_time, name |-> s.name,
              protocol_version |-> s.protocol_version, skin |-> s.skin]
  BY <1>6
<1>8. Profile(s, bytes) = [last_packet_time |-> s.last_packet_time, name |-> s.name,
                           protocol_version |-> v, skin |-> k]
  BY <1>3, <1>7
<1> QED
  BY <1>5, <1>6, <1>7, <1>8

\* A message that is not empty holds bytes.
LEMMA MessageType ==
  ASSUME NEW q \in Seq(Messages \cup {in_packet_t_ping}), q # <<>>
  PROVE  Head(q).bytes \in Seq(0 .. 255)
<1>1. Head(q) \in Messages \cup {in_packet_t_ping}
  BY HeadTailProperties
<1>2. in_packet_t_ping.bytes \in Seq(0 .. 255)
  BY DEF in_packet_t_ping
<1> QED
  BY <1>1, <1>2, MessagesAssumption

-----------------------------------------------------------------------------
(* The clock of one client *)

\* The client cl is behind the session s by so many laps of the clock, by none
\* unless it is late.
Follows(cl, s) ==
  LET elapsed == s.last_packet_time - cl.joined
  IN  \E laps \in 0 .. elapsed :
        /\ elapsed = cl.clock + laps * TimeSpace
        /\ cl.late \/ laps = 0

\* Quotient and remainder by TimeSpace.
LEMMA LapsOf ==
  ASSUME NEW e \in Nat
  PROVE  \E q \in 0 .. e : /\ Interval(e) \in Nat
                           /\ e = Interval(e) + q * TimeSpace
                           /\ e >= TimeSpace \/ q = 0
<1> DEFINE q == e \div TimeSpace
           T == TimeSpace
<1>1. T \in Nat /\ T > 0
  BY TimeAssumption
<1>2. q \in Nat /\ Interval(e) \in 0 .. T - 1 /\ e = T * q + Interval(e)
  BY <1>1 DEF Interval
<1>3. T * q = q * T
  BY <1>1, <1>2
<1>4. q <= q * T
  BY <1>1, <1>2
<1>5. e >= T \/ q = 0
  <2> SUFFICES ASSUME q # 0 PROVE e >= T
    OBVIOUS
  <2>1. q >= 1
    BY <1>2
  <2> HIDE DEF q
  <2>2. q * T >= T
    BY <1>1, <1>2, <2>1
  <2> QED
    BY <1>1, <1>2, <1>3, <2>2
<1> HIDE DEF q, T
<1>6. q * T \in Nat /\ q \in 0 .. e
  BY <1>1, <1>2, <1>3, <1>4
<1>7. e = Interval(e) + q * T
  BY <1>1, <1>2, <1>3, <1>6
<1> QED
  BY <1>2, <1>5, <1>6, <1>7 DEF T

\* A packet of the session, with the interval since the last one, brings the
\* client up to the session's new time.
LEMMA StampFollows ==
  ASSUME NEW t \in Nat, NEW s \in Session(t), NEW cl \in Client(t), Follows(cl, s),
         NEW s2 \in Session(t), NEW cl2 \in Client(t),
         s2.last_packet_time = t,
         cl2.joined = cl.joined,
         cl2.clock = cl.clock + Interval(t - s.last_packet_time),
         cl.late => cl2.late, t - s.last_packet_time >= TimeSpace => cl2.late
  PROVE  Follows(cl2, s2)
<1> DEFINE last == s.last_packet_time
           joined == cl.joined
           e == t - last
<1>1. last \in 0 .. t /\ joined \in 0 .. t /\ cl.clock \in Nat
  BY DEF Session, Client
<1>2. e \in Nat
  BY <1>1
<1>3. PICK laps \in 0 .. (last - joined) :
        last - joined = cl.clock + laps * TimeSpace /\ (cl.late \/ laps = 0)
  BY DEF Follows
<1>4. PICK q \in 0 .. e : /\ Interval(e) \in Nat
                          /\ e = Interval(e) + q * TimeSpace
                          /\ e >= TimeSpace \/ q = 0
  <2> HIDE DEF e
  <2> QED
    BY <1>2, LapsOf
<1>5. TimeSpace \in Nat
  BY TimeAssumption
<1>6. (laps + q) * TimeSpace = laps * TimeSpace + q * TimeSpace
  BY <1>1, <1>3, <1>4, <1>5
<1>7. laps * TimeSpace \in Nat /\ q * TimeSpace \in Nat
  BY <1>1, <1>3, <1>4, <1>5
<1>8. laps + q \in 0 .. (t - joined)
  BY <1>1, <1>3, <1>4
<1>9. t - joined = cl2.clock + (laps + q) * TimeSpace
  BY <1>1, <1>3, <1>4, <1>6, <1>7
<1>10. cl2.late \/ laps + q = 0
  BY <1>3, <1>4
<1> QED
  BY <1>8, <1>9, <1>10 DEF Follows

-----------------------------------------------------------------------------
(* The inductive invariant *)

\* Every client got whole packets only and follows its session.
Good(cl, s) == cl.whole /\ Follows(cl, s)

IInv == TypeOK /\ \A c \in Conns : Good(client[c], session[c])

\* A connection as it is before it is opened.
LEMMA NewIsGood ==
  ASSUME NEW t \in Nat
  PROVE  /\ NewSession(t) \in Session(t) /\ NewClient(t) \in Client(t)
         /\ Good(NewClient(t), NewSession(t))
<1>1. NewSession(t) \in Session(t) /\ NewClient(t) \in Client(t)
  BY DEF NewSession, NewClient, Session, Client
<1>2. 0 * TimeSpace = 0
  BY TimeAssumption
<1>3. Follows(NewClient(t), NewSession(t))
  <2>1. NewSession(t).last_packet_time - NewClient(t).joined = 0 /\ NewClient(t).clock = 0
    BY DEF NewSession, NewClient
  <2> QED
    BY <1>2, <2>1 DEF Follows
<1> QED
  BY <1>1, <1>3 DEF Good, NewClient

\* send_binary and broadcast_binary keep a connection good.
LEMMA ReceivedIsGood ==
  ASSUME IInv, NEW c \in Conns, NEW packets, \A p \in packets : Whole(p)
  PROVE  /\ Received(c, packets, Elapsed(c)) \in Client(now) /\ Stamped(c) \in Session(now)
         /\ Good(Received(c, packets, Elapsed(c)), Stamped(c))
<1> DEFINE cl == client[c]
           s == session[c]
           cl2 == Received(c, packets, Elapsed(c))
           s2 == Stamped(c)
<1>1. now \in Nat /\ cl \in Client(now) /\ s \in Session(now) /\ Good(cl, s)
  BY TimeAssumption DEF IInv, TypeOK, Client, Session
<1>2. Elapsed(c) = now - s.last_packet_time /\ Elapsed(c) \in Nat
  BY <1>1 DEF Elapsed, Session
<1>3. Interval(Elapsed(c)) \in Nat
  BY <1>2, LapsOf
<1> DEFINE k == cl.clock + Interval(Elapsed(c))
           l == cl.late \/ Elapsed(c) >= TimeSpace
           w == cl.whole /\ \A p \in packets : Whole(p)
           p == cl.waiting /\ packet_pong \notin packets
<1>4. cl2 = [cl EXCEPT !.clock = k, !.late = l, !.whole = w, !.waiting = p]
  BY <1>1 DEF Received, Whole, Client
<1>5. k \in Nat /\ l \in BOOLEAN /\ w \in BOOLEAN /\ p \in BOOLEAN /\ w
  BY <1>1, <1>3 DEF Client, Good
<1>6. /\ cl2 \in Client(now)
      /\ cl2.joined = cl.joined /\ cl2.clock = k /\ cl2.late = l /\ cl2.whole = w
  <2> HIDE DEF k, l, w, p, cl, cl2
  <2> QED
    BY <1>1, <1>4, <1>5 DEF Client
<1>9. (cl.late => cl2.late) /\ (Elapsed(c) >= TimeSpace => cl2.late) /\ cl2.whole
  BY <1>5, <1>6
<1>7. s2 \in Session(now) /\ s2.last_packet_time = now
  BY <1>1 DEF Stamped, Session
<1> HIDE DEF cl, s, cl2, s2
<1>8. Follows(cl2, s2)
  BY <1>1, <1>2, <1>6, <1>7, <1>9, StampFollows DEF Good
<1> QED
  BY <1>6, <1>7, <1>8, <1>9 DEF Good, cl2, s2

\* BroadcastDebug adds nothing to a clock.
LEMMA DebugIsGood ==
  ASSUME IInv, NEW c \in Conns, NEW packets, \A p \in packets : Whole(p)
  PROVE  /\ Received(c, packets, 0) \in Client(now)
         /\ Good(Received(c, packets, 0), session[c])
<1> DEFINE cl == client[c]
           cl2 == Received(c, packets, 0)
<1>1. now \in Nat /\ cl \in Client(now) /\ Good(cl, session[c])
  BY TimeAssumption DEF IInv, TypeOK, Client
<1>2. Interval(0) = 0 /\ ~(0 >= TimeSpace)
  BY TimeAssumption DEF Interval
<1> DEFINE w == cl.whole /\ \A p \in packets : Whole(p)
           p == cl.waiting /\ packet_pong \notin packets
<1>3. cl2 = [cl EXCEPT !.clock = cl.clock + 0, !.late = cl.late \/ 0 >= TimeSpace,
                       !.whole = w, !.waiting = p]
  BY <1>1, <1>2 DEF Received, Whole, Client
<1>4. /\ cl.clock + 0 = cl.clock /\ (cl.late \/ 0 >= TimeSpace) = cl.late
      /\ cl.clock \in Nat /\ cl.late \in BOOLEAN
      /\ w \in BOOLEAN /\ p \in BOOLEAN /\ w
  BY <1>1, <1>2 DEF Client, Good
<1>5. /\ cl2 \in Client(now) /\ cl2.whole = w
      /\ cl2.joined = cl.joined /\ cl2.clock = cl.clock /\ cl2.late = cl.late
  <2> HIDE DEF w, p, cl, cl2
  <2>1. cl2 = [cl EXCEPT !.clock = cl.clock, !.late = cl.late, !.whole = w, !.waiting = p]
    BY <1>3, <1>4
  <2> QED
    BY <1>1, <1>4, <2>1 DEF Client
<1>6. Follows(cl2, session[c])
  BY <1>1, <1>5 DEF Good, Follows
<1> QED
  BY <1>4, <1>5, <1>6 DEF Good

\* What the state functions of TypeOK say, by connection.
LEMMA TypeParts ==
  TypeOK <=> /\ now \in 0 .. Horizon /\ open \subseteq Conns
             /\ session \in [Conns -> Session(now)] /\ client \in [Conns -> Client(now)]
             /\ skin \in [Conns -> 0 .. 255]
             /\ up \in [Conns -> Seq(Messages \cup {in_packet_t_ping})]
             /\ \A c \in Conns \ open : session[c] = NewSession(0) /\ client[c] = NewClient(0)
BY DEF TypeOK, Session, Client

\* The first state.
LEMMA InitIInv == Init => IInv
<1> SUFFICES ASSUME Init PROVE IInv
  OBVIOUS
<1>1. 0 \in Nat /\ 0 \in 0 .. Horizon
  BY TimeAssumption
<1>2. /\ NewSession(0) \in Session(0) /\ NewClient(0) \in Client(0)
      /\ Good(NewClient(0), NewSession(0))
  BY <1>1, NewIsGood
<1>3. TypeOK
  BY <1>1, <1>2, TypeParts DEF Init
<1> QED
  BY <1>2, <1>3 DEF IInv, Init

\* A step that sends packets at the current time to the connections of to.
LEMMA SendIInv ==
  ASSUME IInv, NEW to \in SUBSET open, NEW packets, \A p \in packets : Whole(p),
         Send(to, packets), UNCHANGED <<now, open>>,
         skin' \in [Conns -> 0 .. 255],
         up' \in [Conns -> Seq(Messages \cup {in_packet_t_ping})]
  PROVE  IInv'
<1>1. TypeOK
  BY DEF IInv
<1>2. \A c \in Conns : /\ session'[c] \in Session(now) /\ client'[c] \in Client(now)
                       /\ Good(client'[c], session'[c])
  <2> TAKE c \in Conns
  <2>1. CASE c \in to
    BY <2>1, ReceivedIsGood DEF Send
  <2>2. CASE c \notin to
    BY <1>1, <2>2, TypeParts DEF Send, IInv
  <2> QED
    BY <2>1, <2>2
<1>3. session' \in [Conns -> Session(now)] /\ client' \in [Conns -> Client(now)]
  BY <1>2 DEF Send
<1>4. \A c \in Conns \ open : session'[c] = session[c] /\ client'[c] = client[c]
  BY DEF Send
<1>5. TypeOK'
  BY <1>1, <1>3, <1>4 DEF TypeOK, Session, Client
<1> QED
  BY <1>2, <1>5 DEF IInv

\* Time makes more room for the times of sessions and clients.
LEMMA PassIInv ==
  ASSUME IInv, NEW d \in Delays, Pass(d)
  PROVE  IInv'
<1>1. d \in Nat /\ Horizon \in Nat
  BY TimeAssumption
<1>2. TypeOK'
  <2>1. now' \in 0 .. Horizon /\ \A x \in 0 .. now : x \in 0 .. now'
    BY <1>1 DEF Pass, IInv, TypeOK
  <2>2. Session(now) \subseteq Session(now')
    <3> DEFINE T == 0 .. now
               T2 == 0 .. now'
    <3>1. T \subseteq T2
      BY <2>1
    <3> HIDE DEF T, T2
    <3> QED
      BY <3>1 DEF Session, T, T2
  <2>3. Client(now) \subseteq Client(now')
    <3> DEFINE T == 0 .. now
               T2 == 0 .. now'
    <3>1. T \subseteq T2
      BY <2>1
    <3> HIDE DEF T, T2
    <3> QED
      BY <3>1 DEF Client, T, T2
  <2>4. session \in [Conns -> Session(now)] /\ client \in [Conns -> Client(now)]
    BY TypeParts DEF IInv
  <2>5. session \in [Conns -> Session(now')] /\ client \in [Conns -> Client(now')]
    BY <2>2, <2>3, <2>4
  <2> QED
    BY <2>1, <2>5 DEF Pass, IInv, TypeOK, Session, Client
<1> QED
  BY <1>2 DEF Pass, IInv

\* A join: everyone is told of the new snake, the new client of all of them.
LEMMA OpenIInv ==
  ASSUME IInv, NEW c \in Conns, NEW parts \in Parts, on_open(c, parts)
  PROVE  IInv'
<1> DEFINE news == {packet_add_snake(parts, 0), packet_move}
           others == {packet_add_snake(parts, session[d].name) : d \in open}
           all == {PacketInit} \cup PointOfView \cup news \cup others
           whole == \A p \in all : Buffered(p.bytes, Room(p.size)) = p.bytes
           joins == [NewClient(now) EXCEPT !.whole = whole]
<1>1. TypeOK /\ now \in Nat
  BY TimeAssumption DEF IInv, TypeOK
<1>2. \A p \in news : Whole(p)
  BY AddSnakeIsWhole, FixedAreWhole
<1>3. \A p \in others : Whole(p)
  <2>1. \A d \in open : session[d].name \in Nat
    BY <1>1 DEF TypeOK
  <2> QED
    BY <2>1, AddSnakeIsWhole
<1>4. \A p \in all : Whole(p)
  BY <1>2, <1>3, FixedAreWhole, TimerPacketsAreWhole
<1>5. /\ NewSession(now) \in Session(now) /\ joins \in Client(now)
      /\ Good(joins, NewSession(now))
  <2>1. whole /\ whole \in BOOLEAN
    BY <1>4 DEF Whole
  <2> HIDE DEF whole
  <2>2. NewClient(now) \in Client(now) /\ NewSession(now) \in Session(now)
    BY <1>1, NewIsGood
  <2> DEFINE old == NewClient(now)
  <2> HIDE DEF old
  <2>3. joins = [old EXCEPT !.whole = whole] /\ old \in Client(now)
    BY <2>2 DEF old
  <2> HIDE DEF joins
  <2>4. /\ joins \in Client(now) /\ joins.whole = whole
        /\ joins.joined = old.joined /\ joins.clock = old.clock /\ joins.late = old.late
    BY <2>1, <2>3 DEF Client
  <2>5. Follows(old, NewSession(now))
    BY <1>1, NewIsGood DEF old, Good
  <2> QED
    BY <2>1, <2>2, <2>4, <2>5 DEF Good, Follows
<1>6. /\ open' = open \cup {c}
      /\ session' = [d \in Conns |-> IF d = c THEN NewSession(now)
                                     ELSE IF d \in open THEN Stamped(d) ELSE session[d]]
      /\ client' = [d \in Conns |-> IF d = c THEN joins
                                    ELSE IF d \in open THEN Received(d, news, Elapsed(d))
                                    ELSE client[d]]
      /\ skin' = [skin EXCEPT ![c] = 9] /\ now' = now /\ up' = up
  BY DEF on_open
<1> HIDE DEF news, others, joins
<1>7. \A d \in Conns : /\ session'[d] \in Session(now) /\ client'[d] \in Client(now)
                       /\ Good(client'[d], session'[d])
  <2> TAKE d \in Conns
  <2>1. CASE d = c
    BY <1>5, <1>6, <2>1
  <2>2. CASE d # c /\ d \in open
    BY <1>2, <1>6, <2>2, ReceivedIsGood
  <2>3. CASE d # c /\ d \notin open
    BY <1>1, <1>6, <2>3, TypeParts DEF IInv
  <2> QED
    BY <2>1, <2>2, <2>3
<1>8. session' \in [Conns -> Session(now)] /\ client' \in [Conns -> Client(now)]
  BY <1>6, <1>7
<1>9. \A d \in Conns \ open' : session'[d] = session[d] /\ client'[d] = client[d]
  BY <1>6
<1>10. skin' \in [Conns -> 0 .. 255]
  <2>1. skin \in [Conns -> 0 .. 255] /\ 9 \in 0 .. 255
    BY <1>1 DEF TypeOK
  <2> QED
    BY <1>6, <2>1
<1>11. TypeOK'
  BY <1>1, <1>6, <1>8, <1>9, <1>10 DEF TypeOK, Session, Client
<1> QED
  BY <1>7, <1>11 DEF IInv

\* on_close puts everything back to the defaults.
LEMMA CloseIInv ==
  ASSUME IInv, NEW c \in Conns, on_close(c)
  PROVE  IInv'
<1>1. TypeOK /\ now \in Nat
  BY TimeAssumption DEF IInv, TypeOK
<1>2. Good(NewClient(0), NewSession(0))
  BY NewIsGood
<1>3. NewSession(0) \in Session(now) /\ NewClient(0) \in Client(now)
  BY <1>1 DEF NewSession, NewClient, Session, Client
<1>4. /\ session \in [Conns -> Session(now)] /\ client \in [Conns -> Client(now)]
      /\ session' = [session EXCEPT ![c] = NewSession(0)]
      /\ client' = [client EXCEPT ![c] = NewClient(0)]
      /\ open' = open \ {c} /\ skin' = [skin EXCEPT ![c] = 9] /\ now' = now /\ up' = up
  BY <1>1, TypeParts DEF on_close
<1>5. session' \in [Conns -> Session(now)] /\ client' \in [Conns -> Client(now)]
  BY <1>3, <1>4
<1>6. \A d \in Conns : Good(client'[d], session'[d])
  BY <1>2, <1>4 DEF IInv
<1>7. \A d \in Conns \ open' : session'[d] = NewSession(0) /\ client'[d] = NewClient(0)
  BY <1>1, <1>4 DEF TypeOK
<1>8. skin' \in [Conns -> 0 .. 255]
  BY <1>1, <1>4 DEF TypeOK
<1>9. TypeOK'
  BY <1>1, <1>4, <1>5, <1>7, <1>8 DEF TypeOK, Session, Client
<1> QED
  BY <1>6, <1>9 DEF IInv

\* What the client does: it says something, and may wait for the answer.
LEMMA SayIInv ==
  ASSUME IInv, NEW c \in Conns, Ping(c) \/ \E m \in Messages : Say(c, m)
  PROVE  IInv'
<1> DEFINE M == Messages \cup {in_packet_t_ping}
<1>1. TypeOK /\ up \in [Conns -> Seq(M)]
  BY DEF IInv, TypeOK
<1>2. up' \in [Conns -> Seq(M)]
  <2>1. PICK m \in M : up' = [up EXCEPT ![c] = Append(@, m)]
    BY DEF Ping, Say
  <2> HIDE DEF M
  <2>2. Append(up[c], m) \in Seq(M)
    BY <1>1
  <2> QED
    BY <1>1, <2>1, <2>2
<1>3. UNCHANGED <<now, open, session, skin>>
  BY DEF Ping, Say
<1>4. CASE Ping(c)
  <2>1. /\ c \in open /\ client \in [Conns -> Client(now)]
        /\ client' = [client EXCEPT ![c] = [client[c] EXCEPT !.waiting = TRUE]]
    BY <1>1, <1>4, TypeParts DEF Ping
  <2>2. [client[c] EXCEPT !.waiting = TRUE] \in Client(now)
    BY <2>1 DEF Client
  <2>3. client' \in [Conns -> Client(now)]
    BY <2>1, <2>2
  <2>4. \A d \in Conns : /\ client'[d].joined = client[d].joined
                         /\ client'[d].clock = client[d].clock
                         /\ client'[d].late = client[d].late
                         /\ client'[d].whole = client[d].whole
    BY <2>1 DEF Client
  <2>5. \A d \in Conns : Good(client'[d], session'[d])
    BY <1>3, <2>4 DEF IInv, Good, Follows
  <2>6. \A d \in Conns \ open : client'[d] = client[d]
    BY <2>1
  <2>7. TypeOK'
    BY <1>1, <1>2, <1>3, <2>3, <2>6 DEF TypeOK, Session, Client
  <2> QED
    BY <2>5, <2>7 DEF IInv
<1>5. CASE \E m \in Messages : Say(c, m)
  <2>1. client' = client
    BY <1>5 DEF Say
  <2>2. TypeOK'
    BY <1>1, <1>2, <1>3, <2>1 DEF TypeOK
  <2> QED
    BY <1>3, <2>1, <2>2 DEF IInv
<1> QED
  BY <1>4, <1>5

\* on_message: a message without a session changes nothing, a ping is answered
\* and a profile leaves the clock alone.
LEMMA MessageIInv ==
  ASSUME IInv, NEW c \in Conns, on_message(c)
  PROVE  IInv'
<1> DEFINE M == Messages \cup {in_packet_t_ping}
           m == Head(up[c])
<1>1. TypeOK /\ up \in [Conns -> Seq(M)]
  BY DEF IInv, TypeOK
<1>2. up[c] # <<>> /\ up[c] \in Seq(M) /\ m.bytes \in Seq(0 .. 255)
  BY <1>1, MessageType DEF on_message
<1>3. up' \in [Conns -> Seq(M)]
  <2> HIDE DEF M
  <2>1. Tail(up[c]) \in Seq(M)
    BY <1>2, HeadTailProperties
  <2> QED
    BY <1>1, <2>1 DEF on_message
<1>4. UNCHANGED <<now, open>>
  BY DEF on_message
<1>5. CASE UNCHANGED <<session, skin, client>>
  <2>1. TypeOK'
    BY <1>1, <1>3, <1>4, <1>5 DEF TypeOK
  <2> QED
    BY <1>5, <2>1 DEF IInv
<1>6. CASE c \in open /\ Send({c}, {packet_pong}) /\ UNCHANGED skin
  <2>1. \A p \in {packet_pong} : Whole(p)
    BY FixedAreWhole
  <2>2. skin' \in [Conns -> 0 .. 255]
    BY <1>1, <1>6 DEF TypeOK
  <2>3. {c} \in SUBSET open
    BY <1>6
  <2> QED
    BY <1>3, <1>4, <1>6, <2>1, <2>2, <2>3, SendIInv
<1>7. CASE /\ c \in open /\ PacketType(m.bytes) = 115
           /\ session' = [session EXCEPT ![c] = Profile(@, m.bytes)]
           /\ skin' = [skin EXCEPT ![c] = session'[c].skin]
           /\ UNCHANGED client
  <2>1. m.bytes # <<>>
    BY <1>7 DEF PacketType
  <2>2. now \in Nat /\ session \in [Conns -> Session(now)]
    BY <1>1, TypeParts, TimeAssumption
  <2> DEFINE s == Profile(session[c], m.bytes)
  <2>3. s \in Session(now) /\ s.last_packet_time = session[c].last_packet_time
    <3> HIDE DEF m
    <3> QED
      BY <1>2, <2>1, <2>2, ProfileType
  <2>4. session' = [session EXCEPT ![c] = s]
    BY <1>7
  <2> HIDE DEF s, m
  <2>5. session' \in [Conns -> Session(now)]
    BY <2>2, <2>3, <2>4
  <2>6. skin' \in [Conns -> 0 .. 255]
    <3>1. session'[c].skin \in 0 .. 255
      BY <2>5 DEF Session
    <3> QED
      BY <1>1, <1>7, <3>1 DEF TypeOK
  <2>7. \A d \in Conns : session'[d].last_packet_time = session[d].last_packet_time
    BY <2>2, <2>3, <2>4
  <2>8. \A d \in Conns : Good(client'[d], session'[d])
    BY <1>7, <2>7 DEF IInv, Good, Follows
  <2>9. \A d \in Conns \ open : session'[d] = session[d]
    BY <1>7, <2>2, <2>4
  <2>10. TypeOK'
    BY <1>1, <1>3, <1>4, <1>7, <2>5, <2>6, <2>9 DEF TypeOK, Session, Client
  <2> QED
    BY <2>8, <2>10 DEF IInv
<1> QED
  BY <1>5, <1>6, <1>7 DEF on_message, Handle, Accepted

\* Every step keeps the invariant.
LEMMA NextIInv == IInv /\ [Next]_vars => IInv'
<1> SUFFICES ASSUME IInv, [Next]_vars PROVE IInv'
  OBVIOUS
<1>1. TypeOK
  BY DEF IInv
<1>2. CASE \E d \in Delays : Pass(d)
  BY <1>2, PassIInv
<1>3. CASE Broadcast
  <2>1. open \in SUBSET open /\ skin' = skin /\ up' = up
    BY <1>3 DEF Broadcast
  <2> QED
    BY <1>1, <1>3, <2>1, SendIInv, TimerPacketsAreWhole, TypeParts DEF Broadcast
<1>4. CASE SendToOne
  <2>1. PICK c \in open : Send({c}, Singles)
    BY <1>4 DEF SendToOne
  <2>2. {c} \in SUBSET open
    BY <2>1
  <2> QED
    BY <1>1, <1>4, <2>1, <2>2, SendIInv, TimerPacketsAreWhole, TypeParts DEF SendToOne
<1>5. CASE BroadcastDebug
  <2> DEFINE packets == {packet_debug_draw(n) : n \in Counts \ {0}}
  <2>1. \A p \in packets : Whole(p)
    BY ListsAreWhole
  <2>2. /\ client' = [c \in Conns |-> IF c \in open THEN Received(c, packets, 0) ELSE client[c]]
        /\ UNCHANGED <<now, open, session, skin, up>>
    BY <1>5 DEF BroadcastDebug
  <2> HIDE DEF packets
  <2>3. \A c \in Conns : client'[c] \in Client(now) /\ Good(client'[c], session[c])
    BY <1>1, <2>1, <2>2, DebugIsGood, TypeParts DEF IInv
  <2>4. client' \in [Conns -> Client(now)]
    BY <2>2, <2>3
  <2>5. \A c \in Conns \ open : client'[c] = client[c]
    BY <2>2
  <2>6. TypeOK'
    BY <1>1, <2>2, <2>4, <2>5 DEF TypeOK, Client
  <2> QED
    BY <2>2, <2>3, <2>6 DEF IInv
<1>6. CASE \E c \in Conns : \E parts \in Parts : on_open(c, parts)
  BY <1>6, OpenIInv
<1>7. CASE \E c \in Conns : on_close(c)
  BY <1>7, CloseIInv
<1>8. CASE \E c \in Conns : Ping(c) \/ \E m \in Messages : Say(c, m)
  BY <1>8, SayIInv
<1>9. CASE \E c \in Conns : on_message(c)
  BY <1>9, MessageIInv
<1>10. CASE UNCHANGED vars
  BY <1>10 DEF vars, IInv, TypeOK
<1> QED
  BY <1>2, <1>3, <1>4, <1>5, <1>6, <1>7, <1>8, <1>9, <1>10 DEF Next

\* The invariant holds in every behaviour.
LEMMA SpecIInv == Spec => []IInv
BY InitIInv, NextIInv, PTL DEF Spec

-----------------------------------------------------------------------------
(* Theorems *)

\* Types, and nothing but the defaults for a connection without a session: a
\* message that on_message handles after on_close writes to no session.
THEOREM ProtocolTypeCorrect == Spec => []TypeOK
<1>1. IInv => TypeOK
  BY DEF IInv
<1> QED
  BY <1>1, SpecIInv, PTL

\* What operator<< writes fits into the buffer of WSPPServer::send for every
\* length of snakes, amount of food and number of shapes.
THEOREM PacketsAreWhole == Spec => []PacketsArriveWhole
<1>1. IInv => PacketsArriveWhole
  BY DEF IInv, TypeOK, Good, PacketsArriveWhole
<1> QED
  BY <1>1, SpecIInv, PTL

\* What client_time is in this code.  A client that adds it up knows when the
\* last packet was sent to it, on every path that sends: through pongs, broadcasts
\* and joins of others, although init and the debug packets have no clock.  After
\* TimeSpace of silence it is behind by a multiple of that, and never ahead.  So
\* the field counts from the last packet to the client, whatever the client has
\* said meanwhile; p_base.h has it count from the last message from the client.
ClocksFollow ==
  \A c \in open :
    LET elapsed == session[c].last_packet_time - client[c].joined
    IN  \E laps \in 0 .. elapsed :
          /\ elapsed = client[c].clock + laps * TimeSpace
          /\ client[c].late \/ laps = 0

\* The sum of the client_time fields is the time of the last packet sent, or
\* behind it by a multiple of the clock's range after a silence longer than that.
THEOREM ClientClocksFollow == Spec => []ClocksFollow
<1>1. IInv => ClocksFollow
  BY DEF IInv, TypeOK, Good, Follows, ClocksFollow
<1> QED
  BY <1>1, SpecIInv, PTL
=============================================================================
