------------------------------ MODULE Protocol ------------------------------
(***************************************************************************)
(* What goes over a connection: the packets the server sends (send_binary, *)
(* broadcast_binary, src/src/server/game.h; WSPPServer::send,              *)
(* src/src/server/server.h), their size and the clock they carry, and the  *)
(* messages on_message (src/src/server/game.cc) decodes.                   *)
(*                                                                         *)
(* A packet is modelled by the size it announces and the bytes it writes.  *)
(* What steering and boosting do to a snake is in Steering and SnakeLength;*)
(* which snakes a client is told of, in GameServer.  A handler takes no    *)
(* time: all that it sends goes out at the same millisecond.               *)
(***************************************************************************)
EXTENDS Integers, Sequences

\* A definition followed by one that is the real operation is a faulty variant
\* of it that no specification uses.

CONSTANTS
  Conns,      \* the connections there may be
  TimeSpace,  \* how many values the client_time of a packet has, 2^16
  Delays,     \* how long it may take until the next handler runs
  Horizon,    \* the bound on the clock
  MaxMessage, \* the longest message on_message looks at, 255
  Messages,   \* what a client may say besides pings: [binary, bytes]
  MaxQueue,   \* the bound on the messages of a connection that wait
  Parts,      \* how many parts a snake may have
  Counts      \* how many foods, or debug shapes, a packet may hold

ASSUME TimeAssumption ==
  /\ TimeSpace \in Nat \ {0} /\ Horizon \in Nat /\ Delays \subseteq Nat \ {0}
ASSUME MessagesAssumption ==
  /\ MaxMessage \in Nat /\ MaxQueue \in Nat
  /\ Messages \subseteq [binary : BOOLEAN, bytes : Seq(0 .. 255)]
ASSUME SizesAssumption == Parts \subseteq Nat \ 0 .. 2 /\ Counts \subseteq Nat

VARIABLES
  now,      \* GetCurrentTime(), in milliseconds since the start
  open,     \* the keys of GameServer::sessions
  session,  \* connection -> Session; the name by its length
  skin,     \* connection -> Snake::skin of its snake
  up,       \* external: connection -> the messages that wait for on_message
  client    \* external: connection -> what the client makes of the packets

vars == <<now, open, session, skin, up, client>>

-----------------------------------------------------------------------------
(* Packets *)

uint8 == 1
uint16 == 2
uint24 == 3
string(length) == uint8 + length

PacketBase == uint16 + uint8

Packet(type, size, bytes) == [type |-> type, size |-> size, bytes |-> bytes]

PacketInit ==
  Packet("init", 26, PacketBase + uint24 + 3 * uint16 + uint8 + 6 * uint16 + uint8)

PacketAddSnakeHeadOnly(parts, name) ==
  Packet("snake", 25 + name + 2 * 3,
         PacketBase + uint16 + uint24 + uint8 + uint24 + uint16 + uint24 + uint8
           + 2 * uint24 + string(name) + 2 * uint24 + (parts - 2) * 2 * uint8)

\* From the last part to the second; the head has been written before.
packet_add_snake(parts, name) ==
  Packet("snake", 25 + name + 2 * 3 + (parts - 1) * 2,
         PacketBase + uint16 + uint24 + uint8 + uint24 + uint16 + uint24 + uint8
           + 2 * uint24 + string(name) + 2 * uint24 + (parts - 2) * 2 * uint8)

packet_remove_snake == Packet("snake", 6, PacketBase + uint16 + uint8)
packet_move == Packet("mov", 9, PacketBase + 3 * uint16)
packet_inc == Packet("inc", 12, PacketBase + 3 * uint16 + uint24)
packet_remove_part(fullness) ==
  Packet("rem_part", 8, PacketBase + uint16 + IF fullness THEN uint24 ELSE 0)
packet_fullness == Packet("set_fullness", 8, PacketBase + uint16 + uint24)
packet_rotation(fields) == Packet("rot", 8, PacketBase + uint16 + fields * uint8)
packet_end == Packet("end", 4, PacketBase + uint8)
packet_sector == Packet("sector", 5, PacketBase + 2 * uint8)
packet_set_food(n) ==
  Packet("set_food", 3 + n * 6, PacketBase + n * (uint8 + 2 * uint16 + uint8))
packet_spawn_food == Packet("spawn_food", 3 + 6, PacketBase + uint8 + 2 * uint16 + uint8)
packet_eat_food(id) ==
  Packet("eat_food", 3 + 6, PacketBase + 2 * uint16 + IF id THEN uint16 ELSE 0)
packet_pong == Packet("pong", 3, PacketBase)

\* packet_debug_draw: the server draws circles.
packet_debug_draw(n) ==
  Packet("draw", 3 + n * 13, PacketBase + n * (uint8 + uint24 + 3 * uint16 + uint24))

\* What BroadcastUpdates sends to all, and to one connection.
Broadcasts ==
  {packet_remove_snake, packet_move, packet_inc, packet_spawn_food}
    \cup {packet_rotation(n) : n \in 1 .. 3}
    \cup {packet_remove_part(f) : f \in BOOLEAN}
    \cup {packet_eat_food(i) : i \in BOOLEAN}

PointOfView == {packet_sector} \cup {packet_set_food(n) : n \in Counts}

Singles == PointOfView \cup {packet_end, packet_fullness}

-----------------------------------------------------------------------------
(* Sending *)

\* WSPPServer::send: a packet gets the array on the stack or a buffer of the
\* size that it announces.
Room(size) == IF size <= 128 THEN 128 ELSE size

\* The bytes that end up in the buffer: overflow() throws when there is no room
\* left, the stream swallows that and takes no more.
Buffered(bytes, room) == IF bytes <= room THEN bytes ELSE room

\* The uint16_t interval that send_binary and broadcast_binary put into a packet:
\* the time since the last packet to this client, although p_base.h calls
\* client_time the "time since last message from client".
Interval(elapsed) == elapsed % TimeSpace

\* A client gets packets at one time; the first carries the interval.
Received(c, packets, elapsed) ==
  [client[c] EXCEPT
     !.clock = @ + Interval(elapsed),
     !.late = @ \/ elapsed >= TimeSpace,
     !.whole = @ /\ \A p \in packets : Buffered(p.bytes, Room(p.size)) = p.bytes,
     !.waiting = @ /\ packet_pong \notin packets]

Elapsed(c) == now - session[c].last_packet_time

Stamped(c) == [session[c] EXCEPT !.last_packet_time = now]

\* send_binary for the connections of to, broadcast_binary for all of them.
Send(to, packets) ==
  /\ session' = [c \in Conns |-> IF c \in to THEN Stamped(c) ELSE session[c]]
  /\ client' = [c \in Conns |->
                  IF c \in to THEN Received(c, packets, Elapsed(c)) ELSE client[c]]

-----------------------------------------------------------------------------
(* The streams of on_message *)

\* operator>> of in_packet_t reads one byte, whatever it is; at the end of the
\* message the value stays in_packet_t_angle.
PacketType(bytes) == IF bytes = <<>> THEN 0 ELSE Head(bytes)

\* operator>> of uint8_t skips white space first.
White == 9 .. 13 \cup {32}
SkipWhite(bytes) ==
  LET first == {i \in 1 .. Len(bytes) :
                  bytes[i] \notin White /\ \A j \in 1 .. i - 1 : bytes[j] \in White}
  IN  IF first = {} THEN <<>>
      ELSE SubSeq(bytes, CHOOSE i \in first : TRUE, Len(bytes))

\* in_packet_t_username_skin: the two bytes after the type, as long as there
\* are any.  buf.str(ss.name) reads nothing: the name stays as it is.
Profile(s, bytes) ==
  LET version == SkipWhite(Tail(bytes))
      shade == IF version = <<>> THEN <<>> ELSE SkipWhite(Tail(version))
  IN  [s EXCEPT !.protocol_version = IF version = <<>> THEN @ ELSE Head(version),
                !.skin = IF shade = <<>> THEN @ ELSE Head(shade)]

-----------------------------------------------------------------------------
(* Actions *)

NewSession(t) == [last_packet_time |-> t, name |-> 0, protocol_version |-> 0, skin |-> 0]
NewClient(t) == [joined |-> t, clock |-> 0, late |-> FALSE, whole |-> TRUE, waiting |-> FALSE]

Init ==
  /\ now = 0
  /\ open = {}
  /\ session = [c \in Conns |-> NewSession(0)]
  /\ skin = [c \in Conns |-> 9]
  /\ up = [c \in Conns |-> <<>>]
  /\ client = [c \in Conns |-> NewClient(0)]

\* Time passes between two handlers.
Pass(d) ==
  /\ now + d <= Horizon
  /\ now' = now + d
  /\ UNCHANGED <<open, session, skin, up, client>>

\* on_open: the session begins now, init goes to the new client without a
\* clock, the new snake is announced to all, the point of view and the other
\* snakes to the new client.
on_open(c, parts) ==
  LET news == {packet_add_snake(parts, 0), packet_move}
      others == {packet_add_snake(parts, session[d].name) : d \in open}
  IN  /\ c \notin open /\ up[c] = <<>>
      /\ open' = open \cup {c}
      /\ session' = [d \in Conns |-> IF d = c THEN NewSession(now)
                                     ELSE IF d \in open THEN Stamped(d) ELSE session[d]]
      /\ skin' = [skin EXCEPT ![c] = 9]
      /\ client' = [d \in Conns |->
            IF d = c
            THEN [NewClient(now) EXCEPT
                    !.whole = \A p \in {PacketInit} \cup PointOfView \cup news \cup others :
                                Buffered(p.bytes, Room(p.size)) = p.bytes]
            ELSE IF d \in open THEN Received(d, news, Elapsed(d))
            ELSE client[d]]
      /\ UNCHANGED <<now, up>>

\* on_close erases the session and removes the snake.
on_close(c) ==
  /\ c \in open
  /\ open' = open \ {c}
  /\ session' = [session EXCEPT ![c] = NewSession(0)]
  /\ skin' = [skin EXCEPT ![c] = 9]
  /\ client' = [client EXCEPT ![c] = NewClient(0)]
  /\ UNCHANGED <<now, up>>

\* The timer: packets of BroadcastUpdates.  Packets that go out at one time
\* differ in their sizes only, so that all of them stand for any selection.
Broadcast ==
  /\ open # {}
  /\ Send(open, Broadcasts)
  /\ UNCHANGED <<now, open, skin, up>>

SendToOne ==
  /\ \E c \in open : Send({c}, Singles)
  /\ UNCHANGED <<now, open, skin, up>>

\* The drawing of circles for the snakes that have changed, if any; it
\* neither reads nor sets a clock.
BroadcastDebug ==
  /\ open # {}
  /\ client' = [c \in Conns |->
                  IF c \in open
                  THEN Received(c, {packet_debug_draw(n) : n \in Counts \ {0}}, 0)
                  ELSE client[c]]
  /\ UNCHANGED <<now, open, session, skin, up>>

\* A client sends a ping, but not before the last one was answered, or
\* something else.
in_packet_t_ping == [binary |-> TRUE, bytes |-> <<251>>]

Ping(c) ==
  /\ c \in open /\ ~client[c].waiting /\ Len(up[c]) < MaxQueue
  /\ up' = [up EXCEPT ![c] = Append(@, in_packet_t_ping)]
  /\ client' = [client EXCEPT ![c].waiting = TRUE]
  /\ UNCHANGED <<now, open, session, skin>>

Say(c, m) ==
  /\ c \in open /\ Len(up[c]) < MaxQueue
  /\ up' = [up EXCEPT ![c] = Append(@, m)]
  /\ UNCHANGED <<now, open, session, skin, client>>

\* on_message drops what is not binary, too long or without a session.
AcceptedWithoutSession(c, m) == m.binary /\ Len(m.bytes) <= MaxMessage

Accepted(c, m) == m.binary /\ Len(m.bytes) <= MaxMessage /\ c \in open

\* Any single byte up to 250 is an angle.
IsAngleUpToPing(m) == PacketType(m.bytes) <= 251 /\ Len(m.bytes) = 1

IsAngle(m) == PacketType(m.bytes) <= 250 /\ Len(m.bytes) = 1

\* The switch: pings are answered, a profile goes to the session and on to the
\* snake; the others leave sessions and packets alone.
Handle(c, m) ==
  \/ /\ PacketType(m.bytes) = 251
     /\ Send({c}, {packet_pong})
     /\ UNCHANGED skin
  \/ /\ PacketType(m.bytes) = 115
     /\ session' = [session EXCEPT ![c] = Profile(@, m.bytes)]
     /\ skin' = [skin EXCEPT ![c] = session'[c].skin]
     /\ UNCHANGED client
  \/ /\ PacketType(m.bytes) \notin {251, 115}
     /\ UNCHANGED <<session, skin, client>>

on_message(c) ==
  /\ up[c] # <<>>
  /\ up' = [up EXCEPT ![c] = Tail(@)]
  /\ \/ Accepted(c, Head(up[c])) /\ ~IsAngle(Head(up[c])) /\ Handle(c, Head(up[c]))
     \/ /\ ~Accepted(c, Head(up[c])) \/ IsAngle(Head(up[c]))
        /\ UNCHANGED <<session, skin, client>>
  /\ UNCHANGED <<now, open>>

Next ==
  \/ \E d \in Delays : Pass(d)
  \/ Broadcast
  \/ SendToOne
  \/ BroadcastDebug
  \/ \E c \in Conns :
       \/ \E parts \in Parts : on_open(c, parts)
       \/ on_close(c)
       \/ Ping(c)
       \/ \E m \in Messages : Say(c, m)
       \/ on_message(c)

\* The event loop gets round to the messages of every connection.
Spec == Init /\ [][Next]_vars /\ \A c \in Conns : WF_vars(on_message(c))

-----------------------------------------------------------------------------
(* Properties *)

\* Types; there is nothing but the defaults for a connection without a session:
\* no message that is handled late writes to one that was erased.
TypeOK ==
  /\ now \in 0 .. Horizon
  /\ open \subseteq Conns
  /\ session \in [Conns -> [last_packet_time : 0 .. now, name : Nat,
                            protocol_version : 0 .. 255, skin : 0 .. 255]]
  /\ skin \in [Conns -> 0 .. 255]
  /\ up \in [Conns -> Seq(Messages \cup {in_packet_t_ping})]
  /\ client \in [Conns -> [joined : 0 .. now, clock : Nat, late : BOOLEAN,
                           whole : BOOLEAN, waiting : BOOLEAN]]
  /\ \A c \in Conns \ open : session[c] = NewSession(0) /\ client[c] = NewClient(0)

\* No packet is cut short: what operator<< writes fits into the buffer that
\* WSPPServer::send chooses by get_size(), for snakes of any length and sectors
\* with any amount of food.
PacketsArriveWhole == \A c \in open : client[c].whole

\* A client that waits for a pong before it pings again (p_base.h) is not left
\* waiting: the ping is told apart from the angles, whatever else the client
\* has said before it and whatever the other connections do.
PingsAreAnswered == \A c \in Conns : client[c].waiting ~> ~client[c].waiting

\* A session's skin is one of "0 - 39" (game.h:28) for clients that send one.
SkinsAreInRange == \A c \in open : session[c].skin \in 0 .. 39
=============================================================================
