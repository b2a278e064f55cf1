# slitherss: TLA+ models, checks and proofs

This directory is the verification development of *slitherss*, a slither.io
server in C++. It models the server's own logic under `src/src/`: sessions, the
world of snakes, the game loop, movement, growth, steering, the body and where it
can be hit, food, the sectors a player sees, and the packets. TLC checks the models
on small instances, TLAPS proves the properties for all values of the constants.
Everything is translated from the C++ code; `PROJECT.json` gives the lines for every
definition.

## 1. The system

The server is one process with **one thread**: `GameServer::Run` calls
`endpoint.run()` of websocketpp, which executes every handler to its end before
it starts the next. What is concurrent is the *order* of the handlers, chosen by
clients and clock: `on_open`, `on_message`, `on_close` of any connection may come
between any two `on_timer`. Nothing is persisted; a crash ends the game.

| Component | State | Operations | Used by |
|---|---|---|---|
| `GameServer` (`server/game.cc`) | `sessions` (connection → snake id), `connections` (snake id → connection), `timer`, `last_time_point` | `on_open`, `on_message`, `on_close`, `on_timer` = `world.Tick`, `BroadcastUpdates`, `RemoveDeadSnakes`, `NextTick` | websocketpp |
| `World` (`game/world.cc`) | `snakes`, `lastSnakeId`, `changes` (raw pointers), `dead`, `sectors`, `ticks`, `frames` | `CreateSnake`, `AddSnake`, `RemoveSnake`, `Tick`, `TickSnakes`, `CheckSnakeBounds`, `FlushChanges` | `GameServer` |
| `Snake` (`game/snake.cc`) | `update` (change bits), `parts`, `fullness`, `speed`, `angle`, `wangle`, tick remainders, `clientPartsIndex`, `eaten`, `spawn` | `Tick` (AI, rotation, movement, food, boost, speed), `IncreaseSnake`, `DecreaseSnake`, `TickAI`, `Intersect` | `World`; `on_message` writes `wangle` and `acceleration` |
| `Sector`, `SectorSeq` (`game/sector.cc`) | food list, list of raw pointers to the boxes of snakes | `Insert`, `Remove`, `RemoveSnake`, `Intersect` | `Snake`, `World` |
| `SnakeBoundBox`, `ViewPort` (`game/sector.cc`) | sorted vector of sectors; view: `new_sectors`, `old_sectors` | `UpdateBoxNewSectors`, `UpdateBoxOldSectors` | `Snake::Tick`, `SendPOVUpdateTo` |
| packets (`packet/*`) | none | `operator<<`, `get_size` | `GameServer` |
| send path (`server/game.h`, `server/server.h`, `streambuf_array.h`) | `last_packet_time` of a session, a buffer per packet | `send_binary`, `broadcast_binary`, `send` | `GameServer` |
| configuration, TLS, `main`, debug drawing | none of the game | | |

How they interact. `on_open` creates a snake, enters it in the world and in both
maps, tells every client about it and tells the new client about every other
snake. `on_message` looks the session's snake up and sets fields and change bits.
`on_timer` lets every snake `Tick` (which collects *change bits* and moves the
snake between sectors), checks the heads of the moved ones against the border and
the boxes in the sectors around, broadcasts what the bits say, clears them, and
removes dead bots. `on_close` removes the session and its snake. A dead player
stays in the world until its connection closes.

What is hard about it:

* raw pointers with a discipline instead of an owner: `World::changes` within a
  timer handler, `Sector::snakes` between handlers;
* iterators used without a comparison with `end()`: correct only because of a
  relation between four containers that every handler has to keep;
* change bits set with `|=` and toggled with `^=` in six places, together with the
  test `changes != update` that suppresses a report;
* protocol state that only exists as the sum of deltas the clients were sent: the
  snakes they draw, the sectors they keep, lengths, angles, speed, fullness;
* several remainders of time at different rates, one of which depends on the speed
  it changes; a stalled loop is followed by one long step;
* geometry that decides by samples: a snake is registered in the sectors around some
  of its parts and tested for hits in windows around some of them;
* sizes announced by one function and written by another, clocks added up from
  16-bit intervals on five paths;
* a 16-bit id counter that is never checked.

The hazards are listed line by line in `PROJECT.json` with the properties that
cover them.

## 2. Modules

| Module | Models | Extends |
|---|---|---|
| `Maps` | `std::map`: `Assign` (`m[k] = v`), `Insert`, `Erase` | |
| `GameServer` | life of sessions and snakes through all handlers | `Maps` |
| `Arena` | abstract specification: the life of snakes as a player sees it | `Maps` |
| `ServerArena` | the refinement mapping from `GameServer` to `Arena`; the module of the runs | `GameServer` |
| `GameServerProofs` | the server's invariants, and that it implements the arena | `ServerArena` |
| `Motion`, `MotionProofs` | clock → virtual frames → movement frames → speed | |
| `SnakeLength`, `SnakeLengthProofs` | eating, boosting, length and fullness packets | `Maps` |
| `Steering`, `SteeringProofs` | wanted angle, rotation, bot AI, rotation packets | |
| `SectorGrid` | the grid, the sorted vector of sectors and its loops | |
| `SectorGridProofs` | lemmas: induction over a loop, what each loop computes | `SectorGrid` |
| `ViewPort`, `MCViewPort` | a player's view and the sector packets | `SectorGrid` |
| `SnakeBox`, `MCSnakeBox` | the body, where a snake is registered, where a foe looks, what it hits, how a client draws it | `SectorGrid` |
| `BoundBoxProofs` | theorems about both boxes, the view and the snake's | `ViewPort`, `SnakeBox`, `SectorGridProofs` |
| `SectorFood`, `MCSectorFood` | the food lists of the sectors, who eats and makes food, the food packets | `SectorGrid` |
| `SectorFoodProofs` | theorems about the food | `SectorFood`, `SectorGridProofs` |
| `Protocol`, `MCProtocol`, `ProtocolProofs` | sizes, buffers and clocks of packets, decoding of messages | |

Each module looks at one aspect and abstracts the others to the choices they may
make: in `GameServer` a `Tick` may move a snake to any set of sectors and a head
check may hit anything registered there (where it really is and what a check finds is
in `SnakeBox`); in `SnakeLength` any food may be met; in
`Motion` the snake may or may not be too short to boost.

In several modules a definition is followed by the real operation under another
name (`OnCloseKeepsSession` before `on_close`). The first is a faulty variant that
no specification uses; `PROJECT.json` ("mutants") pairs it with the property that
must detect it, which shows that the property constrains the code.

### GameServer

State: the two maps of the server, the world (`snakes` with bot flag, change bits
and box sectors; `lastSnakeId`; the sectors' lists `boxes`), the lists of a running
timer handler, and `shown`, the snakes each client draws according to the packets
it was sent. `on_open`, `on_message`, `on_close` are one action each. `on_timer` is
split at its loop bodies: `phase` runs through `tick`, `bounds`, `broadcast`,
`reap`; no other handler is enabled until it is `idle`, as in the single thread.
The split only makes the loop bodies separate steps, in the order of the loops
(`TickSnakes` goes through an unordered map: any order).

Undefined behaviour (dereferencing `end()` or a freed snake) sets `ub`, after
which nothing happens. `stale` are sectors whose list keeps the box of a freed
snake. `wrapped` is a history variable: the id counter has overflowed. The
properties that hold only before that say so in their statement: after an overflow
`AddSnake` may meet an id in use, two sessions share a snake, and a handler may
dereference `end()`. `Bots` has the values `config.world.bots` may have, `MaxSnakes` is
the bound of the runs on the ids that are given out.

The comment at `game.cc:343` says that `on_open` introduces the "other snakes in sectors
view", `p_snake.h:7` that a snake is sent "when another snake enters range", and the
repository's README has "snake observability tracking" on its list of things to do. The
loop of `on_open` introduces all snakes of the world, and nothing is sent when one enters
or leaves range. `SnakesInRangeShown` claims what both agree on: a live snake that shares
a sector with a client's own is drawn. It leaves open whether others are. Its mutant
`IntroducedInView` does what the comment says, without the tracking: snakes then meet
unseen.

### Arena

What the server promises without ticks, bits, lists or sectors: a connection joins
once; an id is `none`, `alive`, `dying`, `dead`, `gone`, in this order; a snake dies of
the border or of a *body*, which may be a dead player's; it is announced dead before it
may leave; a player's snake leaves with its connection and dead bots leave together.
`ServerArena` reads `life` off the change bits and the id counter. Many steps of the
server are stutters (ticks, moves, broadcasts of anything but a death). After an
overflow `Arena` promises nothing (`Overflow` is any step).

### Motion

`on_timer(dt)`, `World::Tick`, `Snake::Tick` with the numbers of the code, times in
milliseconds and distances in 1/1000 pixel, so that the float `move_dist` is exact. The
change of the speed is cut to 16 bits as in the code.
History: `elapsed`, `used`, `moved`.

### SnakeLength

`parts` is a number, `fullness` a remainder below 100. A movement is
`StartMove`, any number of `Eat`, `PayBoost`, then `BroadcastUpdates` or `Die`.
`drawn` is the length each client draws. Growth is sent one part a move by a counter that
all clients share (`clientPartsIndex`); a client that joins gets all parts at once and
draws the lag on top for as long as the snake lives. `ClientsDrawEnough` says that this
is the only way to be wrong: nobody draws fewer parts than the counter says.

### Steering

Angles are a ring of `Circle` units (the steering packet has 250). A player's
wanted angle is `0 .. Circle`, not normalised, as in `on_message`; `TickAI` aims at
any normalised angle. Rotation time, AI time and the mark `change_wangle` are as in
the code. A rotation packet is its letter and the fields it carries; `Reads` is what
the comments of `out_packet_t` let a client make of it, and a client that cannot make
anything of it has the value `Garbled`. There is one client, any one: it is there from the
snake's creation or comes later (`Join`), and is then told the angle in place of the wanted
angle, as `packet_add_snake` does. `late` says that it came in the middle of a turn the
others had already been told of, until the next wanted angle is sent.

### SectorGrid, ViewPort, SnakeBox

The grid has `Edge` sectors along an edge, each with the code's 300 pixels;
positions are integers, distances are compared squared. The vectors are sequences
with the code's `lower_bound` insertion, swap-with-last removal and final sort.
`ViewPort` keeps the order of `Tick`: new sectors are chosen with the old centre of
the view. A loop of the code is a recursive function over its rounds, which is what
the proofs can speak about. The names of `SnakeBox` (`BoxInit`, `BoxNext`, `BoxSpec`,
`sbb` for `sbb.sectors`) differ from those of `ViewPort` because one proof module is
about both: in the code the two boxes are the same class.

`SnakeBox` has the whole body, in tenths of a pixel and eighths of a turn: the line
`CreateSnake` lays out, how `Tick` lets the parts follow (the first three take the
place of the one before, the others are pulled by a factor that grows to 0.43), the
box as mean and radius, registration at creation and in every `Tick`, and
`Snake::Intersect` with its weak check and its windows. Eating and boosting change the
length after the sectors are settled, as in the code. `Drawn` is the body as
`packet_add_snake` sends it to a client: the tail in fifths of a pixel, then every step
towards the head in a byte of half pixels around 127, cut off at each step.

The code around it has gaps that the properties exclude by their conditions, and that
TLC finds when a condition is dropped:

* a snake *created* with 10 or more parts registers too few sectors: the tip of its
  tail may lie where no foe looks, and from 13 parts on the sector of its head may
  leave the box in the first `Tick`, for the radius is computed for a shorter neck and
  the mean lies towards the tail;
* after a stall, with several movement frames in one `Tick`, the sector of the head may
  leave the box of the shortest snakes too, and a touch of the head is missed by the
  check that asks only for the part behind it (`OnTime` excludes both);
* of a snake of more than 20 parts only the parts next to the middles of the windows (4,
  14, 26, 38, ...) are tested in earnest; the first part, the parts at the seams (6 to 9
  and 17, 18 for the first two windows) and up to seven at the end of the tail can be
  touched without being found;
* a foe and a snake so thick that their radii add up to more than 84 pixels (from about
  410 parts together) touch each other outside the first check, which asks for two steps
  whatever the radii; at the head this begins at 40 pixels, for the head is only tested
  with the part behind it;
* a neck that a stall has stretched to more than 64 pixels does not fit its byte.

Snakes start with 5 parts by default (`--min_len`, `--avg_len`).

### SectorFood

`food` has the x-sorted vector of every sector. A food is its position: packets know
it by nothing else, and size and colour matter to no property here. `on_timer` is
split as in `GameServer`: `Move` (the view follows, the head eats, a boosting snake may
drop a food), `CheckSnakeBounds` (any snake that moved may die), then for each in the
order of the change list `BroadcastMove`, or `on_dead_food_spawn` for any number of parts,
one after the other, and `BroadcastDeath`. The food of a dying part
scatters around it and goes into the list of the *part's* sector, also when it falls
into the next one; parts in the outermost sectors leave none. `drawn` are the foods a
client draws. `twins` marks positions that two foods shared: the client cannot tell
them apart, and after one is eaten it does not draw the other; `ViewedFoodDrawn` makes
that exception.

The scan of `UpdateEatenFood` stops at the first food out of reach on either side, so
a food in reach may stay behind one that is near in x and far in y (the repository's
README lists "fix eating food"). `ScanIsExact` says what the two loops do guarantee.

### Protocol

A packet is the size it announces (`get_size`) and the bytes it writes (`operator<<`).
`Room` is the buffer `WSPPServer::send` chooses, `Buffered` what is left of a packet in
it. `session` has `last_packet_time`, which `send_binary` and `broadcast_binary` read
and set. The comment at `p_base.h:11` calls `client_time` the "time since last message from
client"; the code counts from the last packet *to* the client, and the model does as the
code. `client` adds up the intervals it gets (`clock`), remembers whether a silence
was longer than the clock's range (`late`), whether all packets were whole, and whether
it waits for a pong. `init` and the debug packets carry no clock. A client's messages
wait in `up` and may be handled after `on_close`. `on_message` decodes them by their
bytes: one byte up to 250 is steering whatever it means elsewhere; the profile is read
with the formatted `>>`, which skips white space; the name is never read, for
`buf.str(ss.name)` sets the stream. A handler takes no time.

## 3. Runs

Passing runs:

| Run | Instance | States | Shows |
|---|---|---|---|
| `server` | 2 connections, none or one bot, at most 2 snakes, 1 sector, fair | 311k | `TypeOK`, `SessionsOwnSnakes`, `SectorsIndexWorld`, `NoUndefinedBehaviour`, `ChangesAreLive`, `SnakesInRangeShown`, `QuietWhenIdle`, `DeathIsFinal`, `DyingIsResolved`, `ImplementsArena` |
| `length` | 2 clients, up to 4 parts, food of 40 and 100 | 718k | `TypeOK`, `MassAccounting`, `ClientsDrawEnough`, `OwnerSeesFullness`, `ClientsCatchUp` |
| `motion` | delays 3, 10, 125, 512 ms, 1.2 s | 512k | `TypeOK`, `TimeAccounting`, `MoveStaysInMargin` |
| `steering` | 12 units, turns of 2, a client that may come at any time | 30k | `TypeOK`, `ClientsKnowAngles`, `TurnsTowards`, `TurnsAsTold`, `SteeringSettles` |
| `viewport` | 7 × 7 sectors, view of 2 each way | 186k | `TypeOK`, `ClientSeesView`, `DeltasAreExact`, `ViewIsAroundHead` |
| `snakebox` | 7 × 7 sectors, 12 snakes of 3 to 26 parts, foes of 3, 100 and 380 | 22k | `BoxTypeOK`, `ListsAgree`, `HitsAreSeen`, `TouchesAreFound`, `BodyIsDrawn` |
| `food` | 1 player, 1 bot, 3 × 3 sectors, 3 positions, up to 3 foods and 4 with those of the dead | 1.4M | `TypeOK` (the vectors are sorted), `ScanIsExact`, `NoGhostFood`, `ViewedFoodDrawn` |
| `protocol` | 2 connections, 4 messages, a clock of 2 values, 2 ms | 197k | `TypeOK`, `PacketsArriveWhole`, `PingsAreAnswered` |

Runs that show a disagreement between a statement in the repository and the code
(the "findings" of `PROJECT.json`):

| Run | Violated | What happens |
|---|---|---|
| `ghost` | `ClientsForgetRemovedSnakes` | a player disconnects; nobody is told to remove its snake |
| `full_circle` | `FullCircleSettles` | a snake steered to 250 rotates for ever, steered to 0 it does not |
| `newcomer` | `NewcomersKnowWhereTo` | a client that joins in the middle of a turn is told that the snake wants to go where it points (`p_snake.h:17` says "snake.eang and snake.wang") |
| `skins` | `SkinsAreInRange` | skin 10 is skipped as white space, the first letter of the name becomes the skin |

Behaviours the models show and no document speaks about: a client that joins after a
player has died is told to draw the dead snake (`Introduced`); the body of a dead
player, removed from every screen, still kills (`Die` of `Arena` allows any body); a
client that joins while a snake's growth is still being sent draws it too long for good.

Bounds and why they are enough. Two snakes are the least at which one client watches what
happens to another, a handler of one comes between handlers of the other, and one body
kills another head; the run has two players and a player with a bot, and with a bot the
second connection waits in vain. With one sector a box enters and leaves it and shares it
with another or not; the lists of different sectors do not depend on each other, and the
proofs are for any set of them. The id space is a constant: the code does not depend on its
width. The run stays below an overflow, and the proofs of `TypeOK`, `ChangesAreLive`,
`QuietWhenIdle` and `SnakesInRangeShown` hold across one. In `length`, 40 and 100
reach every remainder class that matters for the carry at 100, and 33 per boost is
the code's number. In `motion` the delays are the loop's 10 ms, a short one, one
longer than a frame at full speed and the longest stall that is safe; 1200 ms is
time for a full acceleration and slowing down. `Circle`, `Turn` and the intervals of
`steering` keep the ratios that matter: a turn does not divide every way, and a long
delay spans several frames. The view of `viewport` reaches 2 sectors instead of 3,
on a map with border; its moves are 100 pixels, several movement frames. The three
positions of `food` are chosen for their cases: from the first the second is out of reach
although it is next in x, and hides the third, which is in reach; the third lies across the
border of the only inner sector, where a part at the first may drop it. Four foods are
those of two parts of a dead snake, and two snakes are what it takes for one to eat what
the other dropped in the same tick. The snakes of
`snakebox` start near borders and corners of sectors, so that every one of them enters
and leaves sectors soon. One has the minimum of parts and is ticked with delays. Eight are
ticked on time and have up to nine parts, the longest that `HitsAreSeen` covers at creation:
the default length with eating and boosting, one that grows all the time, one that turns
every way for 5 ticks, and five that go on for 9 or 10 ticks, straight, in a curve or in a
zigzag, until the tail is where the head has been. The others have the lengths on
the two sides of the limit at which `Intersect` changes its method, and
the length whose last part is the middle of a window. The three foes are thin enough for a
touch of the head, thicker than that, and about as thick as the first check allows. In `protocol` a clock of 2
values makes one delay shorter and one longer than its range; the message set has
steering whose byte is also a message letter, a profile, a message that is too long and a
text message;
the lengths of snakes and lists of food lie below and above the 128 bytes of the small
buffer.

Deadlock. `GameServer` may stop: after a timer error with no connection left to
open there is nothing to do, and after undefined behaviour the model stops.
`ViewPort` stops when the snake dies, and `Motion` at its time bound only `on_timer`
ends. The other runs check deadlock.

Fairness. `FairSpec` of `GameServer` has weak fairness of `TimerStep` (a handler that
has begun runs to its end: one thread, finite loops) and of `on_timer` (asio calls an
armed timer; after an error it is not armed and nothing is owed). `SnakeLength` and
`Steering` have weak fairness of the timer's steps, `Protocol` of `on_message` for each
connection (asio gets round to every socket with data). Clients owe nothing: no
connection, packet or food is ever fair.

## 4. Proofs

TLAPS checks all proofs; there are no axioms. The assumptions are the named ones of
the modules, and TLC evaluates each on a run:

* `GameServer`: `IdSpace > 0`, fewer bots than ids, at least one sector, a bound in `Nat`;
* `SnakeLength`: food sizes in `1 .. 100`; `Motion`: delays in `Nat`;
* `Steering`: a circle, a turn, intervals and delays of at least one unit;
* `SectorGrid`: a map of at least one sector; `ViewPort`: a view of at least one sector
  each way, whole coordinates;
* `SnakeBox`: a snake is created with at least 3 parts (`CreateSnake`); a `Tick` may gain
  any number of parts and loses at most one; a foe has at least 3 parts;
* `SectorFood`: positions on the map, visible sectors on the map, no snake is both a
  player and a bot;
* `Protocol`: a clock of at least one value, delays of at least 1 ms, messages of bytes,
  snakes of at least 3 parts.

**`GameServerProofs`** (any connections, sectors, ids, bots):

* `TypeCorrect`, `ChangesStayLive`. `TypeOK` is not inductive: that `changes[cursor]`
  is a snake needs the discipline of the lists. `ListsInv` says it: `changes` is empty
  outside the loops that use it, its members are snakes that have been ticked, none
  twice, and `dead` holds bots of the world. Snakes enter and leave only when `changes`
  is empty.
* `QuietBetweenHandlers`, by `QuietInv`: a snake that is not waiting for its broadcast
  has no unsent move and no unannounced death. The crux is `TickedFacts`: when nothing
  was pending, the test `changes != update` never suppresses a report.
* `SessionsAlwaysOwnSnakes`, `SectorsAlwaysIndexWorld`,
  `NoUndefinedBehaviourBeforeWrap`, together by `WorldInv`: until the counter
  overflows, all ids in use are at most `lastSnakeId`, so a new id is fresh; then the
  two maps and the world correspond one to one and the sectors' lists are the inverse
  of the boxes' sectors. The three need each other: removal is safe because the lists
  are exact, broadcasting because the maps match.
* `DeathStaysFinal` (an action property): from the same invariants.
* `SnakesInRangeAlwaysShown`, by `LiveSnakesShown`: that the snakes in range are drawn is not
  inductive, because snakes come into range in steps that tell no one; that *all* live snakes
  are drawn is, and it is what `on_open` does.
* `ServerImplementsArena`: `GameServer`'s `Spec` implies `Arena`'s under the mapping of
  `ServerArena`. Each action of the server is shown to be an action of the arena or a
  stutter: `on_open` is `Join`, a hit in the bounds loop `Die`, other heads `Miss`, the
  broadcast of a dying snake `Announce`, `on_close` `Leave`, `RemoveDeadSnakes`
  `ReapBots`. It rests on the invariants above: `Join` needs a fresh id, `Leave` that no
  one is left dying between handlers, and `ReapBots` that `dead` holds exactly the dead
  bots.

**`MotionProofs`** (any set of delays, no bound on time): `MotionTypeCorrect`,
`TimeIsAccounted`, and three theorems on how far one `Tick` moves a head, each under a
bound on the delays between two calls of `on_timer` (the loop aims at 10 ms). They are
what the conditions of the geometric theorems below ask for:

| Theorem | Delays up to | Moved at most | Asked for by |
|---|---|---|---|
| `TicksAreOnTime` | 88 ms | one step, 42 pixels | `OnTime` in `TouchesAreFound`, `BodyIsDrawn`, `HitsAreSeen` |
| `MovesAreSmall` | 144 ms | half a sector, 150 pixels | `SmallMoves` of `ViewStaysAroundHead` |
| `MovesStayInMargin` | 512 ms | less than a sector, 300 pixels | the margin of sectors around the game's disc |

A movement frame lasts 93 to 227 ms and covers at most 42 pixels. For the last two it is
enough that at most 226 ms are left over from the `Tick` before: at most 738 ms are moved
at once, fewer than 8 frames, and 7 frames are 294 pixels; at most 370 ms are fewer than 4
frames. `TicksAreOnTime` needs a sharper bound, for a snake that speeds up has its frame
shortened under the time it has already waited: the invariant `Prompt` says that the time
left over is less than a frame *at the speed the snake now has*. A frame ends with less
than 88 ms left, which is less than the shortest frame. The bound is tight: virtual frames
of 8 ms make 96 ms of a delay of 89, and TLC then finds a `Tick` of two steps.

**`SnakeLengthProofs`** (any clients, lengths and amounts of food):
`LengthTypeCorrect`, `ClientsAlwaysDrawEnough`, `OwnerAlwaysSeesFullness`,
`MassIsAccounted`. The strengthening `LagInv` says that within a timer handler the counter
is ahead of the snake by at most the one part a boost costs, which the broadcast takes back
before anyone can join; `FullnessInv` says that what the owner shows is
stale only while the change bit is set.

**`ProtocolProofs`** (any connections, messages, delays, clock width, lengths of snakes
and lists): `ProtocolTypeCorrect`, `PacketsAreWhole`, `ClientClocksFollow`. The last says
what `client_time` is in this code, the comment at `p_base.h:11` notwithstanding, and is not a
property of a run for that reason. A packet is
whole if it writes no more than it announces; the lemmas show that for each packet, and
the one with slack is `packet_add_snake`, which announces one part more than it writes.
The inductive invariant is per connection (`Good`): whole so far, and behind the session
by a number of laps that is 0 unless it is late; `LapsOf` and `StampFollows` do the
arithmetic of quotient and remainder for a clock of any range. The 16 bits of the code
are the instance `TimeSpace = 65536`.

**`SteeringProofs`** (any circle, turn, intervals and delays): `TypesHold`,
`AnglesAreKnown`, and the action properties `TurnsTheShortWay` and `TurnsTheToldWay`. The
invariant adds `ToldWayLasts` to what the run checks: as long as no other wanted angle
waits to be sent, the way that is left has the direction the clients were told. It is
inductive because a turn never passes the wanted angle (`TurnedBy`, `RotatedBy`: the last
turn is cut to the rest), so the sign of the way cannot change under way. `ReadsBack`
goes through the letters of the rotation packet and shows that a client reads exactly the
fields that were sent. `AnglesAreKnown` covers a client that joins at any time, but for what
`NewcomersKnowWhereTo` shows it is not told.

**`SectorGridProofs`** has the lemmas the next two modules share. The library's induction
theorems cannot be instantiated here, so induction is done with sets instead of
predicates: `LeastNumber` (from well-foundedness) gives a least counterexample, which
gives `LoopInvariant` (a family of sets that round 0 meets and each round keeps, all
rounds meet) and `LoopExists` (the recursive function of the rounds exists, so its
defining equation may be used). From these: `std::lower_bound` returns the first place not
less (`LowerBoundIs`), `Insert` keeps a vector sorted and adds exactly one element
(`InsertIs`), the double loop of `UpdateBoxNewSectors` visits every sector around the
centre (`WithNewIs`), and the swap-with-last loop of `UpdateBoxOldSectors` followed by
`Sort` keeps exactly the sectors that pass the test, in order (`SweepIs`, `SortIs`,
`KeptIs`).

**`BoundBoxProofs`**, about a view (any map, reach, moves):

* `ViewTypeCorrect`, `ClientAlwaysSeesView`, `DeltasStayExact`, by an invariant that says
  what is still to be sent: between a `Tick` and its broadcast, `new_sectors` and
  `old_sectors` are what turns the client's sectors into those of the view.
* `ViewStaysAroundHead`, under the hypothesis `SmallMoves` that no `Tick` moves the head
  by more than 150 pixels each way, which `MovesAreSmall` gives for delays of up to
  144 ms. The code chooses new sectors around the *new* head by their distance
  from the *old* centre of the view; up to half a sector the two differ too little for a
  sector next to the head to be left out, whatever the reach.

About a snake (any positions, lengths, delays): `BoxTypeCorrect` and `ListsAlwaysAgree`,
by `BoxInv`, which adds that a removed snake has no sectors. The lemmas follow the body
through creation, movement and growth (`LineIs`, `MovedIs`, `GrownIs`) and show that
registration touches the list of a sector exactly when the sector enters or leaves the
vector (`ReregisteredIs`).

About the body of a snake (any length, turns, gains and foes; no bound on its `Tick`s):

* `SpacingInv`, the invariant both theorems below rest on: of a snake ticked on time, two
  parts next to each other are at most 45.6 pixels apart in each coordinate, and the neck
  is at most 44 pixels long. That steps are short is not inductive part by part, since a
  part follows the *new* place of the one before. `PulledChain` therefore goes down the
  body and also bounds how far each part moves in a frame (`Lag`: 45.6 for the first three,
  then 50.6, 56.5, 63.9 and 80 pixels for all others). With a pull of 0.43 a part that
  moves 80 pixels makes the next one move by 34.4 of its old step of at most 45.6, which is
  80 again; the rounding of `Offset` does not add up along the body because 0.43 of 80 is a
  whole number of tenths.
* `BodyAlwaysDrawn`: a step of at most 45.6 pixels fits the byte of half pixels, and
  `DriftIsBounded` adds up what is cut off on the way from the tail.
* `TouchesAlwaysFound`: of a snake of up to 20 parts a touched part is within the first
  check and then found itself (`PartIsFound`); the head is found by way of the part behind
  it (`HeadIsFound`: neck plus reach is at most two steps); a part next to the middle of a
  window is near enough to that middle for the window to be opened (`MiddleIsNear`).
  Distances are compared squared as in the code; `Triangle` is the triangle inequality in
  that form, from the identity of Lagrange, and `ByWayOf` adds two distances.

**`SectorFoodProofs`** (any map, positions, players, bots, amounts of food):
`FoodTypeCorrect`, of which `FoodStaysSorted` is the part that matters, `ScansAreExact`, `NoGhosts`, `ViewsAreDrawn`. The
loops of `UpdateEatenFood` are treated as above (`ToLeftIs`, `ToRightIs`); they remove
foods while they walk, and what they guarantee needs the vector to be sorted. The rest of
the invariant is about a running timer handler, in which the lists already have what the
clients will be told:

* `ListsInv`: a snake is in `changes` once, after it moved and until it is broadcast, and
  only then has it something to send;
* `GhostInv`: food that is drawn and gone is in the `eaten` of a snake still to be
  broadcast, and food dropped and eaten within one tick was eaten by a snake that comes
  *later* in `changes`, so it is drawn before it is taken off. This is where the order of
  the broadcasts matters;
* `ViewInv`: the changes of a view are sent or belong to a snake that is to be broadcast;
* `TwinInv`: food in view is drawn, or in a sector that is to be sent, or dropped by a
  snake that is to be broadcast, unless its position was shared.

The parts of a dying snake add to the `spawn` of the first snake in `changes`, which is the
next to be broadcast (`PartedLists`).

Only model-checked: the liveness properties (`DyingIsResolved`, `ClientsCatchUp`,
`SteeringSettles`, `PingsAreAnswered`), which are out of the prover's reach, and
`HitsAreSeen` of `SnakeBox`. That one compares the sectors of a box with the mean of the
whole body and a radius that grows by 24 pixels a part, while `SpacingInv` allows steps of
45.6 pixels in each coordinate: it would need a bound on how far a body that bends is from
its own mean, in which the slack of the neck, of the rounding and of the pull are weighed
against each other. The invariant for that is not known; the property itself holds only
for snakes that were created with up to nine parts.

## 5. Not modelled

The values inside packets other than the parts of a new snake (positions in fifths of a
pixel, sizes of food times 5: food of 100 is written as 244); floating-point rounding
beyond the units of `SnakeBox` and `Motion`; random positions; incoming packets that are
only logged; the packets the server never sends (prey, leaderboard, minimap, high score)
and the shapes it never draws; configuration and TLS; the parts of `streambuf_array` the
server does not use; the score formula; what websocketpp does with a packet once it was
handed over.

## 6. Plan

Done, in this order: `GameServer` with proofs (the core), `Motion`, `SnakeLength`,
`Steering`, `ViewPort`, `SnakeBox`, `SectorFood`; proofs for `Motion` and `SnakeLength`;
`Arena` with the refinement checked and proved; the body and `Intersect` in `SnakeBox`;
`Protocol` with proofs; proofs for `Steering`; the loops of `SectorGrid` as functions and
the lemmas about them; proofs for `ViewPort`, the lists of `SnakeBox`, and `SectorFood`;
the spacing of the body with `TouchesAreFound` and `BodyIsDrawn`; the bounds on the delays
of `Motion` that these and the view ask for.

Next: a bound on the distance of the parts from their mean, which is the first step to
`HitsAreSeen`.
