# Mice and Cats: a TLA+ model of three versions of a game

The repository holds three versions of one game. Exercise 1 is the networked
one (Java: a server, Swing clients, a shared message package); Exercise 2 is a
single-player version in Smalltalk, Exercise 3 one in Eiffel. This project
models all three, checks them with TLC and proves their invariants with TLAPS.

## 1. Inventory

| Component | State | Operations | Talks to |
|---|---|---|---|
| Connections and handshake (`Server`, `ClientManager`, `UpdateBroadcaster`) | per connection: a thread, its `BufferedReader`, `ready`; the set of `clients` | `listenForClients`, `run`, `handshake`, `sendData`, `addClient`, `broadcast` | clients by lines on a socket; the game by `registerClient` and `queueAction` |
| Tick and rules (`GameManager`, `GameState`, `GameStateMapper`) | mice, cats, snapshots, `gameStart`, `gameStatus`, `actionQueue` | `updateGame` = `startGame`, `timeCheck`, `processActions`, `updateCats`, `checkState`, `broadcast`; `addMouse` | handlers through concurrent maps and the queue |
| Field and motion (`GameField`, `Tunnel`, `TunnelNode`, `Mouse`) | constant tunnels; a mouse's position and level | `isPosWithinDoor`, `isPosWithinTunnel`, `getRandomNonDoorNode`, `move` | called by the tick and by handlers |
| Cats (`CatManager`, `Cat`, `TrackerCat`, `TunnelCamperCat`) | positions of cats | `spawnCats`, `updateCats`, `move` | the tick; they put caught mice back |
| Client (`Client`, `GameStateListener`) | socket, listener thread, pressed directions | `connect`, `register`, `initiateReady`, `send...`, `receive`, `close` | the server; the panels |
| User interface (`ClientGUI`, `GameBoardPanel`, `GameChatPanel`, `InputManager`) | `clientId`, local mice and cats | buttons, keys, `updateBoard` | `Client`, from two threads |
| Messages (`shared`) | none | parsing | both sides |
| Smalltalk game (`GameWindow`, `GameCharacter`, `GameNPC`) | active keys, positions, `state` | key handlers and a forked loop | the window system |
| Eiffel game (`APPLICATION`, `FIELD`, `CAT`, `MOUSE`, `TIMER`) | positions, counter, time of the end | one loop, class invariants, postconditions | terminal and clock |

What is hard here:

* **Threads.** One handler per connection, the tick thread and the listener
  share maps without locks. Registration consists of several steps (choose a
  tunnel, put the mouse, add the client, answer the id), and the tick can run
  between any two. `ready` is a plain field written by one thread and read by
  another.
* **Order of messages.** The id is written after the client is registered for
  updates, and the update is built before the clients are iterated.
* **Weak iteration.** `allMatch` in `allClientsReady` and the loop of `broadcast`
  go through a concurrent set one client at a time, while handlers add clients
  before and behind them and others get ready.
* **Failure.** Clients die, send something else than a handshake or an action
  without its fields, or stop reading. An exception in `updateGame` silently ends
  the scheduled executor's task. A blocked `println` blocks the tick. Nobody
  removes a client.
* **Lost writes.** The client's `send` asks `checkError`, which knows of a closed
  connection only some time after the first line that was lost on it, and then
  for good.
* **Two readers of one socket.** The handshake's `BufferedReader` and the
  `Scanner` of the action loop.
* **Time.** The end of the game, the age of snapshots.
* **The client's two threads.** The event thread blocks in `register` and shares
  `directions` with the listener, which any exception ends; `close` waits for a
  thread that waits for the server.
* **Chase.** A cat looks for the nearest mouse, moves by a fixed length and
  catches, one cat after another, while the list of mice changes.
* **Rounding and midnight.** The Eiffel cat moves by rounded components of a unit
  vector that may be 0/0; the Eiffel timer compares times of day.
* **Geometry.** `LEVEL_CHANGE` takes the first tunnel that has a door at the
  mouse's position, whatever tunnel the mouse is in; 50 nodes typed in by
  hand; doubles that are compared where they may be equal.

What makes each component correct: a client of the broadcaster has a mouse;
those a count has found ready get their id first and find themselves in every
update; nothing happens before the start; the tick survives every client that
keeps to the protocol; a game follows lobby, start, running, decision; mice stay in their
tunnel or field and change level by its doors; a game whose players are ready
starts, serves everyone and ends. A client sends what the server expects whatever is
pressed and whatever fails, and its threads go on; cats overlook no mouse, catch
it once and come to rest; the small games end, with the verdict of their last round.
`PROJECT.json` lists the hazards by line and
the properties that stand against each.

## 2. Modules

| Module | Models |
|---|---|
| `TunnelGeometry` | the operator `IsGeometry`: all that the server needs of positions |
| `GameServer` | the server: handlers, tick, clock, and the clients as environment |
| `GameLifecycle` | abstract specification: joining, preparing, starting and deciding a game |
| `GameField` | the real tunnels and bounds, `posWithinNode`, steps, clamping |
| `MouseMotion` | one mouse on the real field through moves, level changes and ticks |
| `GameClient` | the client of the network game: buttons, keys, listener, `close`; the server is its environment |
| `ChaseGeometry` | `IsDistance` and `IsStep`: all that a chase needs of positions |
| `CatHunt` | the cats of the server and the mice they hunt |
| `SmalltalkGame` | the game of Exercise 2 |
| `EiffelGame` | the game of Exercise 3 |
| `HuntRound` | abstract specification: what a tick does to who is on the surface |
| `Session` | abstract specification: one client and the server |
| `FieldGeometry` | the real field satisfies `IsGeometry` (theorems) |
| `ServerOnField` | the server on the real field (theorems) |
| `MC...` | values for TLC, and checks of the data of the field |
| `..._proofs` | theorems about the module of that name |

`GameServer` implements `GameLifecycle` (its `INSTANCE Lifecycle` is the
refinement mapping). `GameServer` assumes `IsGeometry` of its constants, and
`FieldGeometry` proves it of the real field, so a small abstract field is
enough for the runs of the server and the theorems about it still hold for the
five tunnels of the code: `ServerOnField` instantiates the server and its theorems with
them. In the same way `CatHunt` and `SmalltalkGame` assume a space
with a distance and a step of fixed length, of which the plane is one (up to the
rounding of doubles) and the rows of their runs are others.

The two halves of the network game meet in `Session`, which both implement: `GameServer` for each
of its clients that is neither a `Garbler` nor `Eager`, `GameClient` for itself. A session has the
`stage` of the handshake (new, registered, answered, ready) and the `view` that the
updates have of the client (none in the lobby; behind, built without its mouse; current). So
the client that one module has as environment and the one that the other models say the
same lines in the same order, and what each is sent is bounded by the same steps. It is no equality:
neither proof says that the environment of a module can do all that the other module does. In the
mapping of the server, whom an update is for is settled when the count of `allClientsReady` has
ended (`tick = "start"`). A client that is registered by then is "current" from the beginning of the game, be it
ready or not: it may have been added behind the stream that counted the others. One that is not is "behind". In `GameClient`
`StartGame` has both outcomes, and whoever had not said READY when the game began is a `joiner`.

`CatHunt` decides whom a cat catches where `GameServer` leaves it open; both implement `HuntRound`:
while the cats have their turns no mouse comes up, and each cat takes at most one off the surface.

### GameServer

Variables are the fields of the code, under their names (`mice`, `clients`,
`queue` for `actionQueue`, `cats`, `status`, `snaps` for `catSnapshots`,
`started` for `gameStart # null`), and the program counters of the threads:

* `pc[c]`, the handler of connection `c`: `register` (waiting for the first
  line), `choose`, `put`, `add`, `answer` (the steps of `registerClient` and
  the answer), `await` (waiting for READY), `play` (the action loop), `gone`.
  `chosen[c]` is `addMouse`'s local variable between the choice of the tunnel
  and the `put`.
* `tick`: `idle`, `count`, `start`, `time`, `actions`, `cats`, `check`, `broadcast`,
  `send`, `dead`. One action per stage; within `count` one action per client that
  `allMatch` comes to, within `actions` one per polled
  request, within `cats` one per cat, within `send` one per client.

The network is `inbox[c]` (lines the server's socket holds) and `ahead[c]`
(lines the handshake's `BufferedReader` has taken from it). `ReadLine` takes a
line and any number of the following ones; `ReadAction` reads only the socket.
`Disconnect` may discard what is unread; `Stall` makes the client's side stop
reading, and `SendUpdate` is then disabled for it: that is `println` blocking.

`ready` has three values: `ReadyVisible` is the moment the tick's thread can see
the handler's write. Liveness assumes that it becomes visible some time; safety
does not. The iterators of the client set are weakly consistent: `AddClient` during
`count` or `send` may or may not add the client to `pending`, the clients that the
iteration has still to come to. `FindReady` and `FindUnready` look at one client of `pending` at
the time they come to it; `starters` are those found ready. So a game may begin with a
client that has joined and is not ready, if it was added behind the stream, and the
abstract `GameLifecycle` says just this: the game waits for everybody who had joined when the
count began.

A connection of `Garblers` is another program: its lines may be any lines at any
time, `GARBLED` (no handshake and no action) and `INCOMPLETE` (parses as an action, but the type or
the direction is missing; `{}` parses as a handshake too) among them. `ProcessOrphan` and `ProcessIncomplete` are the
two exceptions that end the tick for good.

The clock is `late` (the duration has passed) and the age of each snapshot; both
advance at any time.

### GameField and MouseMotion

A length is an integer number of 1/60 of a node. With the values of
`Main` (50 %, 60 ticks) a mouse moves 14 * 0.5 / 60 = 7/60, half a mouse is 24,
the tolerance of `posWithinNode` is 6, and every position that `addMouse`, a
step or `checkBounds` produces is a whole number. The doubles of the code
differ from these numbers by rounding only, and that matters only where two are
equal: `IsPosWithinTunnel` counts equality as within, `SurelyWithinTunnel` does
not, and a move may have either outcome between them. The client's keys send no
diagonal directions, so those are left out. A mouse's life is followed from its
spawn until it is caught, when it is put on a spawn point again.

`MCMouseMotion` also has TLC evaluate two facts about the data: every
connection leads to a node of the tunnel that is connected back, and every
tunnel is in one piece with a door and a tile.

### GameClient

`edt` is where the event thread is: `idle`, in `register` waiting for the `answer`,
past `changeClientId` (`ready`), past `initiateReady` (`keys`), in the `join` of
`close`, `closed`. `listener` is where the listener thread is: `none`, `new` (not
started), `check` (the test of `running`), `wait` (in `readLine`), `copy` and `send`
(in `receive`), `over` or `dead`; `death` is the exception. The rest are the fields of
`ClientGUI`, the panels, `Client` and `GameStateListener`. `credit` is `delta` in half
frames, so a line may come before a frame is over. A frame has elapsed when two halves have.

Every write may fail. On a broken connection `send` either raises (`SendRaises`: `checkError` is true,
and stays so: `trouble` is the flag of `PrintWriter` that is never reset) or returns while the line is lost
(`Unheard`: the socket has not yet heard of the end). Each caller handles an exception as the code does
(`Ready` shows a dialog and may be pressed again, `Send` shows one, the listener dies, `register` leaves the id null).
`said` are the lines that are not lost, `printed` is history: READY was printed without an
exception, lost or not.
`register` starts the listener before it parses the id, and takes any first line for it.
`new HashSet<>(directions)` is one step with the outcomes that a key handled in the meantime
can have: seen, not seen, or an exception of the iterator.

The board is told of keys only while it has the focus (`Listening`); `lost` are the keys in `directions` whose
release it was not told of. `Close` is in the model
although the window ends the program without it: `Client` offers it and the constant
`MayClose` says whether somebody calls it.

### CatHunt

`turn` is the cat that moves; 0 outside `updateCats`. The players' actions happen while
it is 0, as `processActions` does. `MoveCat(c)` is `Cat.move` with the body of the loop in
`updateCats`: nearest mouse (any, where two are equally near: the order of a
concurrent map), the guard's filter, the step, which may go beyond its target, and the
catch, which puts the mouse underground. `EndUpdate` is `checkBounds`. Which tunnel a
caught mouse gets is `GameServer`'s matter; here it is `Under`.

### EiffelGame

One action per part of the loop in `APPLICATION.make`, named in `pc`. The assertions that the
project's configuration has monitored end the program (`failed`, with the assertion in
`fault`): the postcondition of `set_max_time`, the invariant of `CAT` after each `move`, the
precondition of `make_by_seconds` and postcondition of `print_timer`. `StepAlong` decides by
squares what `(move_x/3).rounded` does for a speed of 3.5, so no real number occurs. `fresh`
and `next_day` are history. A `read` that reads nothing returns an uninitialised variable, so
`OtherKey` and `MovementKey` are always possible. Time is a time of day in half seconds. `relative_duration` counts whole seconds
and cuts the rest off, so what is left is zero until a whole second has passed since the end (`SecondsLeft`).

### SmalltalkGame

`loop` is the forked process: showing the window for a second (`show`), in the loop
(`test`), `over`. Processes of one priority change only where one waits, so a round is a
step and its `Delay` is between steps; `position:` is taken to have its effect at once. `Verdict` is what the two
checks of a round leave in `state`: the cat is asked last and overwrites a win.
`missed` is history: a key went down or up in another window. The files of this exercise end
their lines with CR only, so tools that count LF see one line; the map gives the lines of the
method in the symbol.

## 3. Runs

| Run | Question | Instance |
|---|---|---|
| `server_protocol` | do handshake, start, tick and broadcast fit together? | 2 connections, one of them eager and of another program; 2 lines in flight, 1 action; 2 tunnels, 1 cat; 1.2 M states |
| `server_play` | does a mouse stay in its tunnel and leave by its doors? | 1 player, 6 actions, 2 cats, 2 tunnels; 1.2 M states |
| `server_live` | does the game start, go on and end? | 2 connections, one of them may stop reading, 1 tunnel, 1 cat, 1 action; 0.1 M states, with fairness |
| `field_walk` | does the real field keep and pass a mouse? | all five tunnels and the whole surface, one action per tick: 1.5 M states, every position there is |
| `client` | does a client speak the protocol, and do its threads go on? | one key, 2 lines on their way, time saved up to one frame, lobby and running game, close allowed; 0.5 M states, with fairness |
| `cat_hunt` | do the cats catch all, once, and come to rest? | 2 trackers, 2 guards, 2 mice, 6 actions, a row of 12 cells with a border; 0.8 M states, with fairness |
| `eiffel_game` | do the checks of a round fit together, and does the game end? | 4 x 5 cells, a day of 11 half seconds, a game of 3, up to 2 before each look at the clock; 1.9 M states, with fairness |
| `smalltalk_game` | are the keys in step, is the verdict right, and is the game decided? | 2 keys, a row with the steps and radii of the code; 8400 states, with fairness |
| `doc_...` | four statements of comments and tests that the code does not meet | as the runs of the server |

The bounds: `Clients` (two are needed for one handler to interleave with
another and with the tick; every property of the protocol is about one client
and the rest), `InboxCap` (two lines, so that one can be read ahead of another),
`MaxActs` (one action in the protocol run, six in the play run, enough to walk
out of a tunnel, into the other one and to be caught between), `NumCats`
and `MaxActions`. `Garblers` are connections of another program, whose lines
may be any; `Eager` clients send READY without waiting for the id
as `ServerTest` does; `MayStall` clients may stop reading (in `server_live` only, where the question is
who waits for them: safety cannot depend on it, since a client may also be slow without it).

In the other runs: `DownCap` (two lines, so that one waits behind another), `MaxCredit`
(one frame; a listener that has saved more drops fewer lines); one key, since what the threads do to
the set is about one key at a time; `Length` and the radii of `cat_hunt`, small enough for cats
to step over each other and beyond their target and large enough for a guard to lose sight
of a mouse; `MaxActs` (six: a mouse comes up, runs, dives and comes up again); a field of 4 x 5, on which
every way of rounding occurs; a `Day` in which a game from 0 ends and one
from 7 meets midnight; `MaxDelay` of up to a second before each look at the clock; `Followed`, the
cells to which the mouse of the Smalltalk game is followed (it has no border).

Deadlock is not checked for the server: it may really stop, when every client
has gone before the start, when the tick is dead, or when it waits for a client
that does not read. Nor is it checked for the client and the Eiffel game, which end.
`field_walk`, `cat_hunt` and `smalltalk_game` are checked for deadlock.

**What is checked.** `ClientsHaveMice`, `StartersGetIdFirst`,
`StartersSeeThemselves` (two shared collections read at different times),
`LobbyIsQuiet`, `OnlyForeignersStopTheTick` (the tick dies only of a line of another program, by
whatever steps), `GhostHoldsLobby` (a consequence of
the code, not a wish: a client that registers and leaves keeps the others in the
lobby for ever), `ImplementsLifecycle`, `UndergroundInTunnel`, `LeavesByOwnDoor`;
for the field `StaysUnderground`, `LanesAreOpen`, `SurfaceInBounds`; as liveness
`AllReadyStarts`, `EveryClientServed`, `ActionsApplied`, `TimeOutNoticed`.
For the client `SpeaksProtocol`, `OnlyJoinersMissTheirMouse` (a client that had said READY when the game began
never loses its listener to `get(clientId)` being null; another may),
`ButtonUntilReadyPrinted` (a user with an id has a button until READY has been printed without an error; if it was
printed and lost there is none), `SendsHeldKeys` (a direction that is sent is of a key that is down, or was let go during the
sending or without the focus), and as
liveness `HeldKeysAreSent` (although lines are dropped) and `HandlersReturn`.
For the cats `NoneOverlooked`, `CaughtOnce`, `ComesToRest`; for the Eiffel game
`CatCloses`, `OnlyZeroLeaves`, `NothingUnnoticed`, `EndsInTime`, `TimerFailsLast`,
`GameEnds`; for the Smalltalk game `KeysInStep`, `VerdictIsRight` (true of what is on the screen, also after the keys of the last `Delay`;
the tunnel does not save a mouse from a cat that is near), `LetGoEnds`. Some of these describe how far a
weakness of the code goes (`OnlyJoinersMissTheirMouse`, `OnlyZeroLeaves`, `TimerFailsLast`,
`OnlyForeignersStopTheTick`, `ButtonUntilReadyPrinted`): it happens there and nowhere else.

**Fairness.** Each handler runs in a thread of its own of a cached pool, so
`WF(HandlerStep(c))`; the tick is executed at a fixed rate as long as it
does not throw, so `WF(TickStep)`; time passes, so `WF(GameTimeEnds)`. Clients
are not fair: a person need not do anything. All of the server's liveness properties but
`AllReadyStarts` except `TickBlocked`, the two ways the code has of stopping: a dead tick and
a client that does not read.

In `GameClient` handlers run once they are dispatched (`WF(HandlerStep)`), the listener is a
thread of its own (`WF(ListenerStep)`), time passes (`WF(HalfFrame)`), and the server answers
and goes on sending updates of a running game (`WF(Answer)`, `WF(SendUpdate)`: this is
`EveryClientServed`). The ticks go on in `CatHunt` (`WF(TickStep)`), the forked process in
`SmalltalkGame` (`WF(LoopStep)`), the one thread of `EiffelGame` (`WF(Next)`). No user is fair.

**Disagreements found** (each a violation run with a finding):

* `doc_respawn`: the tunnel for a new or caught mouse need not be one with
  fewest mice.
* `doc_snapshots`: fresh snapshots are cleared instead of expired ones.
* `doc_first_line`: the first line a client reads may be an update, not its id.
* `doc_read_ahead`: an action that arrives together with READY is lost.

Met while modelling, and to be read off the models without a run of their own: one action without a type, or without its direction, from
another program ends the tick for everybody (`ProcessIncomplete`); a game may begin with a client that has joined and is
not ready (`AddClient` during `count`); READY may be lost without an error, which leaves a user with an id, no button and no game
(`Unheard` in `InitiateReady`); after a write that raised, pressing Ready again is of no use (`trouble`); a name that is no host leaves
Register disabled for good (`ConnectFails`); a victory and a time-out in one round of the Eiffel game show the time-out (`CheckTime`); the status may
change from TIME_OUT to MICE_WON (`CheckState` in `GameServer`); a mouse in tunnel 5 may stand
up to 0.1 outside the field, which `checkBounds` ensures only on the surface; the guards'
number is the trackers'; a program started in the last minute of the day fails the
postcondition of `set_max_time`; `close` does not end while the server is silent.

## 4. Proofs

`GameServer_proofs` is about every set of clients and tunnels, every field that
satisfies `IsGeometry` and all bounds. It assumes the named assumptions of the
module and nothing else. The invariants build on one another:

1. `TypeInv` = `TypeOK` and: a handler at `put` has chosen a tunnel (without this
   the mouse could be put on no level). Theorem `TypeCorrect`.
2. `RegistrationInv`: a handler past `put` has its mouse, one past `add` is a
   client. Gives `ClientsHaveMiceCorrect`: whoever is in `clients` came past `put`.
3. `UndergroundCorrect`: a mouse on a level is within its tunnel; on this and the
   part of `IsGeometry` that keeps doors apart rests `LeavesByOwnDoorCorrect`.
4. `StartInv`: before the start the tick is idle, counts or is about to start, and a client that
   is ready is registered and past the handshake. `CountInv`: a count begins with nobody found, has or had
   somebody to come to, and whom it has found ready stays ready. With `IdInv` (who is past the
   answer has been sent something, and before the start that was no update) `StartInv` gives
   `StartersGetIdFirstCorrect`: a client is found ready only when its id is out, and
   the answer is never given up again.
5. `HandshakeInv`: the first line of a client that is no `Garbler` is REGISTER, also
   when the connection dies, and its handler reaches the action loop only with a
   mouse. `CompleteInv`: such a client has no incomplete line on its way. `QueueInv` carries both over to the
   queue: an action in it that is of no `Garbler` is complete and its mouse is there. This gives
   `OnlyForeignersStopTheTickCorrect`, the two exceptions of `DeadlyStep` being all there are.
6. `ShownInv`: who was found ready is still a client, hence has a mouse when the update is
   built (`StartersSeeThemselvesCorrect`). `LobbyInv`: nothing that only the tick changes has
   changed before the start, so no snapshot can expire either (`LobbyIsQuietCorrect`).
   A `Ghost` (registered, its handler ended, never ready) stays one, is among those
   every later count has still to come to, and so no count ends (`GhostHoldsLobbyCorrect`).
7. `ImplementsLifecycleCorrect`: initial states map to initial states and every step
   to a step of `GameLifecycle` or a stutter, under the invariants of 4. `waitedFor` is whom the count has found and
   has still to come to; a client added meanwhile may or may not be one.
8. `OrderInv`: what the server has still to read of a client is REGISTER, READY, then actions,
   however the two readers have split it. An action can be lost between them but cannot
   be queued before READY has been read (`ActionsComeAfterReadyCorrect`).
9. `SentWithinBoundsCorrect`: between `checkBounds` and the end of the broadcast a mouse on the
   surface is where `checkBounds` leaves one; handlers that run meanwhile put mice
   underground only.
10. `ImplementsHuntCorrect` (under `HuntInv`: a handler puts its mouse once, a started game
    has all its cats) and `ImplementsSessionCorrect` (under `SessionInv`, per client, with
    invariants 2, 4 and 8): the refinements of `HuntRound` and `Session`, step by step. The second
    does not hold of an `Eager` client, whose READY comes before its id.

`FieldGeometry` proves `DoorsAreSeparate` (the tunnels lie in disjoint regions;
a mouse wholly within a node is in no other) and `FieldIsAGeometry` from it. `ServerOnField`
proves with it what the assumptions of `GameServer` demand of the levels and the positions, and
translates three results into the terms of the code: a mouse underground is
within the tunnel of its level by `isPosWithinTunnel` (`NobodyIsStuckCorrect`), one that comes up is in a
door of that tunnel by `isPosWithinDoor` (`SurfacesAtOwnDoorCorrect`), and none is shown outside the field
(`NobodyIsShownOutsideCorrect`). What is left as hypothesis, `AnyClients`, says only that the bounds are
numbers and `Garblers`, `Eager` and `MayStall` are clients.

`MouseMotion_proofs` proves the
invariants `StaysUndergroundCorrect` and `SurfaceInBoundsCorrect` for any number of
actions per tick. `LanesAreOpenCorrect` follows from the tables of the tunnels, in which
every connection is entered at both of its ends (`ConnectionsLead`), and from the arithmetic of
one step, which is shorter than the overlap of two nodes (`StepOnLane`). `TurnsAreReachedCorrect` is its
counterpart: no step jumps over the part of a lane from which a mouse can turn.

`GameClient_proofs` is about every set of keys and all bounds. Types are proved in two parts, queues
(`QueueType`) and the rest (`StateType`). `ClientInv` adds six parts. `RegisterInv`: what holds
before and during `register`. `SaidInv`: the lines said are one of four sequences; READY
needs the panels' id, hence an id, hence a first line that was one, and a client with an id
whose READY is not `printed` has the button or is in its handler (`SpeaksProtocolCorrect`, `ButtonUntilReadyPrintedCorrect`).
`ActingInv`: whatever can lead to an action needs the panels' id too. `KeysInv`: `directions` are
keys that are held or `lost`, and `batch` differs from `directions` by
`changed` only (`SendsHeldKeysCorrect`). `SeenInv`: an id is only seen that was answered, and a client is
behind only in a running game. `JoinInv`: a client that had said READY when the game began is sent
no update before and none without its mouse (`OnlyJoinersMissTheirMouseCorrect`).
`AnswerInv` has the id that was sent among the lines on their way until `register` takes it, so the
listener, which is started before, cannot take it (`IdIsNotTakenCorrect`). `RunsOutCorrect`: once `close` has
stopped the listener, `StepsLeft` (a line, a copy, at most one direction after the other, the test of
`running`) decreases with each of its steps and with no other step grows. `ImplementsSessionCorrect`
follows from `ClientInv`.

`CatHunt_proofs` is about every number of mice and cats and every space that satisfies
`ChaseGeometry`. For a cat that has moved in this tick and caught nobody, `NoneOverlookedCorrect` follows
by the triangle inequality: a mouse in reach after the step was at most `Reach + Step` away before,
so the nearest one was in sight, and then it was approached and in reach itself; and mice
only leave the surface while cats move. `CaughtOnceCorrect` needs that whoever was caught
in this tick is underground. `TrackersCloseInCorrect`, `GuardsTurnHomeCorrect` and `OnlyPlayersDisturbCorrect` are
the parts of `ComesToRest` that fairness has no share in: a tracker with a mouse to chase catches
one or is a whole step closer to the nearest, a guard without one is a step closer to home or within
a step of it, and once the surface is empty and the guards are home no tick changes that.
`ImplementsHuntCorrect` is the refinement of `HuntRound`.

`EiffelGame_proofs` is about every field of at least 4 x 4, every length of a game and of a day that
meets `TimeAssumption`. `CatClosesCorrect` and `OnlyZeroLeavesCorrect` rest on lemmas about `StepAlong`
in integer arithmetic. `NothingUnnoticedCorrect` and `EndsInTimeCorrect` carry, part by part of the loop, what
has been looked at and how much time can have passed since. `EndsForAReasonCorrect`: a game ends by the
condition of the loop, or by the invariant of the cat, the postcondition of `set_max_time` near midnight, or
`print_timer` when more than a second may pass before a look at the clock. `NearsItsEndCorrect`: `Remaining`, six times the
time until a round after the end, plus the parts left of this round, is a natural number and decreases
with every step, away from midnight.

`SmalltalkGame_proofs`: `KeysInStepCorrect` for every keyboard, `StillMouseIsApproached`, the
decreasing distance behind `LetGoEnds`, and `VerdictIsRightCorrect`: the verdict shown is true of the
positions on the screen, also after the keys of the last `Delay`.

Each module with a type invariant has its `TypeCorrect`. Every safety property that a run checks is
proved. The theorems of points 8 to 10, of `ServerOnField`, and those of the other modules
named here that no run lists, state properties defined in the module of the proof;
they hold for every value of the constants and have no run of their own.

Only model-checked are the nine liveness properties, since fairness and ENABLED are out of the
prover's reach. Of some the part without fairness is proved, a measure that
decreases or a state that stays: `ComesToRest` (the three theorems of `CatHunt_proofs`), `GameEnds`
(`NearsItsEndCorrect`), `LetGoEnds` (`StillMouseIsApproached`),
`HandlersReturn` (`IdIsNotTakenCorrect`). Of `HeldKeysAreSent`, `ActionsApplied`, `AllReadyStarts`,
`EveryClientServed` and `TimeOutNoticed` no such part is stated.

## 5. Not modelled

Left out for good: JSON, drawing and its coordinates, dialogs, the texts of the chat, logging;
`Server.stop`, `removeClient` and `getMiceOnSurface`, which nothing calls; the number of catches of the Eiffel
game, which is only printed.

The C files under `Exercise_3/mice_and_cat/EIFGENs` are the output of the Eiffel compiler: 166 638
of the 166 695 lines of C in the repository, most of them tables (`efrozen.c`, `eskelet.c`,
`epattern.c`). They are not the program's source, and they were generated from an older state of it:
`make` in `W_code/C1/ap982.c` knows no cat and no timer, and the class of the cat has no routines
(`ca984.c`). A model of them would be one of another program. A share of the project counted over all C
is therefore about zero. Counted over the code written by hand, every routine that
changes state of `server`, `client/backend`, `ClientGUI`, the nine Eiffel classes and the four
Smalltalk classes is in the map.

What could still be done: a run of `GameClient` with two keys (out of the time of a run together
with the liveness properties), a composition of `GameServer` and `GameClient` in one state
space instead of by the `Session` both implement, and several mice in `MouseMotion`, which cannot affect each other.
