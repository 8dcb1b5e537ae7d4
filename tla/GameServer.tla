----------------------------- MODULE GameServer -----------------------------
(***************************************************************************)
(* The server of the network game (Exercise_1/server).  Its threads are    *)
(*   - the listener, which accepts connections (Server.listenForClients);  *)
(*   - one handler per connection (ClientManager.run), with the program    *)
(*     counter pc[c];                                                      *)
(*   - the game tick (GameManager.updateGame on the scheduled executor),   *)
(*     with the program counter tick.                                      *)
(* They share the mice, the broadcaster's clients and the action queue.    *)
(* The clients are the environment: they send lines, disconnect, stop      *)
(* reading.  Positions are members of Place: what matters of a position is *)
(* which doors and tunnels contain it, and where one step leads.           *)
(***************************************************************************)
EXTENDS Naturals, Sequences, FiniteSets, TunnelGeometry

CONSTANTS
    Clients,      \* connections: one handler, one client id, one mouse each
    Tunnels,      \* the levels of the tunnels, keys of GameField.tunnels
    Place,        \* positions
    Moves,        \* Moves[p]: where one DIRECTION action leads from p
    DoorsOf,      \* DoorsOf[t]: the positions within a door of t
    CellsOf,      \* CellsOf[t]: the positions within t
    SpawnOf,      \* SpawnOf[t]: centres of the nodes of t that are no door
    Clamp,        \* Clamp[p]: p moved into the bounds of the field
    NumCats,      \* how many cats spawnCats creates
    Garblers,     \* clients that are other programs: their lines are any lines
    Eager,        \* clients that do not wait for their id (as ServerTest)
    MayStall,     \* clients that may stop reading their socket
    InboxCap,     \* bound: lines of a client on their way to the server
    MaxActs       \* bound: action lines that are sent in a behaviour

Surface == 0

ASSUME LevelAssumption == Tunnels \subseteq Nat \ {Surface}

ASSUME GeometryAssumption ==
    IsGeometry(Tunnels, Place, Moves, Clamp, DoorsOf, CellsOf, SpawnOf)

ASSUME BoundAssumption ==
    /\ NumCats \in Nat
    /\ InboxCap \in Nat \ {0}
    /\ MaxActs \in Nat

ASSUME ClientAssumption ==
    /\ Garblers \subseteq Clients
    /\ Eager \subseteq Clients
    /\ MayStall \subseteq Clients

\* INCOMPLETE: a line that parses, and has no type, or no direction.
ActionKind == {"DIRECTION", "TUNNEL_VOTE", "LEVEL_CHANGE", "INCOMPLETE"}
Line == ActionKind \cup {"REGISTER", "READY", "GARBLED"}
Request == [from : Clients, kind : ActionKind]

VARIABLES
    conn,      \* conn[c]: the socket as the client treats it
    inbox,     \* inbox[c]: lines the server's socket holds for the handler
    ahead,     \* ahead[c]: lines the handshake's BufferedReader read ahead
    said,      \* said[c]: how far the client is in the handshake
    acts,      \* action lines sent so far, for the bound MaxActs
    first,     \* first[c]: the first line the server wrote to the client
    pc,        \* pc[c]: the handler thread of c
    chosen,    \* chosen[c]: the tunnel addMouse picked, before the put
    mice,      \* keys of GameState.mice
    level,     \* Mouse.currentLevel
    place,     \* Mouse.pos
    clients,   \* UpdateBroadcaster.clients
    ready,     \* ClientManager.ready: "no", "written" or "seen" by the tick
    queue,     \* GameManager.actionQueue
    tick,      \* the game tick thread
    cats,      \* how many cats GameState.cats holds
    catsLeft,  \* cats that updateCats has still to move
    started,   \* GameState.gameStart # null
    late,      \* gameDuration has passed since gameStart
    status,    \* GameState.gameStatus
    snaps,     \* snaps[t]: the age of GameState.catSnapshots[t]
    pending,   \* clients that allMatch, or broadcast, has still to come to
    shown,     \* the mice in the update that is broadcast
    starters   \* history: the clients that allMatch has found to be ready

clientVars == <<conn, said, acts>>
lineVars == <<inbox, ahead, first>>
handlerVars == <<pc, chosen, ready>>
miceVars == <<mice, level, place>>
tickVars == <<tick, catsLeft, pending, shown, starters>>
gameVars == <<cats, started, late, status, snaps>>
vars == <<clientVars, lineVars, handlerVars, miceVars, clients, queue, tickVars,
          gameVars>>

Init ==
    /\ conn = [c \in Clients |-> "none"]
    /\ inbox = [c \in Clients |-> << >>]
    /\ ahead = [c \in Clients |-> << >>]
    /\ said = [c \in Clients |-> "nothing"]
    /\ acts = 0
    /\ first = [c \in Clients |-> "none"]
    /\ pc = [c \in Clients |-> "none"]
    /\ chosen = [c \in Clients |-> Surface]
    /\ mice = {}
    /\ level = [c \in Clients |-> Surface]
    /\ place = [c \in Clients |-> CHOOSE p \in Place : TRUE]
    /\ clients = {}
    /\ ready = [c \in Clients |-> "no"]
    /\ queue = << >>
    /\ tick = "idle"
    /\ cats = 0
    /\ catsLeft = 0
    /\ started = FALSE
    /\ late = FALSE
    /\ status = "INIT"
    /\ snaps = [t \in Tunnels |-> "none"]
    /\ pending = {}
    /\ shown = {}
    /\ starters = {}

-----------------------------------------------------------------------------
(* The clients and the network.                                            *)

Connected(c) == conn[c] \in {"open", "stalled"}

Send(c, line) ==
    /\ Len(inbox[c]) < InboxCap
    /\ inbox' = [inbox EXCEPT ![c] = Append(@, line)]

\* Client.connect and the request of Client.register; another program may
\* send something that is no handshake, or one that names none.
Connect(c) ==
    /\ conn[c] = "none"
    /\ conn' = [conn EXCEPT ![c] = "open"]
    /\ said' = [said EXCEPT ![c] = "register"]
    /\ \E line \in {"REGISTER", "GARBLED", "INCOMPLETE"} :
         /\ line # "REGISTER" => c \in Garblers
         /\ Send(c, line)
    /\ UNCHANGED <<acts, ahead, first, handlerVars, miceVars, clients, queue,
                   tickVars, gameVars>>

\* Client.initiateReady: the GUI enables it once register has returned an id.
SendReady(c) ==
    /\ Connected(c)
    /\ said[c] = "register"
    /\ c \in Eager \/ first[c] = "id"
    /\ said' = [said EXCEPT ![c] = "ready"]
    /\ Send(c, "READY")
    /\ UNCHANGED <<conn, acts, ahead, first, handlerVars, miceVars, clients,
                   queue, tickVars, gameVars>>

\* Client.sendDirection, sendLevelChange and sendMessage.  Another program may
\* send such a line at any time.
SendAction(c, kind) ==
    /\ Connected(c)
    /\ said[c] = "ready" \/ c \in Garblers
    /\ kind # "INCOMPLETE" \/ c \in Garblers
    /\ acts < MaxActs
    /\ acts' = acts + 1
    /\ Send(c, kind)
    /\ UNCHANGED <<conn, said, ahead, first, handlerVars, miceVars, clients,
                   queue, tickVars, gameVars>>

\* The client closes its socket or dies; a reset discards unread lines.
Disconnect(c) ==
    /\ Connected(c)
    /\ conn' = [conn EXCEPT ![c] = "closed"]
    /\ inbox' \in {inbox, [inbox EXCEPT ![c] = << >>]}
    /\ UNCHANGED <<said, acts, ahead, first, handlerVars, miceVars, clients, queue,
                   tickVars, gameVars>>

\* The client no longer reads and the buffers towards it are full.
Stall(c) ==
    /\ c \in MayStall
    /\ conn[c] = "open"
    /\ conn' = [conn EXCEPT ![c] = "stalled"]
    /\ UNCHANGED <<said, acts, lineVars, handlerVars, miceVars, clients, queue,
                   tickVars, gameVars>>

-----------------------------------------------------------------------------
(* The listener and the handlers.                                          *)

Goto(c, label) == pc' = [pc EXCEPT ![c] = label]

\* Server.listenForClients: a handler of its own for each connection.
Accept(c) ==
    /\ conn[c] # "none"
    /\ pc[c] = "none"
    /\ Goto(c, "register")
    /\ UNCHANGED <<clientVars, lineVars, chosen, ready, miceVars, clients, queue,
                   tickVars, gameVars>>

\* BufferedReader.readLine: what it reads ahead of the line stays in its buffer.
ReadLine(c, line) ==
    \/ /\ ahead[c] # << >>
       /\ line = Head(ahead[c])
       /\ ahead' = [ahead EXCEPT ![c] = Tail(@)]
       /\ UNCHANGED inbox
    \/ /\ ahead[c] = << >>
       /\ inbox[c] # << >>
       /\ line = Head(inbox[c])
       /\ \E k \in 1..Len(inbox[c]) :
            /\ ahead' = [ahead EXCEPT ![c] = SubSeq(inbox[c], 2, k)]
            /\ inbox' = [inbox EXCEPT ![c] = SubSeq(@, k + 1, Len(@))]

\* A handshake that is not the expected one raises a RuntimeException, which
\* ends the thread.  A line that is no handshake raises an IOException, which
\* handshake() swallows: the handler goes on to the action loop.  An incomplete
\* action has no handshake, and is one if it is {}.
AfterMisfit(line) ==
    {label \in {"gone", "play"} :
       \/ line = "INCOMPLETE"
       \/ label = IF line \in {"REGISTER", "READY"} THEN "gone" ELSE "play"}

\* Mutant: addMouse is left out of registerClient.
AfterRegisterNoMouse(line) ==
    IF line = "REGISTER" THEN {"add"} ELSE AfterMisfit(line)

AfterRegister(line) ==
    IF line = "REGISTER" THEN {"choose"} ELSE AfterMisfit(line)

ReadRegister(c) ==
    /\ pc[c] = "register"
    /\ \E line \in Line :
         /\ ReadLine(c, line)
         /\ \E label \in AfterRegister(line) : Goto(c, label)
    /\ UNCHANGED <<clientVars, first, chosen, ready, miceVars, clients, queue,
                   tickVars, gameVars>>

\* GameState.getTunnelRespawnPosition: empty tunnels, and of the others those
\* that hold the fewest mice.
RespawnTunnels ==
    LET Count(t) == Cardinality({m \in mice : level[m] = t})
        occupied == {t \in Tunnels : Count(t) > 0}
    IN  {t \in Tunnels : Count(t) = 0 \/ \A s \in occupied : Count(t) <= Count(s)}

\* addMouse: the tunnel is chosen from the mice there are ...
ChooseTunnel(c) ==
    /\ pc[c] = "choose"
    /\ \E t \in RespawnTunnels : chosen' = [chosen EXCEPT ![c] = t]
    /\ Goto(c, "put")
    /\ UNCHANGED <<clientVars, lineVars, ready, miceVars, clients, queue, tickVars,
                   gameVars>>

\* ... and the mouse is put there afterwards.
AddMouse(c) ==
    /\ pc[c] = "put"
    /\ mice' = mice \cup {c}
    /\ level' = [level EXCEPT ![c] = chosen[c]]
    /\ \E p \in SpawnOf[chosen[c]] : place' = [place EXCEPT ![c] = p]
    /\ Goto(c, "add")
    /\ UNCHANGED <<clientVars, lineVars, chosen, ready, clients, queue, tickVars,
                   gameVars>>

\* UpdateBroadcaster.addClient; an iteration under way may meet the client or
\* may be past its place in the set.
AddClient(c) ==
    /\ pc[c] = "add"
    /\ clients' = clients \cup {c}
    /\ pending' \in {pending} \cup
         IF tick \in {"count", "send"} THEN {pending \cup {c}} ELSE {}
    /\ Goto(c, "answer")
    /\ UNCHANGED <<clientVars, lineVars, chosen, ready, miceVars, queue, tick,
                   catsLeft, shown, starters, gameVars>>

FirstLine(c, line) ==
    first' = [first EXCEPT ![c] = IF @ = "none" THEN line ELSE @]

\* writer.println(clientId)
AnswerId(c) ==
    /\ pc[c] = "answer"
    /\ FirstLine(c, "id")
    /\ Goto(c, "await")
    /\ UNCHANGED <<clientVars, inbox, ahead, chosen, ready, miceVars, clients,
                   queue, tickVars, gameVars>>

AfterReady(line) == IF line = "READY" THEN {"play"} ELSE AfterMisfit(line)

\* The second line; again what is no handshake leads to the action loop.
ReadReady(c) ==
    /\ pc[c] = "await"
    /\ \E line \in Line :
         /\ ReadLine(c, line)
         /\ \E label \in AfterReady(line) : Goto(c, label)
         /\ ready' = IF line = "READY" THEN [ready EXCEPT ![c] = "written"] ELSE ready
    /\ UNCHANGED <<clientVars, first, chosen, miceVars, clients, queue, tickVars,
                   gameVars>>

\* ready is neither volatile nor locked: the tick sees the write some time later.
ReadyVisible(c) ==
    /\ ready[c] = "written"
    /\ ready' = [ready EXCEPT ![c] = "seen"]
    /\ UNCHANGED <<clientVars, lineVars, pc, chosen, miceVars, clients, queue,
                   tickVars, gameVars>>

\* The end of the stream during the handshake.
HandshakeEnds(c) ==
    /\ pc[c] \in {"register", "await"}
    /\ conn[c] = "closed"
    /\ ahead[c] = << >>
    /\ inbox[c] = << >>
    /\ Goto(c, "gone")
    /\ UNCHANGED <<clientVars, lineVars, chosen, ready, miceVars, clients, queue,
                   tickVars, gameVars>>

\* Mutant: the client id of the line is trusted (setClientId is left out).
RequestUntagged(c, kind) == [from |-> CHOOSE d \in Clients : TRUE, kind |-> kind]

\* DtoParser.parseActionRequest and setClientId.
RequestOf(c, kind) == [from |-> c, kind |-> kind]

\* The action loop reads with a Scanner of its own, not from ahead.
ReadAction(c) ==
    /\ pc[c] = "play"
    /\ inbox[c] # << >>
    /\ Head(inbox[c]) \in ActionKind
    /\ inbox' = [inbox EXCEPT ![c] = Tail(@)]
    /\ queue' = Append(queue, RequestOf(c, Head(inbox[c])))
    /\ UNCHANGED <<clientVars, ahead, first, handlerVars, miceVars, clients,
                   tickVars, gameVars>>

\* A line that is no action, or the end of the stream: run() ends and the
\* socket is closed; the client stays in the broadcaster, its mouse in the game.
ActionLoopEnds(c) ==
    /\ pc[c] = "play"
    /\ \/ /\ inbox[c] # << >>
          /\ Head(inbox[c]) \notin ActionKind
       \/ /\ inbox[c] = << >>
          /\ conn[c] = "closed"
    /\ conn' = [conn EXCEPT ![c] = "closed"]
    /\ Goto(c, "gone")
    /\ UNCHANGED <<said, acts, lineVars, chosen, ready, miceVars, clients, queue,
                   tickVars, gameVars>>

-----------------------------------------------------------------------------
(* The game tick: GameManager.updateGame.                                  *)

\* Mutant: one client is not enough.
HasTwoClients == Cardinality(clients) > 1

HasClients == clients # {}

\* allClientsReady: there are clients, and the stream over them begins.  The set
\* is concurrent: the stream comes to the clients it holds now, one after the
\* other, while others are added and those get ready.
BeginCount ==
    /\ tick = "idle"
    /\ ~started
    /\ HasClients
    /\ tick' = "count"
    /\ pending' = clients
    /\ UNCHANGED <<clientVars, lineVars, handlerVars, miceVars, clients, queue,
                   catsLeft, shown, starters, gameVars>>

\* Mutant: readiness is not asked for.
IsReadyUnasked(c) == TRUE

\* ClientManager.isReady, as the tick sees it.
IsReady(c) == ready[c] = "seen"

FindReady(c) ==
    /\ tick = "count"
    /\ c \in pending
    /\ IsReady(c)
    /\ pending' = pending \ {c}
    /\ starters' = starters \cup {c}
    /\ UNCHANGED <<clientVars, lineVars, handlerVars, miceVars, clients, queue, tick,
                   catsLeft, shown, gameVars>>

\* allMatch ends at the first one that is not ready: nothing is done this time.
FindUnready(c) ==
    /\ tick = "count"
    /\ c \in pending
    /\ ~IsReady(c)
    /\ tick' = "idle"
    /\ pending' = {}
    /\ starters' = {}
    /\ UNCHANGED <<clientVars, lineVars, handlerVars, miceVars, clients, queue,
                   catsLeft, shown, gameVars>>

\* Mutant: anyMatch for allMatch.
AnyMatched == starters # {}

AllMatched == pending = {}

\* Mutant: the branch that starts the game is left out.
AfterCountNoStart == "time"

AfterCount == "start"

EndCount ==
    /\ tick = "count"
    /\ AllMatched
    /\ tick' = AfterCount
    /\ UNCHANGED <<clientVars, lineVars, handlerVars, miceVars, clients, queue,
                   catsLeft, pending, shown, starters, gameVars>>

\* Once the game has started nobody is asked any more.
BeginTick ==
    /\ tick = "idle"
    /\ started
    /\ tick' = "time"
    /\ UNCHANGED <<clientVars, lineVars, handlerVars, miceVars, clients, queue,
                   catsLeft, pending, shown, starters, gameVars>>

StartGame ==
    /\ tick = "start"
    /\ cats' = NumCats
    /\ started' = TRUE
    /\ status' = "RUNNING"
    /\ tick' = "time"
    /\ UNCHANGED <<clientVars, lineVars, handlerVars, miceVars, clients, queue,
                   catsLeft, pending, shown, starters, late, snaps>>

\* Mutants: a game whose time is not over runs; the time check is left out.
StatusByTimeRunning == IF late THEN "TIME_OUT" ELSE "RUNNING"
StatusNoTime == status

StatusByTime == IF late THEN "TIME_OUT" ELSE status

TimeCheck ==
    /\ tick = "time"
    /\ status' = StatusByTime
    /\ tick' = "actions"
    /\ UNCHANGED <<clientVars, lineVars, handlerVars, miceVars, clients, queue,
                   catsLeft, pending, shown, starters, cats, started, late, snaps>>

\* Mutant: peek for poll.
Peek(c, kind) ==
    /\ tick = "actions"
    /\ queue # << >>
    /\ Head(queue) = [from |-> c, kind |-> kind]
    /\ UNCHANGED queue

\* processActions polls a request of client c.
Poll(c, kind) ==
    /\ tick = "actions"
    /\ queue # << >>
    /\ Head(queue) = [from |-> c, kind |-> kind]
    /\ queue' = Tail(queue)

\* getMouse returns null: the exception leaves updateGame, and the scheduled
\* executor runs it no more.
ProcessOrphan(c) ==
    /\ c \notin mice
    /\ \E kind \in ActionKind : Poll(c, kind)
    /\ tick' = "dead"
    /\ UNCHANGED <<clientVars, lineVars, handlerVars, miceVars, clients, catsLeft,
                   pending, shown, starters, gameVars>>

\* switch on a type that is null, or the direction is: the same with its mouse.
ProcessIncomplete(c) ==
    /\ c \in mice
    /\ Poll(c, "INCOMPLETE")
    /\ tick' = "dead"
    /\ UNCHANGED <<clientVars, lineVars, handlerVars, miceVars, clients, catsLeft,
                   pending, shown, starters, gameVars>>

\* Mutant: isPosWithinTunnel is not asked.
MayMoveAnywhere(c, p) == TRUE

\* A mouse in a tunnel moves only to where it is still within its tunnel.
MayMove(c, p) == level[c] = Surface \/ p \in CellsOf[level[c]]

ProcessDirection(c) ==
    /\ c \in mice
    /\ Poll(c, "DIRECTION")
    /\ \E p \in Moves[place[c]] :
         place' = IF MayMove(c, p) THEN [place EXCEPT ![c] = p] ELSE place
    /\ UNCHANGED <<clientVars, lineVars, handlerVars, mice, level, clients, tickVars,
                   gameVars>>

\* The vote is only stored and passed on: it has no effect on the game.
ProcessVote(c) ==
    /\ c \in mice
    /\ Poll(c, "TUNNEL_VOTE")
    /\ UNCHANGED <<clientVars, lineVars, handlerVars, miceVars, clients, tickVars,
                   gameVars>>

\* Mutant: isPosWithinTunnel for isPosWithinDoor.
CellTunnels(p) == {t \in Tunnels : p \in CellsOf[t]}

DoorTunnels(p) == {t \in Tunnels : p \in DoorsOf[t]}

\* The tunnel is the first one with a door at the mouse's position, whatever
\* tunnel the mouse is in.
ProcessLevelChange(c) ==
    /\ c \in mice
    /\ Poll(c, "LEVEL_CHANGE")
    /\ \/ /\ DoorTunnels(place[c]) = {}
          /\ UNCHANGED <<level, snaps>>
       \/ \E t \in DoorTunnels(place[c]) :
            IF level[c] = Surface
            THEN /\ level' = [level EXCEPT ![c] = t]
                 /\ snaps' = [snaps EXCEPT ![t] = "fresh"]
            ELSE /\ level' = [level EXCEPT ![c] = Surface]
                 /\ UNCHANGED snaps
    /\ UNCHANGED <<clientVars, lineVars, handlerVars, mice, place, clients, tickVars,
                   cats, started, late, status>>

ActionsDone ==
    /\ tick = "actions"
    /\ queue = << >>
    /\ tick' = "cats"
    /\ catsLeft' = cats
    /\ UNCHANGED <<clientVars, lineVars, handlerVars, miceVars, clients, queue,
                   pending, shown, starters, gameVars>>

\* Mutant: one round too many.
CatsRemainOneMore == catsLeft >= 0

CatsRemain == catsLeft > 0

\* One round of updateCats: a cat moves towards the nearest mouse on the surface
\* and may reach it; the mouse is sent back to a tunnel.
CatMisses ==
    /\ tick = "cats"
    /\ CatsRemain
    /\ catsLeft' = catsLeft - 1
    /\ UNCHANGED <<clientVars, lineVars, handlerVars, miceVars, clients, queue, tick,
                   pending, shown, starters, gameVars>>

CatCatches(m) ==
    /\ tick = "cats"
    /\ CatsRemain
    /\ m \in mice
    /\ level[m] = Surface
    /\ catsLeft' = catsLeft - 1
    /\ \E t \in RespawnTunnels :
         /\ level' = [level EXCEPT ![m] = t]
         /\ \E p \in SpawnOf[t] : place' = [place EXCEPT ![m] = p]
    /\ UNCHANGED <<clientVars, lineVars, handlerVars, mice, clients, queue, tick,
                   pending, shown, starters, gameVars>>

CatsDone ==
    /\ tick = "cats"
    /\ catsLeft = 0
    /\ tick' = "check"
    /\ UNCHANGED <<clientVars, lineVars, handlerVars, miceVars, clients, queue,
                   catsLeft, pending, shown, starters, gameVars>>

\* checkMiceWon: all mice on one level, and that level is a tunnel.
MiceTogether == \E t \in Tunnels : mice # {} /\ \A m \in mice : level[m] = t

\* clearExpiredSnapshots: the duration since the snapshot minus the expiration
\* time is negative for the snapshots that are younger.
ClearSnapshots == [t \in Tunnels |-> IF snaps[t] = "fresh" THEN "none" ELSE snaps[t]]

\* checkState: checkBounds, checkMiceWon and clearExpiredSnapshots.
CheckState ==
    /\ tick = "check"
    /\ place' = [c \in Clients |-> IF c \in mice /\ level[c] = Surface
                                   THEN Clamp[place[c]] ELSE place[c]]
    /\ status' = IF MiceTogether THEN "MICE_WON" ELSE status
    /\ snaps' = ClearSnapshots
    /\ tick' = "broadcast"
    /\ UNCHANGED <<clientVars, lineVars, handlerVars, mice, level, clients, queue,
                   catsLeft, pending, shown, starters, cats, started, late>>

\* Mutants: only the mice on the surface are mapped; later clients get nothing.
MiceOnSurface == {m \in mice : level[m] = Surface}
StartersOnly == starters

\* The mice that GameStateMapper maps, and the clients the update is for.
MappedMice == mice
Recipients == clients

\* broadcast: the update is built first ...
BuildUpdate ==
    /\ tick = "broadcast"
    /\ shown' = MappedMice
    /\ pending' = Recipients
    /\ tick' = "send"
    /\ UNCHANGED <<clientVars, lineVars, handlerVars, miceVars, clients, queue,
                   catsLeft, starters, gameVars>>

\* ... and then written to one client after the other; println waits for a
\* client whose buffers are full, and ignores a closed connection.
SendUpdate(c) ==
    /\ tick = "send"
    /\ c \in pending
    /\ conn[c] # "stalled"
    /\ FirstLine(c, "state")
    /\ pending' = pending \ {c}
    /\ UNCHANGED <<clientVars, inbox, ahead, handlerVars, miceVars, clients, queue,
                   tick, catsLeft, shown, starters, gameVars>>

EndTick ==
    /\ tick = "send"
    /\ pending = {}
    /\ tick' = "idle"
    /\ shown' = {}
    /\ UNCHANGED <<clientVars, lineVars, handlerVars, miceVars, clients, queue,
                   catsLeft, pending, starters, gameVars>>

-----------------------------------------------------------------------------
(* The clock.                                                              *)

GameTimeEnds ==
    /\ started
    /\ ~late
    /\ late' = TRUE
    /\ UNCHANGED <<clientVars, lineVars, handlerVars, miceVars, clients, queue,
                   tickVars, cats, started, status, snaps>>

SnapshotExpires(t) ==
    /\ snaps[t] = "fresh"
    /\ snaps' = [snaps EXCEPT ![t] = "expired"]
    /\ UNCHANGED <<clientVars, lineVars, handlerVars, miceVars, clients, queue,
                   tickVars, cats, started, late, status>>

-----------------------------------------------------------------------------

ClientStep(c) ==
    \/ Connect(c)
    \/ SendReady(c)
    \/ \E kind \in ActionKind : SendAction(c, kind)
    \/ Disconnect(c)
    \/ Stall(c)

HandlerStep(c) ==
    \/ Accept(c)
    \/ ReadRegister(c)
    \/ ChooseTunnel(c)
    \/ AddMouse(c)
    \/ AddClient(c)
    \/ AnswerId(c)
    \/ ReadReady(c)
    \/ ReadyVisible(c)
    \/ HandshakeEnds(c)
    \/ ReadAction(c)
    \/ ActionLoopEnds(c)

TickStep ==
    \/ BeginCount
    \/ EndCount
    \/ BeginTick
    \/ StartGame
    \/ TimeCheck
    \/ \E c \in Clients :
         \/ FindReady(c)
         \/ FindUnready(c)
         \/ ProcessOrphan(c)
         \/ ProcessIncomplete(c)
         \/ ProcessDirection(c)
         \/ ProcessVote(c)
         \/ ProcessLevelChange(c)
         \/ CatCatches(c)
         \/ SendUpdate(c)
    \/ ActionsDone
    \/ CatMisses
    \/ CatsDone
    \/ CheckState
    \/ BuildUpdate
    \/ EndTick

Clock ==
    \/ GameTimeEnds
    \/ \E t \in Tunnels : SnapshotExpires(t)

Next ==
    \/ \E c \in Clients : ClientStep(c) \/ HandlerStep(c)
    \/ TickStep
    \/ Clock

\* The pool's threads and the executor run, and time passes; clients need not
\* do anything.
Fairness ==
    /\ \A c \in Clients : WF_vars(HandlerStep(c))
    /\ WF_vars(TickStep)
    /\ WF_vars(GameTimeEnds)

Spec == Init /\ [][Next]_vars
FairSpec == Spec /\ Fairness

-----------------------------------------------------------------------------
(* Properties.                                                             *)

SocketTypeOK ==
    /\ conn \in [Clients -> {"none", "open", "stalled", "closed"}]
    /\ inbox \in [Clients -> Seq(Line)]
    /\ ahead \in [Clients -> Seq(Line)]
    /\ said \in [Clients -> {"nothing", "register", "ready"}]
    /\ acts \in 0..MaxActs
    /\ first \in [Clients -> {"none", "id", "state"}]

HandlerTypeOK ==
    /\ pc \in [Clients -> {"none", "register", "choose", "put", "add", "answer",
                            "await", "play", "gone"}]
    /\ chosen \in [Clients -> Tunnels \cup {Surface}]
    /\ ready \in [Clients -> {"no", "written", "seen"}]
    /\ clients \subseteq Clients
    /\ queue \in Seq(Request)

GameTypeOK ==
    /\ mice \subseteq Clients
    /\ level \in [Clients -> Tunnels \cup {Surface}]
    /\ place \in [Clients -> Place]
    /\ cats \in 0..NumCats
    /\ started \in BOOLEAN
    /\ late \in BOOLEAN
    /\ status \in {"INIT", "RUNNING", "TIME_OUT", "MICE_WON"}
    /\ snaps \in [Tunnels -> {"none", "fresh", "expired"}]

TickTypeOK ==
    /\ tick \in {"idle", "count", "start", "time", "actions", "cats", "check", "broadcast",
                 "send", "dead"}
    /\ catsLeft \in 0..NumCats
    /\ pending \subseteq Clients
    /\ shown \subseteq Clients
    /\ starters \subseteq Clients

\* Every variable has its type.
TypeOK == SocketTypeOK /\ HandlerTypeOK /\ GameTypeOK /\ TickTypeOK

\* registerClient adds the mouse before the client: whoever gets updates plays.
ClientsHaveMice == clients \subseteq mice

\* The tick thread is only ever lost to the line of a connection that does not
\* keep to the protocol: the action of a client of this program finds its mouse,
\* however its registration and the tick interleave.
OnlyForeignersStopTheTick ==
    [][tick # "dead" /\ tick' = "dead" => Head(queue).from \in Garblers]_vars

\* Until the game starts nothing is sent, no cat is there and every mouse is
\* where addMouse has put it, although actions may already be queued.
LobbyIsQuiet ==
    ~started => /\ status = "INIT"
                /\ cats = 0
                /\ \A c \in Clients : first[c] # "state"
                /\ \A m \in mice : level[m] \in Tunnels /\ place[m] \in SpawnOf[level[m]]

\* A client that was found to be ready reads its id before any update, although the
\* handler registers it for updates before it answers.
StartersGetIdFirst == \A c \in starters : first[c] = "id"

\* Such a client finds its own mouse in every update it is sent, although
\* mice and clients are read at different times while others register.
StartersSeeThemselves == tick = "send" => starters \subseteq shown

\* A mouse on a tunnel's level is at a position within that tunnel, through
\* moves, level changes, captures and concurrent registrations.
UndergroundInTunnel ==
    \A m \in mice : level[m] # Surface => place[m] \in CellsOf[level[m]]

\* A mouse leaves a tunnel only through a door of that tunnel, although
\* LEVEL_CHANGE looks for a door of any tunnel.
LeavesByOwnDoor ==
    [][\A m \in mice : level[m] # Surface /\ level'[m] = Surface
                         => place[m] \in DoorsOf[level[m]]]_vars

\* A client that registered and went away without READY is never removed: the
\* game of everybody else does not start any more.
GhostHoldsLobby ==
    LET Held == /\ tick = "idle"
                /\ ~started
                /\ \E c \in clients : ready[c] = "no" /\ pc[c] = "gone"
    IN  [](Held => []~started)

\* The server implements the abstract course of a game.
Lifecycle == INSTANCE GameLifecycle WITH
    Players <- Clients,
    joined <- clients,
    prepared <- {c \in Clients : ready[c] = "seen"},
    waitedFor <- starters \cup (IF tick = "count" THEN pending ELSE {}),
    phase <- IF started THEN "playing"
             ELSE CASE tick = "count" -> "counting"
                    [] tick = "start" -> "counted"
                    [] OTHER          -> "lobby",
    outcome <- status

ImplementsLifecycle == Lifecycle!LifecycleSpec

-----------------------------------------------------------------------------
(* What comments and tests say and the code does not do: each is violated. *)

\* GameState.getTunnelRespawnPosition: "Choose randomly among the tunnels with
\* the minimum count" of mice, for new mice and for caught ones.
FewestMice ==
    LET Count(t) == Cardinality({m \in mice : level[m] = t})
    IN  {t \in Tunnels : \A s \in Tunnels : Count(t) <= Count(s)}

RespawnWhereFewest ==
    [][\A c \in Clients :
         /\ pc[c] = "choose" /\ pc'[c] = "put" => chosen'[c] \in FewestMice
         /\ tick = "cats" /\ level'[c] # level[c] => pc[c] = "put" \/ level'[c] \in FewestMice]_vars

\* GameState.clearExpiredSnapshots: "expired snapshots are removed" - and no
\* others.
OnlyExpiredSnapshotsCleared ==
    [][\A t \in Tunnels : snaps[t] = "fresh" => snaps'[t] # "none"]_vars

\* Client.register returns the first line as the UUID of the registered client.
FirstLineIsId == \A c \in Clients : first[c] # "state"

\* ServerTest sends REGISTER, READY and an action at once: no line may be left
\* in the buffer of the handshake when the action loop reads the socket.
NothingReadAheadIsLost == \A c \in Clients : pc[c] = "play" => ahead[c] = << >>

-----------------------------------------------------------------------------
(* Liveness, under FairSpec.                                               *)

\* updateGame can no longer go on: it is dead or waits for a client that does
\* not read.
TickBlocked == tick = "dead" \/ \E c \in Clients : conn[c] = "stalled"

\* If from some time on everybody who has registered is ready, the game starts.
AllReadyStarts ==
    <>[](clients # {} /\ \A c \in clients : ready[c] # "no") => <>started

\* Every client of a started game is sent an update, also one that came late,
\* and broadcast gets past every client.
EveryClientServed ==
    \A c \in Clients :
        /\ started /\ c \in clients ~> TickBlocked \/ c \in pending
        /\ c \in pending ~> TickBlocked \/ c \notin pending

\* Queued actions of a started game are applied.
ActionsApplied == started /\ queue # << >> ~> TickBlocked \/ queue = << >>

\* When the time is over some later tick says so, whatever is queued and whoever
\* has won.
TimeOutNoticed == late ~> TickBlocked \/ status = "TIME_OUT"
=============================================================================
