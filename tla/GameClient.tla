------------------------------ MODULE GameClient ------------------------------
(***************************************************************************)
(* The client of the network game (Exercise_1/client) between its user and *)
(* the server.  Two threads share a Client object:                         *)
(*   - the event thread of Swing runs the handlers of buttons and keys     *)
(*     (ClientGUI, InputManager); edt is where it is;                      *)
(*   - the listener thread runs GameStateListener.run and in it            *)
(*     Client.receive; listener is where it is.                            *)
(* The server is the environment: it does what GameServer lets a client    *)
(* see, an id in answer to REGISTER and updates of a running game.         *)
(***************************************************************************)
EXTENDS Naturals, Sequences, FiniteSets

CONSTANTS
    Direction,    \* the arrow keys
    MayClose,     \* whether somebody calls Client.close (the window does not)
    DownCap,      \* bound: lines on their way to the client
    MaxCredit     \* bound: half frames that are saved up without an update

ASSUME ClientAssumption ==
    /\ MayClose \in BOOLEAN
    /\ DownCap \in Nat \ {0}
    /\ MaxCredit \in Nat /\ MaxCredit >= 2

ASSUME DirectionAssumption == IsFiniteSet(Direction)

Update == {"absent", "surface", "tunnel"}    \* where it has this client's mouse
Line == {"id"} \cup Update

VARIABLES
    edt,          \* the event thread: what it is doing
    register_on,  \* the Register button is enabled
    ready_on,     \* the Ready button is enabled
    client_id,    \* ClientGUI.clientId # null
    panel_id,     \* clientId of both panels # null
    key_listener, \* the InputManager listens to the board
    held,         \* the arrow keys that the user holds down
    focus,        \* the board has the focus
    lost,         \* history: keys released while it had not, still in directions
    editable,     \* the user may type a vote
    text,         \* a vote has been typed
    directions,   \* Client.directions
    listener,     \* the listener thread
    line,         \* the line it has read
    batch,        \* the copy of directions: those still to be sent
    changed,      \* the keys added or removed since it was begun
    credit,       \* GameStateListener.delta, in half frames
    death,        \* the exception that ended the listener
    stopped,      \* GameStateListener.running is false
    conn,         \* the socket
    trouble,      \* PrintWriter.trouble of Client.out, which is never reset
    down,         \* lines on their way to the client
    first,        \* the line that register has read
    said,         \* the lines for the server, but for lost ones; actions count once
    printed,      \* history: READY has been printed without an error
    answered,     \* the server has sent the id
    game,         \* whether the server sends updates
    behind,       \* the update that is sent was built without this client
    joiner        \* the game was running before the client said READY

buttonVars == <<register_on, ready_on, client_id, panel_id, key_listener>>
keyVars == <<held, focus, lost, directions, changed>>
voteVars == <<editable, text>>
listenerVars == <<listener, line, batch, credit, death>>
netVars == <<conn, trouble, down, first, said, printed>>
serverVars == <<answered, game, behind, joiner>>
vars == <<edt, buttonVars, keyVars, voteVars, listenerVars, stopped, netVars,
          serverVars>>

Init ==
    /\ edt = "idle"
    /\ register_on = TRUE /\ ready_on = FALSE
    /\ client_id = FALSE /\ panel_id = FALSE /\ key_listener = FALSE
    /\ held = {} /\ focus = FALSE /\ lost = {}
    /\ editable = FALSE /\ text = FALSE
    /\ directions = {} /\ batch = {} /\ changed = {}
    /\ listener = "none" /\ line = "id" /\ credit = 0 /\ death = "none"
    /\ stopped = FALSE
    /\ conn = "none" /\ trouble = FALSE /\ down = << >> /\ first = "none" /\ said = << >>
    /\ printed = FALSE
    /\ answered = FALSE
    /\ game \in {"lobby", "running"}
    /\ joiner = (game = "running")
    /\ behind = joiner

Say(kind) ==
    /\ conn = "open"
    /\ said' = IF said # << >> /\ said[Len(said)] = kind THEN said
                                                         ELSE Append(said, kind)

\* Client.send on a connection that is broken: checkError sees an error only if
\* the socket knows of it already, which the first write after the server has
\* closed the connection usually does not.
Unheard == conn = "broken" /\ UNCHANGED said

\* send returns, or raises an exception, and then always does.
Sends(kind) == ~trouble /\ (Say(kind) \/ Unheard) /\ UNCHANGED trouble
SendRaises == Unheard /\ trouble' = TRUE

-----------------------------------------------------------------------------
(* The buttons.                                                            *)

\* Client.connect fails: the user may try again, but not after a name that is
\* no host.
ConnectFails ==
    /\ edt = "idle" /\ register_on
    /\ register_on' \in BOOLEAN
    /\ UNCHANGED <<edt, ready_on, client_id, panel_id, key_listener, keyVars, voteVars,
                   listenerVars, stopped, netVars, serverVars>>

\* Client.connect and the request of register.  Ready is enabled before the
\* answer is there, but the thread that would handle it waits for the answer.
Register ==
    /\ edt = "idle" /\ register_on
    /\ register_on' = FALSE /\ ready_on' = TRUE
    /\ listener' = "new"
    /\ \/ conn' = "open" /\ said' = <<"REGISTER">> /\ edt' = "answer"
       \/ conn' = "broken" /\ edt' \in {edt, "answer"} /\ UNCHANGED said
    /\ trouble' = (edt' = "idle")
    /\ UNCHANGED <<client_id, panel_id, key_listener, keyVars, voteVars, line, batch,
                   credit, death, stopped, down, first, printed, serverVars>>

\* register takes the first line for the id; one that is none is an exception
\* that leaves clientId null.  The listener is started before.
RegisterTakes(lines) ==
    /\ edt = "answer" /\ down # << >> /\ Head(down) \in lines
    /\ edt' = "idle"
    /\ first' = Head(down) /\ down' = Tail(down)
    /\ client_id' = (Head(down) = "id")
    /\ listener' = "check"
    /\ UNCHANGED <<register_on, ready_on, panel_id, key_listener, keyVars, voteVars,
                   line, batch, credit, death, stopped, conn, trouble, said, printed,
                   serverVars>>

\* Mutant: lines that are no id are not taken.
RegisterTakesId == RegisterTakes({"id"})

RegisterReturns == RegisterTakes(Line)

\* The end of the stream starts the listener, an IOException does not.
RegisterFails ==
    /\ edt = "answer" /\ down = << >> /\ conn = "broken"
    /\ edt' = "idle"
    /\ listener' \in {"new", "check"}
    /\ UNCHANGED <<buttonVars, keyVars, voteVars, line, batch, credit, death, stopped,
                   netVars, serverVars>>

\* Mutant: the panels are not told.
ChangeNoClientId == UNCHANGED panel_id

\* ClientGUI.changeClientId.
ChangeClientId == panel_id' = TRUE

\* Mutant: null is turned into a string too.
HasAnyId == TRUE

\* clientId.toString() is no exception.
HasId == client_id

\* The exception comes after the button has been disabled.
Ready ==
    /\ edt = "idle" /\ ready_on
    /\ ready_on' = FALSE
    /\ IF HasId THEN ChangeClientId /\ edt' = "ready"
                ELSE UNCHANGED <<panel_id, edt>>
    /\ UNCHANGED <<register_on, client_id, key_listener, keyVars, voteVars,
                   listenerVars, stopped, netVars, serverVars>>

\* Mutant: nothing is done about a failure.
FailQuietly == UNCHANGED ready_on

\* The handler of the exception enables the button again.
FailReady == ready_on' = TRUE

\* Client.initiateReady.
InitiateReady ==
    /\ edt = "ready"
    /\ edt' = "keys"
    /\ \/ Sends("READY") /\ printed' = TRUE /\ UNCHANGED ready_on
       \/ SendRaises /\ FailReady /\ UNCHANGED printed
    /\ UNCHANGED <<register_on, client_id, panel_id, key_listener, keyVars, voteVars,
                   listenerVars, stopped, conn, down, first, serverVars>>

\* The board gets the keys, whether READY was sent or not.
AddKeyListener ==
    /\ edt = "keys"
    /\ edt' = "idle"
    /\ key_listener' = TRUE /\ focus' = TRUE
    /\ UNCHANGED <<register_on, ready_on, client_id, panel_id, held, lost, directions,
                   changed, voteVars, listenerVars, stopped, netVars, serverVars>>

\* The Send button: an exception of a broken socket is caught.
SendVote ==
    /\ edt = "idle" /\ text
    /\ focus' = TRUE
    /\ \/ Sends("ACTION") /\ text' = FALSE
       \/ SendRaises /\ UNCHANGED text
    /\ UNCHANGED <<edt, buttonVars, held, lost, directions, changed, editable,
                   listenerVars, stopped, conn, down, first, printed, serverVars>>

-----------------------------------------------------------------------------
(* Keys and focus.                                                         *)

Listening == key_listener /\ focus

\* The set of directions, and the keys by which it has been modified.
Modify(set) ==
    /\ directions' = set
    /\ changed' = changed \cup (set \ directions) \cup (directions \ set)

AddDirection(d) == Modify(directions \cup {d})

\* Mutant: the directions of the other keys are removed.
RemoveOthers(d) == Modify(directions \cap {d})

RemoveDirection(d) == Modify(directions \ {d})

\* InputManager.keyPressed of an arrow, also by the repetition of a key.
Press(d) ==
    /\ edt = "idle"
    /\ held' = held \cup {d}
    /\ IF Listening THEN AddDirection(d)
                    ELSE UNCHANGED <<directions, changed>>
    /\ UNCHANGED <<edt, buttonVars, focus, lost, voteVars, listenerVars, stopped,
                   netVars, serverVars>>

\* InputManager.keyReleased, which the board is told only if it has the focus.
Release(d) ==
    /\ edt = "idle" /\ d \in held
    /\ held' = held \ {d}
    /\ IF Listening THEN RemoveDirection(d) /\ lost' = lost \ {d}
                    ELSE /\ lost' = lost \cup ({d} \cap directions)
                         /\ UNCHANGED <<directions, changed>>
    /\ UNCHANGED <<edt, buttonVars, focus, voteVars, listenerVars, stopped, netVars,
                   serverVars>>

\* InputManager.keyPressed of the space bar: Client.sendLevelChange.  Nobody
\* handles its exception.
PressSpace ==
    /\ edt = "idle" /\ Listening
    /\ Sends("ACTION") \/ SendRaises
    /\ UNCHANGED <<edt, buttonVars, keyVars, voteVars, listenerVars, stopped, conn,
                   down, first, printed, serverVars>>

\* The user goes to the text field of the chat, or to another window.
LoseFocus ==
    /\ edt = "idle" /\ focus
    /\ focus' = FALSE
    /\ text' \in {text} \cup (IF editable THEN {TRUE} ELSE {})
    /\ UNCHANGED <<edt, buttonVars, held, lost, directions, changed, editable,
                   listenerVars, stopped, netVars, serverVars>>

\* The window comes back, or Send is pressed without a vote.
RegainFocus ==
    /\ edt = "idle" /\ key_listener /\ ~focus
    /\ focus' = TRUE
    /\ UNCHANGED <<edt, buttonVars, held, lost, directions, changed, voteVars,
                   listenerVars, stopped, netVars, serverVars>>

-----------------------------------------------------------------------------
(* The listener.                                                           *)

Die(exception) == listener' = "dead" /\ death' = exception

Running == ~stopped

\* The test of running, before readLine.
CheckRunning ==
    /\ listener = "check"
    /\ listener' = IF Running THEN "wait" ELSE "over"
    /\ UNCHANGED <<edt, buttonVars, keyVars, voteVars, line, batch, credit, death,
                   stopped, netVars, serverVars>>

\* Mutant: half a frame is enough.
IsHalfFrameOver == credit >= 1

IsFrameOver == credit >= 2

\* readLine; a line that comes before a frame is over is dropped, and kept is
\* what is left of delta then.
TakeLine(kept) ==
    /\ listener = "wait"
    /\ \/ /\ down # << >>
          /\ line' = Head(down) /\ down' = Tail(down)
          /\ IF IsFrameOver THEN listener' = "copy" /\ UNCHANGED credit
                            ELSE listener' = "check" /\ credit' = kept
          /\ changed' = {}
       \/ /\ down = << >> /\ conn = "broken"
          /\ listener' = "over"
          /\ UNCHANGED <<line, down, changed, credit>>
    /\ UNCHANGED <<edt, buttonVars, held, focus, lost, directions, voteVars, batch,
                   death, stopped, conn, trouble, first, said, printed, serverVars>>

\* Mutant: the time before a line that is dropped is forgotten.
TakeLineAnew == TakeLine(0)

ReadLine == TakeLine(credit)

\* new HashSet<>(directions): a key that is handled meanwhile makes the
\* iterator fail, or is seen, or is not.
CopyDirections ==
    /\ listener = "copy"
    /\ \/ /\ batch' \in {b \in SUBSET (directions \cup changed) :
                           directions \ changed \subseteq b}
          /\ listener' = "send"
          /\ UNCHANGED death
       \/ /\ changed # {}
          /\ Die("ConcurrentModification")
          /\ UNCHANGED batch
    /\ UNCHANGED <<edt, buttonVars, keyVars, voteVars, line, credit, stopped, netVars,
                   serverVars>>

\* Client.sendDirection for one of the copy.
SendDirection(d) ==
    /\ listener = "send" /\ d \in batch
    /\ \/ Sends("ACTION") /\ batch' = batch \ {d} /\ UNCHANGED <<listener, death>>
       \/ SendRaises /\ Die("Runtime") /\ UNCHANGED batch
    /\ UNCHANGED <<edt, buttonVars, keyVars, voteVars, line, credit, stopped, conn,
                   down, first, printed, serverVars>>

\* GameBoardPanel.updateBoard looks for the mouse of the panel's clientId, then
\* GameChatPanel.updateBoard; a line that is no update is only reported.
ShowUpdate ==
    /\ listener = "send" /\ batch = {}
    /\ IF line \in Update /\ (line = "absent" \/ ~panel_id)
       THEN Die("NullPointer") /\ UNCHANGED <<editable, credit>>
       ELSE /\ listener' = "check"
            /\ credit' = credit - 2
            /\ editable' = IF line \in Update THEN line = "tunnel" ELSE editable
            /\ UNCHANGED death
    /\ UNCHANGED <<edt, buttonVars, keyVars, text, line, batch, stopped, netVars,
                   serverVars>>

\* Time passes from the start of the listener on.
HalfFrame ==
    /\ listener \notin {"none", "new", "over", "dead"}
    /\ credit < MaxCredit
    /\ credit' = credit + 1
    /\ UNCHANGED <<edt, buttonVars, keyVars, voteVars, listener, line, batch, death,
                   stopped, netVars, serverVars>>

-----------------------------------------------------------------------------
(* Client.close.                                                           *)

Close ==
    /\ MayClose /\ edt = "idle" /\ conn # "none"
    /\ stopped' = TRUE
    /\ edt' = "join"
    /\ UNCHANGED <<buttonVars, keyVars, voteVars, listenerVars, netVars, serverVars>>

\* The join returns when the thread has ended, or was never started.
Joined ==
    /\ edt = "join" /\ listener \in {"new", "over", "dead"}
    /\ edt' = "closed"
    /\ conn' = "broken" /\ down' = << >>
    /\ UNCHANGED <<buttonVars, keyVars, voteVars, listenerVars, stopped, trouble,
                   first, said, printed, serverVars>>

-----------------------------------------------------------------------------
(* The server.                                                             *)

Has(kind) == \E i \in DOMAIN said : said[i] = kind

Deliver(l) ==
    /\ conn = "open" /\ Has("REGISTER") /\ Len(down) < DownCap
    /\ down' = Append(down, l)
    /\ UNCHANGED <<edt, buttonVars, keyVars, voteVars, listenerVars, stopped, conn,
                   trouble, first, said, printed, game, joiner>>

Answer ==
    /\ ~answered /\ Deliver("id")
    /\ answered' = TRUE
    /\ UNCHANGED behind

\* A client that joins a running game may be sent the end of a broadcast that
\* was built without it; later updates have its mouse.
SendUpdate ==
    /\ game = "running"
    /\ \E l \in Update : (l = "absent" => behind) /\ Deliver(l)
    /\ behind' = FALSE
    /\ UNCHANGED answered

\* The clients that were counted in the lobby are ready.  This one may not be
\* one of them: it has not registered, or did so while they were counted.
StartGame ==
    /\ game = "lobby"
    /\ game' = "running"
    /\ behind' \in {b \in BOOLEAN : /\ b => ~answered
                                    /\ ~b => Has("REGISTER")}
    /\ joiner' = ~Has("READY")
    /\ UNCHANGED <<edt, buttonVars, keyVars, voteVars, listenerVars, stopped, netVars,
                   answered>>

\* The connection is lost, with or without what is on its way.
Break ==
    /\ conn = "open"
    /\ conn' = "broken"
    /\ down' \in {down, << >>}
    /\ UNCHANGED <<edt, buttonVars, keyVars, voteVars, listenerVars, stopped, trouble,
                   first, said, printed, serverVars>>

-----------------------------------------------------------------------------

UserStep ==
    \/ ConnectFails \/ Register \/ Ready \/ SendVote
    \/ \E d \in Direction : Press(d) \/ Release(d)
    \/ PressSpace \/ LoseFocus \/ RegainFocus \/ Close

HandlerStep ==
    \/ RegisterReturns \/ RegisterFails
    \/ InitiateReady \/ AddKeyListener \/ Joined

ListenerStep ==
    \/ CheckRunning \/ ReadLine \/ CopyDirections \/ ShowUpdate
    \/ \E d \in Direction : SendDirection(d)

ServerStep == Answer \/ SendUpdate \/ StartGame \/ Break

Next == UserStep \/ HandlerStep \/ ListenerStep \/ HalfFrame \/ ServerStep

\* Handlers and the listener run, time passes, the server answers and sends
\* updates of a running game; the user need not do anything.
Fairness ==
    /\ WF_vars(HandlerStep)
    /\ WF_vars(ListenerStep)
    /\ WF_vars(HalfFrame)
    /\ WF_vars(Answer)
    /\ WF_vars(SendUpdate)

Spec == Init /\ [][Next]_vars
FairSpec == Spec /\ Fairness

-----------------------------------------------------------------------------

TypeOK ==
    /\ edt \in {"idle", "answer", "ready", "keys", "join", "closed"}
    /\ register_on \in BOOLEAN /\ ready_on \in BOOLEAN
    /\ client_id \in BOOLEAN /\ panel_id \in BOOLEAN /\ key_listener \in BOOLEAN
    /\ held \subseteq Direction /\ directions \subseteq Direction
    /\ batch \subseteq Direction /\ changed \subseteq Direction
    /\ focus \in BOOLEAN /\ lost \subseteq Direction
    /\ editable \in BOOLEAN /\ text \in BOOLEAN
    /\ listener \in {"none", "new", "check", "wait", "copy", "send", "over", "dead"}
    /\ line \in Line
    /\ credit \in 0..MaxCredit
    /\ death \in {"none", "ConcurrentModification", "Runtime", "NullPointer"}
    /\ stopped \in BOOLEAN
    /\ conn \in {"none", "open", "broken"} /\ trouble \in BOOLEAN
    /\ down \in Seq(Line) /\ Len(down) <= DownCap
    /\ first \in {"none"} \cup Line
    /\ said \in Seq({"REGISTER", "READY", "ACTION"}) /\ printed \in BOOLEAN
    /\ answered \in BOOLEAN /\ behind \in BOOLEAN /\ joiner \in BOOLEAN
    /\ game \in {"lobby", "running"}

\* What GameServer assumes of its clients: REGISTER, then READY if the first
\* line was the id, then actions; whatever the buttons, failures and retries.
SpeaksProtocol ==
    /\ said \in {<< >>, <<"REGISTER">>, <<"REGISTER", "READY">>,
                 <<"REGISTER", "READY", "ACTION">>}
    /\ Has("READY") => first = "id"

\* The panels get the id before READY goes out, so that a client that had said
\* READY when the game began never fails to find its own mouse
\* (GameBoardPanel.setCatPosition).
OnlyJoinersMissTheirMouse == death = "NullPointer" => joiner

\* A user who has an id can press a button until READY has been printed without
\* an error, whatever fails and is tried again.
ButtonUntilReadyPrinted ==
    edt = "idle" /\ client_id /\ ~printed => register_on \/ ready_on

\* Every direction that is sent is of a key that is held down, was released since
\* receive began to copy, or was released while the board had not the focus.
SendsHeldKeys == batch \subseteq held \cup changed \cup lost

\* The listener has ended, by itself or by an exception.
Ended == listener \in {"over", "dead"}

\* A key that stays down is sent although updates that come too early are
\* dropped with their directions.
HeldKeysAreSent ==
    \A d \in Direction :
      (d \in directions /\ game = "running")
        ~> (d \in batch \/ d \notin directions \/ Ended \/ conn = "broken")

\* The event thread comes back from every handler of a button.
HandlersReturn == edt \in {"answer", "ready", "keys"} ~> edt = "idle"
=============================================================================
