------------------------------- MODULE Session -------------------------------
(***************************************************************************)
(* What one client and the server have to do with each other, as both of   *)
(* their models must have it.  GameServer, whose clients are environment,  *)
(* implements it for each client that keeps to the protocol; GameClient,   *)
(* whose server is environment, implements it for its one client.          *)
(***************************************************************************)

VARIABLES
    stage,   \* of the handshake: "new", "registered", "answered", "ready"
    view     \* the updates that the client can be sent: none in the "lobby",
             \* one that was built without it ("behind"), or its own ("current")

sessionVars == <<stage, view>>

\* A client that joins a running game is behind from the start.
SessionInit ==
    /\ stage = "new"
    /\ view \in {"lobby", "behind"}

Go(from, to) == stage = from /\ stage' = to /\ UNCHANGED view

\* The client says REGISTER, the server answers with the id, and only then the
\* client says READY.
SayRegister == Go("new", "registered")
GiveId == Go("registered", "answered")
SayReady == Go("answered", "ready")

\* The game starts: with a client that has joined, ready or not - it may have
\* joined after the others were counted -, or without one that has no id yet.
Begin ==
    /\ view = "lobby"
    /\ \/ stage # "new" /\ view' = "current"
       \/ stage \in {"new", "registered"} /\ view' = "behind"
    /\ UNCHANGED stage

\* The client has joined, and what was built without it has been sent.
CatchUp ==
    /\ stage # "new"
    /\ view = "behind"
    /\ view' = "current"
    /\ UNCHANGED stage

SessionNext == SayRegister \/ GiveId \/ SayReady \/ Begin \/ CatchUp

SessionSpec == SessionInit /\ [][SessionNext]_sessionVars
=============================================================================
