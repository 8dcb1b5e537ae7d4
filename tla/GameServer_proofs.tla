------------------------- MODULE GameServer_proofs -------------------------
(***************************************************************************)
(* Proofs about GameServer, for every number of clients, tunnels, cats,    *)
(* places and for every bound.                                             *)
(***************************************************************************)
EXTENDS GameServer, SequenceTheorems, TLAPS

LEMMA Geometry ==
    /\ Place # {}
    /\ Moves \in [Place -> SUBSET Place]
    /\ Clamp \in [Place -> Place]
    /\ DoorsOf \in [Tunnels -> SUBSET Place]
    /\ CellsOf \in [Tunnels -> SUBSET Place]
    /\ SpawnOf \in [Tunnels -> SUBSET Place]
    /\ \A t \in Tunnels : DoorsOf[t] \subseteq CellsOf[t]
    /\ \A t \in Tunnels : SpawnOf[t] \subseteq CellsOf[t]
    /\ \A s, t \in Tunnels : s # t => DoorsOf[s] \cap CellsOf[t] = {}
  BY GeometryAssumption DEF IsGeometry

\* A handler that is about to put its mouse has chosen a tunnel.
PutHasTunnel == \A c \in Clients : pc[c] = "put" => chosen[c] \in Tunnels

TypeInv == TypeOK /\ PutHasTunnel

-----------------------------------------------------------------------------

LEMMA ClientFrame ==
    ASSUME NEW c, ClientStep(c)
    PROVE  UNCHANGED <<ahead, first, handlerVars, miceVars, clients, queue, tickVars,
                       gameVars>>
BY DEF ClientStep, Connect, SendReady, SendAction, Disconnect, Stall, lineVars

LEMMA TickFrame ==
    ASSUME TickStep
    PROVE  UNCHANGED <<clientVars, inbox, ahead, handlerVars, mice, clients>>
BY DEF TickStep, BeginCount, FindReady, FindUnready, EndCount, BeginTick, StartGame,
   TimeCheck, ProcessOrphan, ProcessIncomplete, ProcessDirection, ProcessVote,
   ProcessLevelChange, CatCatches, SendUpdate, ActionsDone, CatMisses, CatsDone,
   CheckState, BuildUpdate, EndTick, lineVars, miceVars

LEMMA ClockFrame ==
    ASSUME Clock
    PROVE  UNCHANGED <<clientVars, lineVars, handlerVars, miceVars, clients, queue,
                       tickVars, cats, started, status>>
BY DEF Clock, GameTimeEnds, SnapshotExpires

LEMMA ReadLineType ==
    ASSUME NEW c \in Clients, NEW line, SocketTypeOK, ReadLine(c, line)
    PROVE  /\ line \in Line
           /\ inbox' \in [Clients -> Seq(Line)]
           /\ ahead' \in [Clients -> Seq(Line)]
<1>1. CASE /\ ahead[c] # << >>
           /\ line = Head(ahead[c])
           /\ ahead' = [ahead EXCEPT ![c] = Tail(@)]
           /\ UNCHANGED inbox
  <2>1. ahead[c] \in Seq(Line)
    BY DEF SocketTypeOK
  <2>2. Head(ahead[c]) \in Line /\ Tail(ahead[c]) \in Seq(Line)
    BY <1>1, <2>1, HeadTailProperties
  <2> QED
    BY <1>1, <2>2 DEF SocketTypeOK
<1>2. CASE /\ ahead[c] = << >>
           /\ inbox[c] # << >>
           /\ line = Head(inbox[c])
           /\ \E k \in 1..Len(inbox[c]) :
                /\ ahead' = [ahead EXCEPT ![c] = SubSeq(inbox[c], 2, k)]
                /\ inbox' = [inbox EXCEPT ![c] = SubSeq(@, k + 1, Len(@))]
  <2>1. inbox[c] \in Seq(Line)
    BY DEF SocketTypeOK
  <2>2. PICK k \in 1..Len(inbox[c]) :
               /\ ahead' = [ahead EXCEPT ![c] = SubSeq(inbox[c], 2, k)]
               /\ inbox' = [inbox EXCEPT ![c] = SubSeq(@, k + 1, Len(@))]
    BY <1>2
  <2>3. k \in Int /\ k <= Len(inbox[c]) /\ Len(inbox[c]) \in Nat /\ 1 <= k
    BY <2>1
  <2>4. \A i \in 1..Len(inbox[c]) : inbox[c][i] \in Line
    BY <2>1
  <2>5. SubSeq(inbox[c], 2, k) \in Seq(Line)
    <3>1. \A i \in 2..k : inbox[c][i] \in Line
      BY <2>3, <2>4
    <3> QED
      BY <2>3, <3>1, SubSeqProperties
  <2>6. SubSeq(inbox[c], k + 1, Len(inbox[c])) \in Seq(Line)
    <3>1. \A i \in (k + 1)..Len(inbox[c]) : inbox[c][i] \in Line
      BY <2>3, <2>4
    <3> QED
      BY <2>3, <3>1, SubSeqProperties
  <2>7. Head(inbox[c]) \in Line
    BY <1>2, <2>1, HeadTailProperties
  <2> QED
    BY <1>2, <2>2, <2>5, <2>6, <2>7 DEF SocketTypeOK
<1> QED
  BY <1>1, <1>2 DEF ReadLine

LEMMA SendType ==
    ASSUME NEW c \in Clients, NEW line \in Line, SocketTypeOK, Send(c, line)
    PROVE  inbox' \in [Clients -> Seq(Line)]
BY AppendProperties DEF Send, SocketTypeOK

LEMMA PollType ==
    ASSUME NEW c, NEW kind, HandlerTypeOK, Poll(c, kind)
    PROVE  /\ c \in Clients
           /\ kind \in ActionKind
           /\ queue' \in Seq(Request)
<1>1. Head(queue) \in Request /\ Tail(queue) \in Seq(Request)
  BY HeadTailProperties DEF HandlerTypeOK, Poll
<1> QED
  BY <1>1 DEF Poll, Request

-----------------------------------------------------------------------------
(* The type invariant.                                                     *)

LEMMA InitType == Init => TypeInv
<1> SUFFICES ASSUME Init PROVE TypeInv
  OBVIOUS
<1>1. place \in [Clients -> Place]
  <2>1. PICK p \in Place : p = CHOOSE q \in Place : TRUE
    BY Geometry
  <2>2. place = [c \in Clients |-> p]
    BY <2>1 DEF Init
  <2> QED
    BY <2>2
<1>2. SocketTypeOK /\ HandlerTypeOK
  BY BoundAssumption, EmptySeq DEF Init, SocketTypeOK, HandlerTypeOK
<1>3. GameTypeOK
  <2>1. cats \in 0..NumCats /\ catsLeft \in 0..NumCats
    BY BoundAssumption DEF Init
  <2>2. level \in [Clients -> Tunnels \cup {Surface}]
    BY DEF Init
  <2>3. snaps \in [Tunnels -> {"none", "fresh", "expired"}]
    BY DEF Init
  <2> QED
    BY <1>1, <2>1, <2>2, <2>3 DEF Init, GameTypeOK
<1>4. TickTypeOK
  BY BoundAssumption DEF Init, TickTypeOK
<1> QED
  BY <1>2, <1>3, <1>4 DEF Init, TypeInv, TypeOK, PutHasTunnel

LEMMA ClientStepType ==
    ASSUME TypeInv, NEW c \in Clients, ClientStep(c)
    PROVE  TypeInv'
<1> USE DEF TypeInv, TypeOK
<1>1. UNCHANGED <<handlerVars, miceVars, clients, queue, tickVars, gameVars>>
  BY ClientFrame
<1>2. HandlerTypeOK' /\ GameTypeOK' /\ TickTypeOK' /\ PutHasTunnel'
  BY <1>1 DEF HandlerTypeOK, GameTypeOK, TickTypeOK, PutHasTunnel, handlerVars,
     miceVars, tickVars, gameVars
<1>3. SocketTypeOK'
  <2>1. CASE Connect(c)
    <3>1. PICK line \in {"REGISTER", "GARBLED", "INCOMPLETE"} : Send(c, line)
      BY <2>1 DEF Connect
    <3>2. line \in Line
      BY DEF Line, ActionKind
    <3>3. inbox' \in [Clients -> Seq(Line)]
      BY <3>1, <3>2, SendType
    <3> QED
      BY <2>1, <3>3 DEF Connect, SocketTypeOK
  <2>2. CASE SendReady(c)
    BY <2>2, SendType DEF SendReady, Line, SocketTypeOK
  <2>3. ASSUME NEW kind \in ActionKind, SendAction(c, kind) PROVE SocketTypeOK'
    <3>1. kind \in Line
      BY DEF Line
    <3>2. acts' \in 0..MaxActs
      BY <2>3, BoundAssumption DEF SendAction, SocketTypeOK
    <3> QED
      BY <2>3, <3>1, <3>2, SendType DEF SendAction, SocketTypeOK
  <2>4. CASE Disconnect(c)
    BY <2>4, EmptySeq DEF Disconnect, SocketTypeOK
  <2>5. CASE Stall(c)
    BY <2>5 DEF Stall, SocketTypeOK, lineVars
  <2> QED
    BY <2>1, <2>2, <2>3, <2>4, <2>5 DEF ClientStep
<1> QED
  BY <1>2, <1>3

LEMMA HandlerStepType ==
    ASSUME TypeInv, NEW c \in Clients, HandlerStep(c)
    PROVE  TypeInv'
<1> USE DEF TypeInv, TypeOK
<1>1. CASE Accept(c)
  BY <1>1 DEF Accept, Goto, SocketTypeOK, HandlerTypeOK, GameTypeOK, TickTypeOK,
     PutHasTunnel, clientVars, lineVars, miceVars, tickVars, gameVars
<1>2. CASE ReadRegister(c)
  <2>1. PICK line \in Line :
               ReadLine(c, line) /\ \E label \in AfterRegister(line) : Goto(c, label)
    BY <1>2 DEF ReadRegister
  <2>2. SocketTypeOK'
    BY <1>2, <2>1, ReadLineType DEF ReadRegister, SocketTypeOK, clientVars
  <2> QED
    BY <1>2, <2>1, <2>2 DEF ReadRegister, Goto, AfterRegister, AfterMisfit,
       HandlerTypeOK, GameTypeOK, TickTypeOK, PutHasTunnel, miceVars, tickVars, gameVars
<1>3. CASE ChooseTunnel(c)
  BY <1>3 DEF ChooseTunnel, RespawnTunnels, Goto, SocketTypeOK, HandlerTypeOK,
     GameTypeOK, TickTypeOK, PutHasTunnel, clientVars, lineVars, miceVars,
     tickVars, gameVars
<1>4. CASE AddMouse(c)
  <2>1. chosen[c] \in Tunnels /\ SpawnOf[chosen[c]] \subseteq Place
    BY <1>4, Geometry DEF AddMouse, PutHasTunnel
  <2> QED
    BY <1>4, <2>1 DEF AddMouse, Goto, SocketTypeOK, HandlerTypeOK, GameTypeOK,
       TickTypeOK, PutHasTunnel, clientVars, lineVars, tickVars, gameVars
<1>5. CASE AddClient(c)
  BY <1>5 DEF AddClient, Goto, SocketTypeOK, HandlerTypeOK, GameTypeOK, TickTypeOK,
     PutHasTunnel, clientVars, lineVars, miceVars, gameVars
<1>6. CASE AnswerId(c)
  BY <1>6 DEF AnswerId, FirstLine, Goto, SocketTypeOK, HandlerTypeOK, GameTypeOK,
     TickTypeOK, PutHasTunnel, clientVars, miceVars, tickVars, gameVars
<1>7. CASE ReadReady(c)
  <2>1. PICK line \in Line :
               /\ ReadLine(c, line)
               /\ \E label \in {"gone", "play"} : Goto(c, label)
               /\ ready' = IF line = "READY" THEN [ready EXCEPT ![c] = "written"]
                                             ELSE ready
    BY <1>7 DEF ReadReady, AfterReady, AfterMisfit
  <2>2. SocketTypeOK'
    BY <1>7, <2>1, ReadLineType DEF ReadReady, SocketTypeOK, clientVars
  <2> QED
    BY <1>7, <2>1, <2>2 DEF ReadReady, Goto, HandlerTypeOK, GameTypeOK, TickTypeOK,
       PutHasTunnel, miceVars, tickVars, gameVars
<1>8. CASE ReadyVisible(c)
  BY <1>8 DEF ReadyVisible, SocketTypeOK, HandlerTypeOK, GameTypeOK, TickTypeOK,
     PutHasTunnel, clientVars, lineVars, miceVars, tickVars, gameVars
<1>9. CASE HandshakeEnds(c)
  BY <1>9 DEF HandshakeEnds, Goto, SocketTypeOK, HandlerTypeOK, GameTypeOK,
     TickTypeOK, PutHasTunnel, clientVars, lineVars, miceVars, tickVars, gameVars
<1>10. CASE ReadAction(c)
  <2>1. inbox[c] \in Seq(Line) /\ inbox[c] # << >>
    BY <1>10 DEF ReadAction, SocketTypeOK
  <2>2. Tail(inbox[c]) \in Seq(Line)
    BY <2>1, HeadTailProperties
  <2>3. RequestOf(c, Head(inbox[c])) \in Request
    BY <1>10 DEF ReadAction, RequestOf, Request
  <2>4. queue' \in Seq(Request)
    BY <1>10, <2>3, AppendProperties DEF ReadAction, HandlerTypeOK
  <2> QED
    BY <1>10, <2>2, <2>4 DEF ReadAction, SocketTypeOK, HandlerTypeOK, GameTypeOK,
       TickTypeOK, PutHasTunnel, clientVars, handlerVars, miceVars, tickVars, gameVars
<1>11. CASE ActionLoopEnds(c)
  BY <1>11 DEF ActionLoopEnds, Goto, SocketTypeOK, HandlerTypeOK, GameTypeOK,
     TickTypeOK, PutHasTunnel, lineVars, miceVars, tickVars, gameVars
<1> QED
  BY <1>1, <1>2, <1>3, <1>4, <1>5, <1>6, <1>7, <1>8, <1>9, <1>10, <1>11
  DEF HandlerStep

LEMMA TickStepType ==
    ASSUME TypeInv, TickStep
    PROVE  TypeInv'
<1> USE DEF TypeInv, TypeOK
<1>1. UNCHANGED <<handlerVars, clients, clientVars, inbox, ahead>>
  BY TickFrame
<1>2. PutHasTunnel'
  BY <1>1 DEF PutHasTunnel, handlerVars
<1>3. \A t \in Tunnels : SpawnOf[t] \subseteq Place
  BY Geometry
<1>4. CASE BeginCount \/ EndCount \/ BeginTick
  BY <1>2, <1>4 DEF BeginCount, EndCount, AfterCount, BeginTick, SocketTypeOK,
     HandlerTypeOK, GameTypeOK, TickTypeOK, clientVars, lineVars, handlerVars, miceVars,
     gameVars
<1>19. ASSUME NEW c \in Clients, FindReady(c) \/ FindUnready(c) PROVE TypeInv'
  BY <1>2, <1>19 DEF FindReady, FindUnready, SocketTypeOK, HandlerTypeOK, GameTypeOK,
     TickTypeOK, clientVars, lineVars, handlerVars, miceVars, gameVars
<1>20. ASSUME NEW c \in Clients, ProcessIncomplete(c) PROVE TypeInv'
  <2>1. queue' \in Seq(Request)
    BY <1>20, PollType DEF ProcessIncomplete
  <2> QED
    BY <1>2, <1>20, <2>1 DEF ProcessIncomplete, SocketTypeOK, HandlerTypeOK, GameTypeOK,
       TickTypeOK, clientVars, lineVars, handlerVars, miceVars, gameVars
<1>5. CASE StartGame
  BY <1>2, <1>5, BoundAssumption DEF StartGame, SocketTypeOK, HandlerTypeOK,
     GameTypeOK, TickTypeOK, clientVars, lineVars, handlerVars, miceVars
<1>6. CASE TimeCheck
  BY <1>2, <1>6 DEF TimeCheck, StatusByTime, SocketTypeOK, HandlerTypeOK, GameTypeOK,
     TickTypeOK, clientVars, lineVars, handlerVars, miceVars
<1>7. ASSUME NEW c \in Clients, ProcessOrphan(c) PROVE TypeInv'
  <2>1. queue' \in Seq(Request)
    BY <1>7, PollType DEF ProcessOrphan
  <2> QED
    BY <1>2, <1>7, <2>1 DEF ProcessOrphan, SocketTypeOK, HandlerTypeOK, GameTypeOK,
       TickTypeOK, clientVars, lineVars, handlerVars, miceVars, gameVars
<1>8. ASSUME NEW c \in Clients, ProcessDirection(c) PROVE TypeInv'
  <2>1. queue' \in Seq(Request)
    BY <1>8, PollType DEF ProcessDirection
  <2>2. place' \in [Clients -> Place]
    BY <1>8, Geometry DEF ProcessDirection, GameTypeOK
  <2> QED
    BY <1>2, <1>8, <2>1, <2>2 DEF ProcessDirection, SocketTypeOK, HandlerTypeOK,
       GameTypeOK, TickTypeOK, clientVars, lineVars, handlerVars, tickVars, gameVars
<1>9. ASSUME NEW c \in Clients, ProcessVote(c) PROVE TypeInv'
  <2>1. queue' \in Seq(Request)
    BY <1>9, PollType DEF ProcessVote
  <2> QED
    BY <1>2, <1>9, <2>1 DEF ProcessVote, SocketTypeOK, HandlerTypeOK, GameTypeOK,
       TickTypeOK, clientVars, lineVars, handlerVars, miceVars, tickVars, gameVars
<1>10. ASSUME NEW c \in Clients, ProcessLevelChange(c) PROVE TypeInv'
  <2>1. queue' \in Seq(Request)
    BY <1>10, PollType DEF ProcessLevelChange
  <2>2. /\ level' \in [Clients -> Tunnels \cup {Surface}]
        /\ snaps' \in [Tunnels -> {"none", "fresh", "expired"}]
    BY <1>10 DEF ProcessLevelChange, DoorTunnels, GameTypeOK
  <2> QED
    BY <1>2, <1>10, <2>1, <2>2 DEF ProcessLevelChange, SocketTypeOK, HandlerTypeOK,
       GameTypeOK, TickTypeOK, clientVars, lineVars, handlerVars, tickVars
<1>11. ASSUME NEW c \in Clients, CatCatches(c) PROVE TypeInv'
  <2>1. PICK t \in Tunnels, p \in Place :
               /\ level' = [level EXCEPT ![c] = t]
               /\ place' = [place EXCEPT ![c] = p]
    BY <1>3, <1>11 DEF CatCatches, RespawnTunnels
  <2>2. catsLeft' \in 0..NumCats
    BY <1>11, BoundAssumption DEF CatCatches, CatsRemain, TickTypeOK
  <2> QED
    BY <1>2, <1>11, <2>1, <2>2 DEF CatCatches, SocketTypeOK, HandlerTypeOK, GameTypeOK,
       TickTypeOK, clientVars, lineVars, handlerVars, gameVars
<1>12. ASSUME NEW c \in Clients, SendUpdate(c) PROVE TypeInv'
  BY <1>2, <1>12 DEF SendUpdate, FirstLine, SocketTypeOK, HandlerTypeOK, GameTypeOK,
     TickTypeOK, clientVars, handlerVars, miceVars, gameVars
<1>13. CASE ActionsDone
  BY <1>2, <1>13 DEF ActionsDone, SocketTypeOK, HandlerTypeOK, GameTypeOK, TickTypeOK,
     clientVars, lineVars, handlerVars, miceVars, gameVars
<1>14. CASE CatMisses
  <2>1. catsLeft' \in 0..NumCats
    BY <1>14, BoundAssumption DEF CatMisses, CatsRemain, TickTypeOK
  <2> QED
    BY <1>2, <1>14, <2>1 DEF CatMisses, SocketTypeOK, HandlerTypeOK, GameTypeOK,
       TickTypeOK, clientVars, lineVars, handlerVars, miceVars, gameVars
<1>15. CASE CatsDone
  BY <1>2, <1>15 DEF CatsDone, SocketTypeOK, HandlerTypeOK, GameTypeOK, TickTypeOK,
     clientVars, lineVars, handlerVars, miceVars, gameVars
<1>16. CASE CheckState
  <2>1. place' \in [Clients -> Place]
    BY <1>16, Geometry DEF CheckState, GameTypeOK
  <2>2. snaps' \in [Tunnels -> {"none", "fresh", "expired"}]
    BY <1>16 DEF CheckState, ClearSnapshots, GameTypeOK
  <2> QED
    BY <1>2, <1>16, <2>1, <2>2 DEF CheckState, SocketTypeOK, HandlerTypeOK, GameTypeOK,
       TickTypeOK, clientVars, lineVars, handlerVars
<1>17. CASE BuildUpdate
  BY <1>2, <1>17 DEF BuildUpdate, MappedMice, Recipients, SocketTypeOK, HandlerTypeOK,
     GameTypeOK, TickTypeOK, clientVars, lineVars, handlerVars, miceVars, gameVars
<1>18. CASE EndTick
  BY <1>2, <1>18 DEF EndTick, SocketTypeOK, HandlerTypeOK, GameTypeOK, TickTypeOK,
     clientVars, lineVars, handlerVars, miceVars, gameVars
<1> QED
  BY <1>4, <1>5, <1>6, <1>7, <1>8, <1>9, <1>10, <1>11, <1>12, <1>13, <1>14, <1>15,
     <1>16, <1>17, <1>18, <1>19, <1>20 DEF TickStep

LEMMA ClockType ==
    ASSUME TypeInv, Clock
    PROVE  TypeInv'
<1> USE DEF TypeInv, TypeOK
<1>1. CASE GameTimeEnds
  BY <1>1 DEF GameTimeEnds, SocketTypeOK, HandlerTypeOK, GameTypeOK, TickTypeOK,
     PutHasTunnel, clientVars, lineVars, handlerVars, miceVars, tickVars
<1>2. ASSUME NEW t \in Tunnels, SnapshotExpires(t) PROVE TypeInv'
  BY <1>2 DEF SnapshotExpires, SocketTypeOK, HandlerTypeOK, GameTypeOK, TickTypeOK,
     PutHasTunnel, clientVars, lineVars, handlerVars, miceVars, tickVars
<1> QED
  BY <1>1, <1>2 DEF Clock

(* Every variable keeps its type, and no handler puts a mouse before it has *)
(* chosen a tunnel for it.                                                  *)
LEMMA TypeInvariant == Spec => []TypeInv
<1>1. TypeInv /\ [Next]_vars => TypeInv'
  <2> SUFFICES ASSUME TypeInv, [Next]_vars PROVE TypeInv'
    OBVIOUS
  <2>1. CASE UNCHANGED vars
    BY <2>1 DEF vars, TypeInv, TypeOK, SocketTypeOK, HandlerTypeOK, GameTypeOK,
       TickTypeOK, PutHasTunnel, clientVars, lineVars, handlerVars, miceVars, tickVars,
       gameVars
  <2>2. ASSUME NEW c \in Clients, ClientStep(c) \/ HandlerStep(c) PROVE TypeInv'
    BY <2>2, ClientStepType, HandlerStepType
  <2> QED
    BY <2>1, <2>2, TickStepType, ClockType DEF Next
<1> QED
  BY <1>1, InitType, PTL DEF Spec

\* Whatever the clients do, the server's maps, queue and program counters keep
\* their types: no mouse is put on a level that is none.
THEOREM TypeCorrect == Spec => []TypeOK
<1>1. TypeInv => TypeOK
  BY DEF TypeInv
<1> QED
  BY <1>1, TypeInvariant, PTL

-----------------------------------------------------------------------------
(* Registration: the mouse before the client before the id.                *)

RegistrationInv ==
    /\ ClientsHaveMice
    /\ \A c \in Clients : pc[c] \in {"add", "answer", "await"} => c \in mice
    /\ \A c \in Clients : pc[c] \in {"answer", "await"} => c \in clients

LEMMA RegistrationStep ==
    ASSUME TypeInv, RegistrationInv, [Next]_vars
    PROVE  RegistrationInv'
<1> USE DEF RegistrationInv, ClientsHaveMice
<1>1. ASSUME UNCHANGED <<pc, mice, clients>> PROVE RegistrationInv'
  BY <1>1
<1>2. ASSUME NEW c \in Clients, UNCHANGED <<mice, clients>>,
             NEW l \in {"register", "choose", "put", "play", "gone"}, Goto(c, l)
      PROVE  RegistrationInv'
  BY <1>2 DEF Goto, TypeInv, TypeOK, HandlerTypeOK
<1>3. CASE UNCHANGED vars
  BY <1>1, <1>3 DEF vars, handlerVars, miceVars
<1>4. ASSUME NEW c \in Clients, ClientStep(c) PROVE RegistrationInv'
  BY <1>1, <1>4, ClientFrame DEF handlerVars, miceVars
<1>5. ASSUME NEW c \in Clients, HandlerStep(c) PROVE RegistrationInv'
  <2>1. CASE Accept(c)
    BY <1>2, <2>1 DEF Accept, miceVars
  <2>2. CASE ReadRegister(c)
    BY <1>2, <2>2 DEF ReadRegister, AfterRegister, AfterMisfit, miceVars
  <2>3. CASE ChooseTunnel(c)
    BY <1>2, <2>3 DEF ChooseTunnel, miceVars
  <2>4. CASE AddMouse(c)
    BY <2>4 DEF AddMouse, Goto, TypeInv, TypeOK, HandlerTypeOK
  <2>5. CASE AddClient(c)
    BY <2>5 DEF AddClient, Goto, miceVars, TypeInv, TypeOK, HandlerTypeOK
  <2>6. CASE AnswerId(c)
    BY <2>6 DEF AnswerId, Goto, miceVars, TypeInv, TypeOK, HandlerTypeOK
  <2>7. CASE ReadReady(c)
    BY <1>2, <2>7 DEF ReadReady, AfterReady, AfterMisfit, miceVars
  <2>8. CASE ReadyVisible(c)
    BY <1>1, <2>8 DEF ReadyVisible, miceVars
  <2>9. CASE HandshakeEnds(c)
    BY <1>2, <2>9 DEF HandshakeEnds, miceVars
  <2>10. CASE ReadAction(c)
    BY <1>1, <2>10 DEF ReadAction, handlerVars, miceVars
  <2>11. CASE ActionLoopEnds(c)
    BY <1>2, <2>11 DEF ActionLoopEnds, miceVars
  <2> QED
    BY <1>5, <2>1, <2>2, <2>3, <2>4, <2>5, <2>6, <2>7, <2>8, <2>9, <2>10, <2>11
    DEF HandlerStep
<1>6. CASE TickStep
  BY <1>1, <1>6, TickFrame DEF handlerVars
<1>7. CASE Clock
  BY <1>1, <1>7, ClockFrame DEF handlerVars, miceVars
<1> QED
  BY <1>3, <1>4, <1>5, <1>6, <1>7 DEF Next

\* Every client of the broadcaster has a mouse in the game, for any number of
\* clients that register at the same time (GameManager.registerClient).
THEOREM ClientsHaveMiceCorrect == Spec => []ClientsHaveMice
<1>1. Init => RegistrationInv
  BY DEF Init, RegistrationInv, ClientsHaveMice
<1>2. TypeInv /\ RegistrationInv /\ [Next]_vars => RegistrationInv'
  BY RegistrationStep
<1>3. RegistrationInv => ClientsHaveMice
  BY DEF RegistrationInv
<1> QED
  BY <1>1, <1>2, <1>3, TypeInvariant, PTL DEF Spec

-----------------------------------------------------------------------------
(* Tunnels: a mouse stays within the tunnel of its level.                  *)

LEMMA UndergroundStep ==
    ASSUME TypeInv, UndergroundInTunnel, [Next]_vars
    PROVE  UndergroundInTunnel'
<1> USE DEF UndergroundInTunnel
<1>1. ASSUME UNCHANGED <<mice, level, place>> PROVE UndergroundInTunnel'
  BY <1>1
<1>2. CASE UNCHANGED vars
  BY <1>1, <1>2 DEF vars, miceVars
<1>3. ASSUME NEW c \in Clients, ClientStep(c) PROVE UndergroundInTunnel'
  BY <1>1, <1>3, ClientFrame DEF miceVars
<1>4. ASSUME NEW c \in Clients, HandlerStep(c) PROVE UndergroundInTunnel'
  <2>1. CASE AddMouse(c)
    <3>1. PICK p \in SpawnOf[chosen[c]] : place' = [place EXCEPT ![c] = p]
      BY <2>1 DEF AddMouse
    <3>2. chosen[c] \in Tunnels /\ p \in CellsOf[chosen[c]]
      BY <2>1, <3>1, Geometry DEF AddMouse, TypeInv, PutHasTunnel
    <3> QED
      BY <2>1, <3>1, <3>2 DEF AddMouse, TypeInv, TypeOK, GameTypeOK
  <2>2. CASE ~AddMouse(c)
    BY <1>1, <1>4, <2>2 DEF HandlerStep, Accept, ReadRegister, ChooseTunnel, AddClient,
       AnswerId, ReadReady, ReadyVisible, HandshakeEnds, ReadAction, ActionLoopEnds,
       miceVars
  <2> QED
    BY <2>1, <2>2
<1>5. ASSUME TickStep PROVE UndergroundInTunnel'
  <2>1. ASSUME NEW c \in Clients, ProcessDirection(c) PROVE UndergroundInTunnel'
    BY <2>1 DEF ProcessDirection, MayMove, TypeInv, TypeOK, GameTypeOK
  <2>2. ASSUME NEW c \in Clients, ProcessLevelChange(c) PROVE UndergroundInTunnel'
    <3>1. \/ UNCHANGED level
          \/ level' = [level EXCEPT ![c] = Surface]
          \/ \E t \in DoorTunnels(place[c]) : level' = [level EXCEPT ![c] = t]
      BY <2>2 DEF ProcessLevelChange
    <3>2. \A t \in DoorTunnels(place[c]) : t \in Tunnels /\ place[c] \in CellsOf[t]
      BY Geometry DEF DoorTunnels
    <3> QED
      BY <2>2, <3>1, <3>2 DEF ProcessLevelChange, TypeInv, TypeOK, GameTypeOK
  <2>3. ASSUME NEW c \in Clients, CatCatches(c) PROVE UndergroundInTunnel'
    <3>1. PICK t \in Tunnels : /\ level' = [level EXCEPT ![c] = t]
                               /\ \E p \in SpawnOf[t] : place' = [place EXCEPT ![c] = p]
      BY <2>3 DEF CatCatches, RespawnTunnels
    <3>2. SpawnOf[t] \subseteq CellsOf[t]
      BY Geometry
    <3> QED
      BY <2>3, <3>1, <3>2 DEF CatCatches, TypeInv, TypeOK, GameTypeOK
  <2>4. CASE CheckState
    BY <2>4 DEF CheckState, TypeInv, TypeOK, GameTypeOK
  <2>5. CASE UNCHANGED <<mice, level, place>>
    BY <1>1, <2>5
  <2> QED
    BY <1>5, <2>1, <2>2, <2>3, <2>4, <2>5 DEF TickStep, BeginCount, FindReady,
       FindUnready, EndCount, BeginTick, StartGame, TimeCheck, ProcessOrphan,
       ProcessIncomplete, ProcessVote, SendUpdate, ActionsDone, CatMisses, CatsDone,
       BuildUpdate, EndTick, miceVars
<1>6. CASE Clock
  BY <1>1, <1>6, ClockFrame DEF miceVars
<1> QED
  BY <1>2, <1>3, <1>4, <1>5, <1>6 DEF Next

\* On any field whose doors and spawn points lie within their tunnels, a mouse
\* whose level is a tunnel is at a position within that tunnel.
THEOREM UndergroundCorrect == Spec => []UndergroundInTunnel
<1>1. Init => UndergroundInTunnel
  BY DEF Init, UndergroundInTunnel
<1>2. TypeInv /\ UndergroundInTunnel /\ [Next]_vars => UndergroundInTunnel'
  BY UndergroundStep
<1> QED
  BY <1>1, <1>2, TypeInvariant, PTL DEF Spec

\* Whoever comes up from a tunnel stands in a door of that very tunnel.
THEOREM LeavesByOwnDoorCorrect == Spec => LeavesByOwnDoor
<1> DEFINE Leaving == \A m \in mice : level[m] # Surface /\ level'[m] = Surface
                                       => place[m] \in DoorsOf[level[m]]
<1>1. TypeInv /\ UndergroundInTunnel /\ [Next]_vars => [Leaving]_vars
  <2> SUFFICES ASSUME TypeInv, UndergroundInTunnel, Next,
                      NEW m \in mice, level[m] # Surface, level'[m] = Surface
               PROVE  place[m] \in DoorsOf[level[m]]
    OBVIOUS
  <2>1. m \in Clients /\ level[m] \in Tunnels /\ place[m] \in CellsOf[level[m]]
    BY DEF TypeInv, TypeOK, GameTypeOK, UndergroundInTunnel
  <2>2. \A t \in Tunnels : t # Surface
    BY LevelAssumption DEF Surface
  <2>3. ASSUME NEW c \in Clients, ClientStep(c) PROVE FALSE
    BY <2>3, ClientFrame DEF miceVars
  <2>4. ASSUME NEW c \in Clients, HandlerStep(c) PROVE FALSE
    <3>1. CASE AddMouse(c)
      <4>1. chosen[c] \in Tunnels
        BY <3>1 DEF AddMouse, TypeInv, PutHasTunnel
      <4> QED
        BY <2>1, <2>2, <3>1, <4>1 DEF AddMouse, TypeInv, TypeOK, GameTypeOK
    <3>2. CASE ~AddMouse(c)
      BY <2>4, <3>2 DEF HandlerStep, Accept, ReadRegister, ChooseTunnel, AddClient,
         AnswerId, ReadReady, ReadyVisible, HandshakeEnds, ReadAction, ActionLoopEnds,
         miceVars
    <3> QED
      BY <3>1, <3>2
  <2>5. ASSUME TickStep PROVE place[m] \in DoorsOf[level[m]]
    <3>1. ASSUME NEW c \in Clients, ProcessLevelChange(c)
          PROVE  place[m] \in DoorsOf[level[m]]
      <4>1. PICK t \in DoorTunnels(place[c]) :
                   IF level[c] = Surface THEN level' = [level EXCEPT ![c] = t]
                                         ELSE level' = [level EXCEPT ![c] = Surface]
        BY <3>1 DEF ProcessLevelChange
      <4>2. t \in Tunnels /\ place[c] \in DoorsOf[t]
        BY DEF DoorTunnels
      <4>3. c = m
        BY <2>1, <4>1, <4>2 DEF TypeInv, TypeOK, GameTypeOK
      <4>4. level[m] = t
        BY <2>1, <4>2, <4>3, Geometry
      <4> QED
        BY <4>2, <4>3, <4>4
    <3>2. ASSUME NEW c \in Clients, CatCatches(c) PROVE FALSE
      BY <2>1, <2>2, <3>2 DEF CatCatches, RespawnTunnels, TypeInv, TypeOK, GameTypeOK
    <3>3. CASE UNCHANGED level
      BY <3>3
    <3> QED
      BY <2>5, <3>1, <3>2, <3>3 DEF TickStep, BeginCount, FindReady, FindUnready,
         EndCount, BeginTick, StartGame, TimeCheck, ProcessOrphan, ProcessIncomplete,
         ProcessDirection, ProcessVote, SendUpdate, ActionsDone, CatMisses, CatsDone,
         CheckState, BuildUpdate, EndTick, miceVars
  <2>6. CASE Clock
    BY <2>6, ClockFrame DEF miceVars
  <2> QED
    BY <2>3, <2>4, <2>5, <2>6 DEF Next
<1> QED
  BY <1>1, TypeInvariant, UndergroundCorrect, PTL DEF Spec, LeavesByOwnDoor

-----------------------------------------------------------------------------
(* The start of the game.                                                  *)

StartInv ==
    /\ ~started => tick \in {"idle", "count", "start"}
    /\ tick \in {"count", "start"} => ~started
    /\ \A c \in Clients : ready[c] # "no" => c \in clients /\ pc[c] \in {"play", "gone"}

LEMMA StartStep ==
    ASSUME TypeInv, RegistrationInv, StartInv, [Next]_vars
    PROVE  StartInv'
<1> USE DEF StartInv
<1>1. ASSUME UNCHANGED <<started, tick, pc, ready, clients>> PROVE StartInv'
  BY <1>1
<1>2. CASE UNCHANGED vars
  BY <1>1, <1>2 DEF vars, handlerVars, tickVars, gameVars
<1>3. ASSUME NEW c \in Clients, ClientStep(c) PROVE StartInv'
  BY <1>1, <1>3, ClientFrame DEF handlerVars, tickVars, gameVars
<1>4. ASSUME NEW c \in Clients, HandlerStep(c) PROVE StartInv'
  <2>1. CASE AddClient(c)
    BY <2>1 DEF AddClient, Goto, gameVars, TypeInv, TypeOK, HandlerTypeOK
  <2>2. CASE ReadReady(c)
    BY <2>2 DEF ReadReady, AfterReady, AfterMisfit, Goto, tickVars, gameVars,
       RegistrationInv, TypeInv, TypeOK, HandlerTypeOK
  <2>3. CASE ReadyVisible(c)
    BY <2>3 DEF ReadyVisible, tickVars, gameVars, TypeInv, TypeOK, HandlerTypeOK
  <2>4. CASE ActionLoopEnds(c)
    BY <2>4 DEF ActionLoopEnds, Goto, tickVars, gameVars, TypeInv, TypeOK, HandlerTypeOK
  <2>5. CASE HandshakeEnds(c)
    BY <2>5 DEF HandshakeEnds, Goto, tickVars, gameVars, TypeInv, TypeOK, HandlerTypeOK
  <2>6. ASSUME UNCHANGED <<started, tick, ready, clients>>,
               pc[c] \notin {"play", "gone"}, NEW l, Goto(c, l)
        PROVE  StartInv'
    BY <2>6 DEF Goto, TypeInv, TypeOK, HandlerTypeOK
  <2>7. CASE ReadAction(c)
    BY <1>1, <2>7 DEF ReadAction, handlerVars, tickVars, gameVars
  <2>8. CASE Accept(c) \/ ReadRegister(c) \/ ChooseTunnel(c) \/ AddMouse(c) \/ AnswerId(c)
    BY <2>6, <2>8 DEF Accept, ReadRegister, ChooseTunnel, AddMouse, AnswerId, tickVars,
       gameVars
  <2> QED
    BY <1>4, <2>1, <2>2, <2>3, <2>4, <2>5, <2>7, <2>8 DEF HandlerStep
<1>5. CASE TickStep
  <2>1. UNCHANGED <<pc, ready, clients>>
    BY <1>5, TickFrame DEF handlerVars
  <2>2. /\ ~started' => tick' \in {"idle", "count", "start"}
        /\ tick' \in {"count", "start"} => ~started'
    BY <1>5 DEF TickStep, BeginCount, FindReady, FindUnready, EndCount, AfterCount,
       BeginTick, StartGame, TimeCheck, ProcessOrphan, ProcessIncomplete,
       ProcessDirection, ProcessVote, ProcessLevelChange, Poll, CatCatches, SendUpdate,
       ActionsDone, CatMisses, CatsDone, CheckState, BuildUpdate, EndTick, tickVars,
       gameVars
  <2> QED
    BY <2>1, <2>2
<1>6. CASE Clock
  BY <1>1, <1>6, ClockFrame DEF handlerVars, tickVars
<1> QED
  BY <1>2, <1>3, <1>4, <1>5, <1>6 DEF Next

LEMMA StartCorrect == Spec => [](TypeInv /\ RegistrationInv /\ StartInv)
<1>1. Init => RegistrationInv /\ StartInv
  BY DEF Init, RegistrationInv, ClientsHaveMice, StartInv
<1>2. TypeInv /\ RegistrationInv /\ StartInv /\ [Next]_vars
      => RegistrationInv' /\ StartInv'
  BY RegistrationStep, StartStep
<1> QED
  BY <1>1, <1>2, TypeInvariant, PTL DEF Spec

\* The count of allClientsReady: it begins with nobody, has or had somebody to
\* come to, and whom it has found ready stays so.
CountInv ==
    /\ ~started /\ tick = "idle" => starters = {}
    /\ tick = "count" => starters \cup pending # {}
    /\ \A c \in starters : ready[c] = "seen"
    /\ \A c \in clients : pc[c] \in {"answer", "await", "play", "gone"}

LEMMA CountStep ==
    ASSUME TypeInv, StartInv, CountInv, [Next]_vars
    PROVE  CountInv'
<1> USE DEF CountInv
<1>1. ASSUME UNCHANGED <<started, tick, starters, pending, ready, clients, pc>>
      PROVE  CountInv'
  BY <1>1
<1>2. CASE UNCHANGED vars
  BY <1>1, <1>2 DEF vars, handlerVars, tickVars, gameVars
<1>3. ASSUME NEW c \in Clients, ClientStep(c) PROVE CountInv'
  BY <1>1, <1>3, ClientFrame DEF handlerVars, tickVars, gameVars
<1>4. ASSUME NEW c \in Clients, HandlerStep(c) PROVE CountInv'
  <2>1. CASE AddClient(c)
    <3>1. /\ UNCHANGED <<started, tick, starters, ready>>
          /\ pending \subseteq pending'
      BY <2>1 DEF AddClient, gameVars
    <3>2. clients' = clients \cup {c} /\ Goto(c, "answer")
      BY <2>1 DEF AddClient
    <3>3. \A d \in clients' : pc'[d] \in {"answer", "await", "play", "gone"}
      BY <3>2 DEF Goto, TypeInv, TypeOK, HandlerTypeOK
    <3> QED
      BY <3>1, <3>3
  <2>2. CASE ReadReady(c)
    <3>1. c \notin starters
      BY <2>2 DEF ReadReady, StartInv
    <3>2. \A d \in clients' : pc'[d] \in {"answer", "await", "play", "gone"}
      BY <2>2 DEF ReadReady, AfterReady, AfterMisfit, Goto, TypeInv, TypeOK,
         HandlerTypeOK
    <3> QED
      BY <2>2, <3>1, <3>2 DEF ReadReady, tickVars, gameVars, TypeInv, TypeOK,
         HandlerTypeOK, TickTypeOK
  <2>3. CASE ReadyVisible(c)
    BY <2>3 DEF ReadyVisible, tickVars, gameVars, TypeInv, TypeOK, HandlerTypeOK
  <2>4. ASSUME UNCHANGED <<started, tick, starters, pending, ready, clients>>,
               \/ pc[c] \in {"none", "register", "choose", "put", "add"}
               \/ pc'[c] \in {"answer", "await", "play", "gone"},
               NEW l, Goto(c, l)
        PROVE  CountInv'
    BY <2>4 DEF Goto, TypeInv, TypeOK, HandlerTypeOK
  <2>5. CASE ReadAction(c)
    BY <1>1, <2>5 DEF ReadAction, handlerVars, tickVars, gameVars
  <2>6. CASE Accept(c) \/ ReadRegister(c) \/ ChooseTunnel(c) \/ AddMouse(c)
    BY <2>4, <2>6 DEF Accept, ReadRegister, ChooseTunnel, AddMouse, tickVars, gameVars
  <2>7. ASSUME NEW l \in {"await", "gone"}, Goto(c, l),
               UNCHANGED <<started, tick, starters, pending, ready, clients>>
        PROVE  CountInv'
    BY <2>7 DEF Goto, TypeInv, TypeOK, HandlerTypeOK
  <2>8. CASE AnswerId(c) \/ HandshakeEnds(c) \/ ActionLoopEnds(c)
    BY <2>7, <2>8 DEF AnswerId, HandshakeEnds, ActionLoopEnds, tickVars, gameVars
  <2> QED
    BY <1>4, <2>1, <2>2, <2>3, <2>5, <2>6, <2>8 DEF HandlerStep
<1>5. CASE TickStep
  <2>1. UNCHANGED <<pc, ready, clients>>
    BY <1>5, TickFrame DEF handlerVars
  <2>2. CASE BeginCount
    BY <2>1, <2>2 DEF BeginCount, HasClients, gameVars
  <2>3. ASSUME NEW c \in Clients, FindReady(c) PROVE CountInv'
    BY <2>1, <2>3 DEF FindReady, IsReady, gameVars
  <2>4. ASSUME NEW c \in Clients, FindUnready(c) PROVE CountInv'
    BY <2>1, <2>4 DEF FindUnready, gameVars
  <2>5. ASSUME UNCHANGED starters, tick' # "count", tick' = "idle" => started'
        PROVE  CountInv'
    BY <2>1, <2>5
  <2>6. CASE EndCount \/ BeginTick \/ StartGame \/ TimeCheck
    BY <2>5, <2>6 DEF EndCount, AfterCount, BeginTick, StartGame, TimeCheck
  <2>7. ASSUME NEW c \in Clients,
               \/ ProcessOrphan(c) \/ ProcessIncomplete(c) \/ ProcessDirection(c)
               \/ ProcessVote(c) \/ ProcessLevelChange(c) \/ CatCatches(c)
               \/ SendUpdate(c)
        PROVE  CountInv'
    BY <2>5, <2>7 DEF ProcessOrphan, ProcessIncomplete, ProcessDirection, ProcessVote,
       ProcessLevelChange, Poll, CatCatches, SendUpdate, tickVars
  <2>8. CASE ActionsDone \/ CatMisses \/ CatsDone \/ CheckState \/ BuildUpdate
    BY <2>5, <2>8 DEF ActionsDone, CatMisses, CatsDone, CheckState, BuildUpdate
  <2>9. CASE EndTick
    BY <2>5, <2>9 DEF EndTick, StartInv, gameVars, TypeInv, TypeOK, GameTypeOK
  <2> QED
    BY <1>5, <2>2, <2>3, <2>4, <2>6, <2>7, <2>8, <2>9 DEF TickStep
<1>6. CASE Clock
  BY <1>1, <1>6, ClockFrame DEF handlerVars, tickVars
<1> QED
  BY <1>2, <1>3, <1>4, <1>5, <1>6 DEF Next

LEMMA CountCorrect == Spec => []CountInv
<1>1. Init => CountInv
  BY DEF Init, CountInv
<1>2. TypeInv /\ StartInv /\ CountInv /\ [Next]_vars => CountInv'
  BY CountStep
<1> QED
  BY <1>1, <1>2, StartCorrect, PTL DEF Spec

-----------------------------------------------------------------------------
(* The id before the updates.                                              *)

IdInv ==
    /\ \A c \in Clients : pc[c] = "await" \/ ready[c] # "no" => first[c] # "none"
    /\ ~started => \A c \in Clients : first[c] # "state"
    /\ StartersGetIdFirst

LEMMA IdStep ==
    ASSUME TypeInv, StartInv, IdInv, [Next]_vars
    PROVE  IdInv'
<1> USE DEF IdInv, StartersGetIdFirst
<1>1. ASSUME UNCHANGED <<pc, ready, first, started, starters>> PROVE IdInv'
  BY <1>1
<1>2. ASSUME NEW c \in Clients, UNCHANGED <<ready, first, started, starters>>,
             NEW l \in {"register", "choose", "put", "add", "answer", "play", "gone"},
             Goto(c, l)
      PROVE  IdInv'
  BY <1>2 DEF Goto, TypeInv, TypeOK, HandlerTypeOK
<1>3. CASE UNCHANGED vars
  BY <1>1, <1>3 DEF vars, lineVars, handlerVars, tickVars, gameVars
<1>4. ASSUME NEW c \in Clients, ClientStep(c) PROVE IdInv'
  BY <1>1, <1>4, ClientFrame DEF handlerVars, tickVars, gameVars
<1>5. ASSUME NEW c \in Clients, HandlerStep(c) PROVE IdInv'
  <2>1. CASE Accept(c)
    BY <1>2, <2>1 DEF Accept, lineVars, tickVars, gameVars
  <2>2. CASE ReadRegister(c)
    BY <1>2, <2>2 DEF ReadRegister, AfterRegister, AfterMisfit, tickVars, gameVars
  <2>3. CASE ChooseTunnel(c)
    BY <1>2, <2>3 DEF ChooseTunnel, lineVars, tickVars, gameVars
  <2>4. CASE AddMouse(c)
    BY <1>2, <2>4 DEF AddMouse, lineVars, tickVars, gameVars
  <2>5. CASE AddClient(c)
    BY <1>2, <2>5 DEF AddClient, lineVars, gameVars
  <2>6. CASE AnswerId(c)
    BY <2>6 DEF AnswerId, FirstLine, Goto, tickVars, gameVars, TypeInv, TypeOK,
       SocketTypeOK, HandlerTypeOK, TickTypeOK
  <2>7. CASE ReadReady(c)
    BY <2>7 DEF ReadReady, AfterReady, AfterMisfit, Goto, tickVars, gameVars, TypeInv, TypeOK, HandlerTypeOK
  <2>8. CASE ReadyVisible(c)
    BY <2>8 DEF ReadyVisible, lineVars, tickVars, gameVars, TypeInv, TypeOK,
       HandlerTypeOK
  <2>9. CASE HandshakeEnds(c)
    BY <1>2, <2>9 DEF HandshakeEnds, lineVars, tickVars, gameVars
  <2>10. CASE ReadAction(c)
    BY <1>1, <2>10 DEF ReadAction, handlerVars, tickVars, gameVars
  <2>11. CASE ActionLoopEnds(c)
    BY <1>2, <2>11 DEF ActionLoopEnds, lineVars, tickVars, gameVars
  <2> QED
    BY <1>5, <2>1, <2>2, <2>3, <2>4, <2>5, <2>6, <2>7, <2>8, <2>9, <2>10, <2>11
    DEF HandlerStep
<1>6. CASE TickStep
  <2>1. UNCHANGED <<pc, ready>>
    BY <1>6, TickFrame DEF handlerVars
  <2>2. ASSUME NEW c \in Clients, FindReady(c) \/ FindUnready(c) PROVE IdInv'
    <3>1. tick = "count" /\ UNCHANGED <<first, started>>
      BY <2>2 DEF FindReady, FindUnready, lineVars, gameVars
    <3>2. ~started
      BY <3>1 DEF StartInv
    <3>3. FindReady(c) => first[c] = "id"
      BY <3>2 DEF FindReady, IsReady, TypeInv, TypeOK, SocketTypeOK
    <3> QED
      BY <2>1, <2>2, <3>1, <3>2, <3>3 DEF FindReady, FindUnready
  <2>3. CASE StartGame
    BY <2>1, <2>3 DEF StartGame, lineVars
  <2>4. ASSUME NEW c \in Clients, SendUpdate(c) PROVE IdInv'
    <3>1. started
      BY <2>4 DEF SendUpdate, StartInv, TypeInv, TypeOK, GameTypeOK
    <3> QED
      BY <2>1, <2>4, <3>1 DEF SendUpdate, FirstLine, gameVars, TypeInv, TypeOK,
         SocketTypeOK, TickTypeOK
  <2>5. CASE UNCHANGED <<first, started, starters>>
    BY <1>1, <2>1, <2>5
  <2> QED
    BY <1>6, <2>2, <2>3, <2>4, <2>5 DEF TickStep, BeginCount, EndCount, BeginTick,
       TimeCheck, ProcessOrphan, ProcessIncomplete, ProcessDirection, ProcessVote,
       ProcessLevelChange, CatCatches, ActionsDone, CatMisses, CatsDone, CheckState,
       BuildUpdate, EndTick, lineVars, tickVars, gameVars
<1>7. CASE Clock
  BY <1>1, <1>7, ClockFrame DEF lineVars, handlerVars, tickVars
<1> QED
  BY <1>3, <1>4, <1>5, <1>6, <1>7 DEF Next

\* The clients that a count has found to be ready have all read their id,
\* and no update before it (ClientManager.handshake against broadcast).
THEOREM StartersGetIdFirstCorrect == Spec => []StartersGetIdFirst
<1>1. Init => IdInv
  BY DEF Init, IdInv, StartersGetIdFirst
<1>2. TypeInv /\ StartInv /\ IdInv /\ [Next]_vars => IdInv'
  BY IdStep
<1>3. IdInv => StartersGetIdFirst
  BY DEF IdInv
<1> QED
  BY <1>1, <1>2, <1>3, StartCorrect, PTL DEF Spec

-----------------------------------------------------------------------------
(* Everybody the start waited for is in the updates.                       *)

ShownInv == starters \subseteq clients /\ StartersSeeThemselves

LEMMA ShownStep ==
    ASSUME TypeInv, RegistrationInv, StartInv, ShownInv, [Next]_vars
    PROVE  ShownInv'
<1> USE DEF ShownInv, StartersSeeThemselves
<1>1. ASSUME UNCHANGED <<starters, shown>>, clients \subseteq clients',
             tick' = "send" => tick = "send"
      PROVE  ShownInv'
  BY <1>1
<1>2. CASE UNCHANGED vars
  BY <1>1, <1>2 DEF vars, tickVars
<1>3. ASSUME NEW c \in Clients, ClientStep(c) PROVE ShownInv'
  BY <1>1, <1>3, ClientFrame DEF tickVars
<1>4. ASSUME NEW c \in Clients, HandlerStep(c) PROVE ShownInv'
  BY <1>1, <1>4 DEF HandlerStep, Accept, ReadRegister, ChooseTunnel, AddMouse, AddClient,
     AnswerId, ReadReady, ReadyVisible, HandshakeEnds, ReadAction, ActionLoopEnds, tickVars
<1>5. CASE TickStep
  <2>1. UNCHANGED clients
    BY <1>5, TickFrame
  <2>2. ASSUME NEW c \in Clients, FindReady(c) \/ FindUnready(c) PROVE ShownInv'
    BY <2>1, <2>2 DEF FindReady, FindUnready, IsReady, StartInv
  <2>3. CASE BuildUpdate
    BY <2>1, <2>3 DEF BuildUpdate, MappedMice, RegistrationInv, ClientsHaveMice
  <2>4. CASE EndTick
    BY <2>1, <2>4 DEF EndTick
  <2>5. CASE UNCHANGED <<starters, shown>> /\ (tick' = "send" => tick = "send")
    BY <1>1, <2>1, <2>5
  <2> QED
    BY <1>5, <2>2, <2>3, <2>4, <2>5 DEF TickStep, BeginCount, EndCount, AfterCount,
       BeginTick, StartGame, TimeCheck, ProcessOrphan, ProcessIncomplete,
       ProcessDirection, ProcessVote, ProcessLevelChange, Poll, CatCatches, SendUpdate,
       ActionsDone, CatMisses, CatsDone, CheckState, tickVars
<1>6. CASE Clock
  BY <1>1, <1>6, ClockFrame DEF tickVars
<1> QED
  BY <1>2, <1>3, <1>4, <1>5, <1>6 DEF Next

\* The update is built before the clients are iterated, yet a client that the
\* start waited for finds its own mouse in every update.
THEOREM StartersSeeThemselvesCorrect == Spec => []StartersSeeThemselves
<1>1. Init => ShownInv
  BY DEF Init, ShownInv, StartersSeeThemselves
<1>2. TypeInv /\ RegistrationInv /\ StartInv /\ ShownInv /\ [Next]_vars => ShownInv'
  BY ShownStep
<1>3. ShownInv => StartersSeeThemselves
  BY DEF ShownInv
<1> QED
  BY <1>1, <1>2, <1>3, StartCorrect, PTL DEF Spec

-----------------------------------------------------------------------------
(* The lobby.                                                              *)

LobbyInv ==
    /\ LobbyIsQuiet
    /\ ~started => \A t \in Tunnels : snaps[t] = "none"

LEMMA LobbyStep ==
    ASSUME TypeInv, StartInv, LobbyInv, [Next]_vars
    PROVE  LobbyInv'
<1> USE DEF LobbyInv, LobbyIsQuiet
<1>1. ASSUME UNCHANGED <<gameVars, first, miceVars>> PROVE LobbyInv'
  BY <1>1 DEF gameVars, miceVars
<1>2. CASE UNCHANGED vars
  BY <1>1, <1>2 DEF vars, lineVars
<1>3. ASSUME NEW c \in Clients, ClientStep(c) PROVE LobbyInv'
  BY <1>1, <1>3, ClientFrame
<1>4. ASSUME NEW c \in Clients, HandlerStep(c) PROVE LobbyInv'
  <2>1. CASE AddMouse(c)
    <3>1. chosen[c] \in Tunnels
      BY <2>1 DEF AddMouse, TypeInv, PutHasTunnel
    <3>2. PICK p \in SpawnOf[chosen[c]] : place' = [place EXCEPT ![c] = p]
      BY <2>1 DEF AddMouse
    <3> QED
      BY <2>1, <3>1, <3>2 DEF AddMouse, lineVars, gameVars, TypeInv, TypeOK, GameTypeOK
  <2>2. CASE AnswerId(c)
    BY <2>2 DEF AnswerId, FirstLine, gameVars, miceVars, TypeInv, TypeOK, SocketTypeOK
  <2>3. CASE UNCHANGED <<gameVars, first, miceVars>>
    BY <1>1, <2>3
  <2> QED
    BY <1>4, <2>1, <2>2, <2>3 DEF HandlerStep, Accept, ReadRegister, ChooseTunnel,
       AddClient, ReadReady, ReadyVisible, HandshakeEnds, ReadAction, ActionLoopEnds,
       lineVars
<1>5. CASE TickStep
  <2>1. CASE started
    <3>1. started'
      BY <1>5, <2>1 DEF TickStep, BeginCount, FindReady, FindUnready, EndCount,
         BeginTick, StartGame, TimeCheck, ProcessOrphan, ProcessIncomplete,
         ProcessDirection, ProcessVote, ProcessLevelChange, CatCatches, SendUpdate,
         ActionsDone, CatMisses, CatsDone, CheckState, BuildUpdate, EndTick, gameVars
    <3> QED
      BY <3>1
  <2>2. CASE ~started
    <3>1. tick \in {"idle", "count", "start"}
      BY <2>2 DEF StartInv
    <3>2. \/ BeginCount \/ EndCount \/ BeginTick \/ StartGame
          \/ \E c \in Clients : FindReady(c) \/ FindUnready(c)
      BY <1>5, <3>1 DEF TickStep, TimeCheck, ProcessOrphan, ProcessIncomplete,
         ProcessDirection, ProcessVote, ProcessLevelChange, Poll, CatCatches, SendUpdate,
         ActionsDone, CatMisses, CatsDone, CheckState, BuildUpdate, EndTick
    <3>3. CASE \/ BeginCount \/ EndCount \/ BeginTick
               \/ \E c \in Clients : FindReady(c) \/ FindUnready(c)
      BY <1>1, <3>3 DEF BeginCount, FindReady, FindUnready, EndCount, BeginTick, lineVars
    <3>4. CASE StartGame
      BY <3>4 DEF StartGame
    <3> QED
      BY <3>2, <3>3, <3>4
  <2> QED
    BY <2>1, <2>2
<1>6. CASE Clock
  <2>1. CASE GameTimeEnds
    BY <2>1 DEF GameTimeEnds
  <2>2. ASSUME NEW t \in Tunnels, SnapshotExpires(t) PROVE started'
    BY <2>2 DEF SnapshotExpires, LobbyInv, TypeInv, TypeOK, GameTypeOK
  <2> QED
    BY <1>6, <2>1, <2>2 DEF Clock
<1> QED
  BY <1>2, <1>3, <1>4, <1>5, <1>6 DEF Next

\* Before the game starts nothing is sent and nobody moves, although handlers
\* register mice and queue actions all the time.
THEOREM LobbyIsQuietCorrect == Spec => []LobbyIsQuiet
<1>1. Init => LobbyInv
  BY DEF Init, LobbyInv, LobbyIsQuiet
<1>2. TypeInv /\ StartInv /\ LobbyInv /\ [Next]_vars => LobbyInv'
  BY LobbyStep
<1>3. LobbyInv => LobbyIsQuiet
  BY DEF LobbyInv
<1> QED
  BY <1>1, <1>2, <1>3, StartCorrect, PTL DEF Spec

-----------------------------------------------------------------------------
(* Refinement: the server implements GameLifecycle.                        *)

LEMMA LifecycleStep ==
    ASSUME TypeInv, StartInv, CountInv, [Next]_vars
    PROVE  [Lifecycle!LifecycleNext]_(Lifecycle!lifecycleVars)
<1> USE DEF Lifecycle!LifecycleNext, Lifecycle!lifecycleVars
<1>1. ASSUME UNCHANGED <<clients, ready, starters, pending, started, tick, status>>
      PROVE  UNCHANGED Lifecycle!lifecycleVars
  BY <1>1
<1>2. CASE UNCHANGED vars
  BY <1>1, <1>2 DEF vars, handlerVars, tickVars, gameVars
<1>3. ASSUME NEW c \in Clients, ClientStep(c) PROVE UNCHANGED Lifecycle!lifecycleVars
  BY <1>1, <1>3, ClientFrame DEF handlerVars, tickVars, gameVars
<1>4. ASSUME NEW c \in Clients, HandlerStep(c)
      PROVE  [Lifecycle!LifecycleNext]_(Lifecycle!lifecycleVars)
  <2>1. CASE AddClient(c)
    <3>1. c \notin clients
      BY <2>1 DEF AddClient, CountInv
    <3>2. CASE tick = "count"
      <4>1. ~started
        BY <3>2 DEF StartInv
      <4>2. starters \cup (pending \cup {c}) = (starters \cup pending) \cup {c}
        OBVIOUS
      <4>3. Lifecycle!Join(c)
        BY <2>1, <3>1, <3>2, <4>1, <4>2 DEF AddClient, gameVars, Lifecycle!Join
      <4> QED
        BY <4>3
    <3>3. CASE tick # "count"
      <4>1. Lifecycle!Join(c)
        BY <2>1, <3>1, <3>3 DEF AddClient, gameVars, Lifecycle!Join
      <4> QED
        BY <4>1
    <3> QED
      BY <3>2, <3>3
  <2>2. CASE ReadReady(c)
    <3>1. ready[c] = "no"
      BY <2>2 DEF ReadReady, StartInv, TypeInv, TypeOK, HandlerTypeOK
    <3>2. {d \in Clients : ready'[d] = "seen"} = {d \in Clients : ready[d] = "seen"}
      BY <2>2, <3>1 DEF ReadReady, TypeInv, TypeOK, HandlerTypeOK
    <3> QED
      BY <2>2, <3>2 DEF ReadReady, tickVars, gameVars
  <2>3. CASE ReadyVisible(c)
    <3>1. {d \in Clients : ready'[d] = "seen"} = {d \in Clients : ready[d] = "seen"} \cup {c}
      BY <2>3 DEF ReadyVisible, TypeInv, TypeOK, HandlerTypeOK
    <3>2. c \in clients /\ ready[c] # "seen"
      BY <2>3 DEF ReadyVisible, StartInv
    <3>3. Lifecycle!Prepare(c)
      BY <2>3, <3>1, <3>2 DEF ReadyVisible, tickVars, gameVars, Lifecycle!Prepare
    <3> QED
      BY <3>3
  <2>4. CASE UNCHANGED <<clients, ready, starters, pending, started, tick, status>>
    BY <1>1, <2>4
  <2> QED
    BY <1>4, <2>1, <2>2, <2>3, <2>4 DEF HandlerStep, Accept, ReadRegister, ChooseTunnel,
       AddMouse, AnswerId, HandshakeEnds, ReadAction, ActionLoopEnds, handlerVars,
       tickVars, gameVars
<1>5. ASSUME TickStep PROVE [Lifecycle!LifecycleNext]_(Lifecycle!lifecycleVars)
  <2>1. UNCHANGED <<clients, ready>>
    BY <1>5, TickFrame DEF handlerVars
  <2>2. CASE BeginCount
    <3>1. starters = {}
      BY <2>2 DEF BeginCount, CountInv
    <3>2. Lifecycle!StartCount
      BY <2>1, <2>2, <3>1 DEF BeginCount, HasClients, gameVars, Lifecycle!StartCount
    <3> QED
      BY <3>2
  <2>10. ASSUME NEW c \in Clients, FindReady(c)
         PROVE  UNCHANGED Lifecycle!lifecycleVars
    <3>1. (starters \cup {c}) \cup (pending \ {c}) = starters \cup pending
      BY <2>10 DEF FindReady
    <3>2. tick = "count" /\ UNCHANGED <<tick, started, status>>
      BY <2>10 DEF FindReady, gameVars
    <3>3. starters' \cup pending' = starters \cup pending
      BY <2>10, <3>1 DEF FindReady
    <3> QED
      BY <2>1, <3>2, <3>3
  <2>11. ASSUME NEW c \in Clients, FindUnready(c)
         PROVE  [Lifecycle!LifecycleNext]_(Lifecycle!lifecycleVars)
    <3>1. ~started
      BY <2>11 DEF FindUnready, StartInv
    <3>2. Lifecycle!GiveUpCount
      BY <2>1, <2>11, <3>1 DEF FindUnready, gameVars, Lifecycle!GiveUpCount
    <3> QED
      BY <3>2
  <2>12. CASE EndCount
    <3>1. ~started /\ pending = {} /\ starters # {}
      BY <2>12 DEF EndCount, AllMatched, StartInv, CountInv
    <3>2. starters \subseteq {c \in Clients : ready[c] = "seen"}
      BY DEF CountInv, TypeInv, TypeOK, TickTypeOK
    <3>3. Lifecycle!EndCount
      BY <2>1, <2>12, <3>1, <3>2 DEF EndCount, AfterCount, gameVars, Lifecycle!EndCount
    <3> QED
      BY <3>3
  <2>3. CASE StartGame
    <3>1. Lifecycle!Begin
      BY <2>1, <2>3 DEF StartGame, StartInv, Lifecycle!Begin
    <3> QED
      BY <3>1
  <2>4. ASSUME tick \in {"time", "check"}, tick' \in {"actions", "broadcast"},
               UNCHANGED <<starters, started>>,
               status' \in {status, "TIME_OUT", "MICE_WON"}
        PROVE  [Lifecycle!LifecycleNext]_(Lifecycle!lifecycleVars)
    <3>1. started
      BY <2>4 DEF StartInv, TypeInv, TypeOK, GameTypeOK
    <3>2. status' = status \/ Lifecycle!Decide
      BY <2>1, <2>4, <3>1 DEF Lifecycle!Decide
    <3> QED
      BY <2>1, <2>4, <3>1, <3>2
  <2>5. CASE TimeCheck
    BY <2>4, <2>5 DEF TimeCheck, StatusByTime
  <2>6. CASE CheckState
    BY <2>4, <2>6 DEF CheckState
  <2>7. ASSUME UNCHANGED <<starters, started, status>>,
               tick \notin {"count", "start"}, tick' \notin {"count", "start"}
        PROVE  UNCHANGED Lifecycle!lifecycleVars
    BY <2>1, <2>7
  <2>8. ASSUME NEW c \in Clients,
               \/ ProcessOrphan(c) \/ ProcessIncomplete(c) \/ ProcessDirection(c)
               \/ ProcessVote(c) \/ ProcessLevelChange(c) \/ CatCatches(c)
               \/ SendUpdate(c)
        PROVE  UNCHANGED Lifecycle!lifecycleVars
    BY <2>7, <2>8 DEF ProcessOrphan, ProcessIncomplete, ProcessDirection, ProcessVote,
       ProcessLevelChange, Poll, CatCatches, SendUpdate, tickVars, gameVars
  <2>9. CASE BeginTick \/ ActionsDone \/ CatMisses \/ CatsDone \/ BuildUpdate \/ EndTick
    BY <2>7, <2>9 DEF BeginTick, ActionsDone, CatMisses, CatsDone, BuildUpdate, EndTick,
       gameVars
  <2> QED
    BY <1>5, <2>2, <2>3, <2>5, <2>6, <2>8, <2>9, <2>10, <2>11, <2>12 DEF TickStep
<1>6. CASE Clock
  BY <1>1, <1>6, ClockFrame DEF handlerVars, tickVars
<1> QED
  BY <1>2, <1>3, <1>4, <1>5, <1>6 DEF Next

\* The server implements the abstract course of a game: nobody who had joined
\* when the count began is left out of it, although the set is read one client
\* at a time, the game begins once, and its outcome is never again RUNNING once
\* it was decided.
THEOREM ImplementsLifecycleCorrect == Spec => ImplementsLifecycle
<1>1. Init => Lifecycle!LifecycleInit
  BY DEF Init, Lifecycle!LifecycleInit
<1>2. TypeInv /\ StartInv /\ CountInv /\ [Next]_vars
      => [Lifecycle!LifecycleNext]_(Lifecycle!lifecycleVars)
  BY LifecycleStep
<1> QED
  BY <1>1, <1>2, StartCorrect, CountCorrect, PTL DEF Spec, ImplementsLifecycle, Lifecycle!LifecycleSpec

-----------------------------------------------------------------------------
(* The tick thread survives the clients that register.                     *)

(* A client that is no Garbler is registered before its action loop begins,*)
(* because its first line, which is REGISTER, cannot get lost while it is  *)
(* connected.                                                              *)
HandshakeInv ==
    \A c \in Clients \ Garblers :
        /\ pc[c] \in {"none", "register"} =>
             /\ ahead[c] = << >>
             /\ inbox[c] # << >> => Head(inbox[c]) = "REGISTER"
             /\ Connected(c) => inbox[c] # << >>
        /\ pc[c] = "play" => c \in mice

LEMMA SendHead ==
    ASSUME NEW c \in Clients, NEW line \in Line, SocketTypeOK, Send(c, line)
    PROVE  /\ inbox'[c] # << >>
           /\ Head(inbox'[c]) = IF inbox[c] = << >> THEN line ELSE Head(inbox[c])
           /\ \A d \in Clients \ {c} : inbox'[d] = inbox[d]
<1>1. inbox[c] \in Seq(Line) /\ inbox'[c] = Append(inbox[c], line)
  BY DEF Send, SocketTypeOK
<1>2. inbox'[c] # << >> /\ Len(inbox'[c]) = Len(inbox[c]) + 1
  BY <1>1, AppendProperties
<1>3. Head(inbox'[c]) = IF inbox[c] = << >> THEN line ELSE Head(inbox[c])
  <2>1. CASE inbox[c] = << >>
    BY <1>1, <2>1, AppendProperties
  <2>2. CASE inbox[c] # << >>
    BY <1>1, <2>2, AppendProperties
  <2> QED
    BY <2>1, <2>2
<1> QED
  BY <1>2, <1>3 DEF Send, SocketTypeOK

LEMMA HandshakeStep ==
    ASSUME TypeInv, RegistrationInv, HandshakeInv, [Next]_vars
    PROVE  HandshakeInv'
<1> USE DEF HandshakeInv
<1>1. ASSUME UNCHANGED <<pc, ahead, inbox, conn, mice>> PROVE HandshakeInv'
  BY <1>1 DEF Connected
<1>2. CASE UNCHANGED vars
  BY <1>1, <1>2 DEF vars, lineVars, clientVars, handlerVars, miceVars
<1>3. ASSUME NEW c \in Clients, ClientStep(c) PROVE HandshakeInv'
  <2>1. UNCHANGED <<pc, ahead, mice>>
    BY <1>3, ClientFrame DEF handlerVars, miceVars
  <2>2. CASE Connect(c)
    <3>1. PICK line \in Line : /\ Send(c, line)
                               /\ c \notin Garblers => line = "REGISTER"
      BY <2>2 DEF Connect, Line, ActionKind
    <3>2. /\ inbox'[c] # << >>
          /\ Head(inbox'[c]) = IF inbox[c] = << >> THEN line ELSE Head(inbox[c])
          /\ \A d \in Clients \ {c} : inbox'[d] = inbox[d]
      BY <3>1, SendHead DEF TypeInv, TypeOK
    <3> QED
      BY <2>1, <2>2, <3>1, <3>2 DEF Connect, Connected, TypeInv, TypeOK, SocketTypeOK
  <2>3. ASSUME NEW line \in Line, Send(c, line), Connected(c), UNCHANGED conn
        PROVE  HandshakeInv'
    <3>1. /\ inbox'[c] # << >>
          /\ Head(inbox'[c]) = IF inbox[c] = << >> THEN line ELSE Head(inbox[c])
          /\ \A d \in Clients \ {c} : inbox'[d] = inbox[d]
      BY <2>3, SendHead DEF TypeInv, TypeOK
    <3> QED
      BY <2>1, <2>3, <3>1 DEF Connected
  <2>4. CASE SendReady(c)
    BY <2>3, <2>4 DEF SendReady, Line
  <2>5. ASSUME NEW kind \in ActionKind, SendAction(c, kind) PROVE HandshakeInv'
    BY <2>3, <2>5 DEF SendAction, Line
  <2>6. CASE Disconnect(c)
    BY <2>1, <2>6 DEF Disconnect, Connected, TypeInv, TypeOK, SocketTypeOK
  <2>7. CASE Stall(c)
    BY <2>1, <2>7 DEF Stall, Connected, lineVars, TypeInv, TypeOK, SocketTypeOK
  <2> QED
    BY <1>3, <2>2, <2>4, <2>5, <2>6, <2>7 DEF ClientStep
<1>4. ASSUME NEW c \in Clients, HandlerStep(c) PROVE HandshakeInv'
  <2>1. ASSUME UNCHANGED conn, mice \subseteq mice', pc'[c] \notin {"none", "register"},
               \A d \in Clients \ {c} : /\ pc'[d] = pc[d]
                                        /\ inbox'[d] = inbox[d]
                                        /\ ahead'[d] = ahead[d],
               pc'[c] = "play" => c \in mice \/ c \in Garblers
        PROVE  HandshakeInv'
    BY <2>1 DEF Connected
  <2>2. CASE Accept(c)
    BY <2>2 DEF Accept, Goto, Connected, clientVars, lineVars, miceVars, TypeInv, TypeOK,
       HandlerTypeOK
  <2>3. CASE ReadRegister(c)
    <3>1. PICK line \in Line :
                 ReadLine(c, line) /\ \E label \in AfterRegister(line) : Goto(c, label)
      BY <2>3 DEF ReadRegister
    <3>2. c \notin Garblers => line = "REGISTER"
      BY <2>3, <3>1 DEF ReadRegister, ReadLine
    <3>3. \A d \in Clients \ {c} : inbox'[d] = inbox[d] /\ ahead'[d] = ahead[d]
      BY <3>1 DEF ReadLine, TypeInv, TypeOK, SocketTypeOK
    <3> QED
      BY <2>1, <2>3, <3>1, <3>2, <3>3 DEF ReadRegister, AfterRegister, AfterMisfit, Goto,
         clientVars, miceVars, TypeInv, TypeOK, HandlerTypeOK
  <2>4. CASE ReadReady(c)
    <3>1. PICK line \in Line : /\ ReadLine(c, line)
                               /\ \E label \in {"gone", "play"} : Goto(c, label)
      BY <2>4 DEF ReadReady, AfterReady, AfterMisfit
    <3>2. \A d \in Clients \ {c} : inbox'[d] = inbox[d] /\ ahead'[d] = ahead[d]
      BY <3>1 DEF ReadLine, TypeInv, TypeOK, SocketTypeOK
    <3>3. c \in mice
      BY <2>4 DEF ReadReady, RegistrationInv
    <3> QED
      BY <2>1, <2>4, <3>1, <3>2, <3>3 DEF ReadReady, Goto, clientVars, miceVars, TypeInv,
         TypeOK, HandlerTypeOK
  <2>5. CASE ReadAction(c)
    BY <2>1, <2>5 DEF ReadAction, clientVars, handlerVars, miceVars, TypeInv, TypeOK,
       SocketTypeOK
  <2>6. CASE ActionLoopEnds(c)
    BY <2>6 DEF ActionLoopEnds, Goto, Connected, lineVars, miceVars, TypeInv, TypeOK,
       HandlerTypeOK, SocketTypeOK
  <2>7. CASE ReadyVisible(c)
    BY <1>1, <2>7 DEF ReadyVisible, clientVars, lineVars, miceVars
  <2>8. CASE ChooseTunnel(c) \/ AddMouse(c) \/ AddClient(c) \/ AnswerId(c)
             \/ HandshakeEnds(c)
    BY <2>1, <2>8 DEF ChooseTunnel, AddMouse, AddClient, AnswerId, HandshakeEnds, Goto,
       clientVars, lineVars, miceVars, TypeInv, TypeOK, HandlerTypeOK
  <2> QED
    BY <1>4, <2>2, <2>3, <2>4, <2>5, <2>6, <2>7, <2>8 DEF HandlerStep
<1>5. CASE TickStep
  BY <1>1, <1>5, TickFrame DEF clientVars, handlerVars
<1>6. CASE Clock
  BY <1>1, <1>6, ClockFrame DEF clientVars, lineVars, handlerVars, miceVars
<1> QED
  BY <1>2, <1>3, <1>4, <1>5, <1>6 DEF Next

\* Whoever keeps to the protocol sends no incomplete action.
CompleteInv == \A c \in Clients \ Garblers : inbox[c] \in Seq(Line \ {"INCOMPLETE"})

LEMMA CompleteStep ==
    ASSUME TypeInv, CompleteInv, [Next]_vars
    PROVE  CompleteInv'
<1> DEFINE Plain == Line \ {"INCOMPLETE"}
<1> USE DEF CompleteInv
<1>1. ASSUME UNCHANGED inbox PROVE CompleteInv'
  BY <1>1
<1>2. CASE UNCHANGED vars
  BY <1>1, <1>2 DEF vars, lineVars
<1>3. inbox \in [Clients -> Seq(Line)]
  BY DEF TypeInv, TypeOK, SocketTypeOK
<1>4. ASSUME NEW c \in Clients, ClientStep(c) PROVE CompleteInv'
  <2>1. ASSUME NEW line \in Line, Send(c, line), c \notin Garblers => line # "INCOMPLETE"
        PROVE  CompleteInv'
    <3>1. \A d \in Clients : inbox'[d] = IF d = c THEN Append(inbox[d], line) ELSE inbox[d]
      BY <1>3, <2>1 DEF Send
    <3>2. c \notin Garblers => Append(inbox[c], line) \in Seq(Plain)
      BY <2>1, AppendProperties
    <3> QED
      BY <3>1, <3>2
  <2>2. CASE Connect(c)
    <3>1. PICK line \in {"REGISTER", "GARBLED", "INCOMPLETE"} :
                 Send(c, line) /\ (line # "REGISTER" => c \in Garblers)
      BY <2>2 DEF Connect
    <3>2. line \in Line
      BY DEF Line, ActionKind
    <3> QED
      BY <2>1, <3>1, <3>2
  <2>3. CASE SendReady(c)
    BY <2>1, <2>3 DEF SendReady, Line
  <2>4. ASSUME NEW kind \in ActionKind, SendAction(c, kind) PROVE CompleteInv'
    BY <2>1, <2>4 DEF SendAction, Line
  <2>5. CASE Disconnect(c)
    BY <1>3, <2>5, EmptySeq DEF Disconnect
  <2>6. CASE Stall(c)
    BY <1>1, <2>6 DEF Stall, lineVars
  <2> QED
    BY <1>4, <2>2, <2>3, <2>4, <2>5, <2>6 DEF ClientStep
<1>5. ASSUME NEW c \in Clients, HandlerStep(c) PROVE CompleteInv'
  <2>1. ASSUME NEW rest, inbox' = [inbox EXCEPT ![c] = rest],
               c \notin Garblers => rest \in Seq(Plain)
        PROVE  CompleteInv'
    BY <1>3, <2>1
  <2>2. ASSUME NEW line, ReadLine(c, line) PROVE CompleteInv'
    <3>1. CASE UNCHANGED inbox
      BY <1>1, <3>1
    <3>2. ASSUME inbox[c] # << >>, NEW k \in 1..Len(inbox[c]),
                 inbox' = [inbox EXCEPT ![c] = SubSeq(@, k + 1, Len(@))]
          PROVE  CompleteInv'
      <4>1. inbox' = [inbox EXCEPT ![c] = SubSeq(inbox[c], k + 1, Len(inbox[c]))]
        BY <3>2
      <4>2. k \in Int /\ 1 <= k /\ Len(inbox[c]) \in Nat
        BY <1>3
      <4>3. ASSUME c \notin Garblers
            PROVE  SubSeq(inbox[c], k + 1, Len(inbox[c])) \in Seq(Plain)
        <5>1. inbox[c] \in Seq(Plain)
          BY <4>3
        <5>2. \A i \in (k + 1)..Len(inbox[c]) : inbox[c][i] \in Plain
          BY <4>2, <5>1, ElementOfSeq
        <5> QED
          BY <4>2, <5>2, SubSeqProperties
      <4> QED
        BY <2>1, <4>1, <4>3
    <3> QED
      BY <2>2, <3>1, <3>2 DEF ReadLine
  <2>3. CASE ReadRegister(c)
    BY <2>2, <2>3 DEF ReadRegister
  <2>4. CASE ReadReady(c)
    BY <2>2, <2>4 DEF ReadReady
  <2>5. CASE ReadAction(c)
    <3>1. inbox' = [inbox EXCEPT ![c] = Tail(inbox[c])] /\ inbox[c] # << >>
      BY <2>5 DEF ReadAction
    <3>2. c \notin Garblers => Tail(inbox[c]) \in Seq(Plain)
      BY <3>1, HeadTailProperties
    <3> QED
      BY <2>1, <3>1, <3>2
  <2>6. CASE UNCHANGED inbox
    BY <1>1, <2>6
  <2> QED
    BY <1>5, <2>3, <2>4, <2>5, <2>6 DEF HandlerStep, Accept, ChooseTunnel, AddMouse,
       AddClient, AnswerId, ReadyVisible, HandshakeEnds, ActionLoopEnds, lineVars
<1>6. CASE TickStep
  BY <1>1, <1>6, TickFrame
<1>7. CASE Clock
  BY <1>1, <1>7, ClockFrame DEF lineVars
<1> QED
  BY <1>2, <1>4, <1>5, <1>6, <1>7 DEF Next

\* What is queued for a client that keeps to the protocol is complete and finds
\* its mouse.
QueueInv ==
    \A i \in 1..Len(queue) :
      \/ queue[i].from \in Garblers
      \/ queue[i].from \in mice /\ queue[i].kind # "INCOMPLETE"

LEMMA QueueStep ==
    ASSUME TypeInv, HandshakeInv, CompleteInv, QueueInv, [Next]_vars
    PROVE  QueueInv'
<1> USE DEF QueueInv
<1>1. ASSUME UNCHANGED queue, mice \subseteq mice' PROVE QueueInv'
  BY <1>1
<1>2. CASE UNCHANGED vars
  BY <1>1, <1>2 DEF vars, miceVars
<1>3. ASSUME NEW c \in Clients, ClientStep(c) PROVE QueueInv'
  BY <1>1, <1>3, ClientFrame DEF miceVars
<1>4. queue \in Seq(Request)
  BY DEF TypeInv, TypeOK, HandlerTypeOK
<1>5. ASSUME NEW c \in Clients, HandlerStep(c) PROVE QueueInv'
  <2>1. CASE ReadAction(c)
    <3>1. PICK r \in Request : /\ r.from = c /\ r.kind = Head(inbox[c])
                               /\ queue' = Append(queue, r)
      BY <2>1 DEF ReadAction, RequestOf, Request
    <3>2. c \in mice \/ c \in Garblers
      BY <2>1 DEF ReadAction, HandshakeInv
    <3>3. c \in Garblers \/ Head(inbox[c]) # "INCOMPLETE"
      <4>1. inbox[c] # << >>
        BY <2>1 DEF ReadAction
      <4> QED
        BY <4>1, HeadTailProperties DEF CompleteInv
    <3>4. /\ Len(queue') = Len(queue) + 1 /\ Len(queue) \in Nat
          /\ \A i \in 1..Len(queue') : queue'[i] = IF i = Len(queue) + 1 THEN r ELSE queue[i]
      BY <1>4, <3>1, AppendProperties
    <3>5. UNCHANGED mice
      BY <2>1 DEF ReadAction, miceVars
    <3> QED
      BY <3>1, <3>2, <3>3, <3>4, <3>5
  <2>2. CASE ~ReadAction(c)
    BY <1>1, <1>5, <2>2 DEF HandlerStep, Accept, ReadRegister, ChooseTunnel, AddMouse,
       AddClient, AnswerId, ReadReady, ReadyVisible, HandshakeEnds, ActionLoopEnds,
       miceVars
  <2> QED
    BY <2>1, <2>2
<1>6. CASE TickStep
  <2>1. UNCHANGED mice
    BY <1>6, TickFrame
  <2>2. ASSUME NEW c, NEW kind, Poll(c, kind) PROVE QueueInv'
    <3>1. queue # << >> /\ Len(queue) \in Nat
      BY <1>4, <2>2 DEF Poll
    <3>2. /\ Len(queue') = Len(queue) - 1
          /\ \A i \in 1..Len(queue') : queue'[i] = queue[i + 1]
      BY <1>4, <2>2, <3>1, HeadTailProperties DEF Poll
    <3> QED
      BY <2>1, <3>1, <3>2
  <2>3. ASSUME NEW c \in Clients,
               \/ ProcessOrphan(c) \/ ProcessIncomplete(c) \/ ProcessDirection(c)
               \/ ProcessVote(c) \/ ProcessLevelChange(c)
        PROVE  QueueInv'
    BY <2>2, <2>3 DEF ProcessOrphan, ProcessIncomplete, ProcessDirection, ProcessVote,
       ProcessLevelChange
  <2>4. CASE UNCHANGED queue
    BY <1>1, <2>1, <2>4
  <2> QED
    BY <1>6, <2>3, <2>4 DEF TickStep, BeginCount, FindReady, FindUnready, EndCount,
       BeginTick, StartGame, TimeCheck, CatCatches, SendUpdate, ActionsDone, CatMisses,
       CatsDone, CheckState, BuildUpdate, EndTick
<1>7. CASE Clock
  BY <1>1, <1>7, ClockFrame DEF miceVars
<1> QED
  BY <1>2, <1>3, <1>5, <1>6, <1>7 DEF Next

LEMMA DeadlyStep ==
    ASSUME TypeInv, QueueInv, Next, tick # "dead", tick' = "dead"
    PROVE  Head(queue).from \in Garblers
<1>1. TickStep
  <2>1. ASSUME NEW c \in Clients, ClientStep(c) \/ HandlerStep(c) PROVE FALSE
    BY <2>1, ClientFrame DEF HandlerStep, Accept, ReadRegister, ChooseTunnel, AddMouse,
       AddClient, AnswerId, ReadReady, ReadyVisible, HandshakeEnds, ReadAction,
       ActionLoopEnds, tickVars
  <2> QED
    BY <2>1, ClockFrame DEF Next, tickVars
<1>2. PICK c \in Clients : ProcessOrphan(c) \/ ProcessIncomplete(c)
  BY <1>1 DEF TickStep, BeginCount, FindReady, FindUnready, EndCount, AfterCount, BeginTick,
     StartGame, TimeCheck, ProcessDirection, ProcessVote, ProcessLevelChange, CatCatches,
     SendUpdate, ActionsDone, CatMisses, CatsDone, CheckState, BuildUpdate, EndTick,
     tickVars
<1>3. PICK kind \in ActionKind : /\ Poll(c, kind)
                                 /\ c \notin mice \/ kind = "INCOMPLETE"
  BY <1>2 DEF ProcessOrphan, ProcessIncomplete, ActionKind
<1>4. queue \in Seq(Request) /\ queue # << >>
  BY <1>3 DEF Poll, TypeInv, TypeOK, HandlerTypeOK
<1>5. Len(queue) \in Nat \ {0} /\ Head(queue) = queue[1]
  BY <1>4
<1> QED
  BY <1>3, <1>5 DEF Poll, QueueInv

\* However many clients register, act and vanish: the exception that silently
\* ends the game tick is only ever caused by a line of a connection that does
\* not keep to the protocol of this program's client.
THEOREM OnlyForeignersStopTheTickCorrect == Spec => OnlyForeignersStopTheTick
<1>1. Init => HandshakeInv /\ CompleteInv /\ QueueInv
  BY EmptySeq DEF Init, HandshakeInv, CompleteInv, QueueInv, Connected
<1>2. TypeInv /\ RegistrationInv /\ HandshakeInv /\ CompleteInv /\ QueueInv /\ [Next]_vars
      => HandshakeInv' /\ CompleteInv' /\ QueueInv'
  BY HandshakeStep, CompleteStep, QueueStep
<1>3. TypeInv /\ QueueInv /\ [Next]_vars
      => [tick # "dead" /\ tick' = "dead" => Head(queue).from \in Garblers]_vars
  BY DeadlyStep
<1> QED
  BY <1>1, <1>2, <1>3, StartCorrect, PTL DEF Spec, OnlyForeignersStopTheTick

-----------------------------------------------------------------------------
(* The lobby that never starts.                                            *)

\* c is registered, its handler has ended, and it never said READY.
Ghost(c) ==
    /\ tick = "idle" \/ (tick = "count" /\ c \in pending)
    /\ ~started
    /\ c \in clients
    /\ ready[c] = "no"
    /\ pc[c] = "gone"

LEMMA GhostStep ==
    ASSUME NEW c \in Clients, TypeInv, Ghost(c), [Next]_vars
    PROVE  Ghost(c)'
<1> USE DEF Ghost
<1>1. CASE UNCHANGED vars
  BY <1>1 DEF vars, handlerVars, tickVars, gameVars
<1>2. ASSUME NEW d \in Clients, ClientStep(d) PROVE Ghost(c)'
  BY <1>2, ClientFrame DEF handlerVars, tickVars, gameVars
<1>3. ASSUME NEW d \in Clients, HandlerStep(d) PROVE Ghost(c)'
  <2>1. /\ tick' = tick /\ started' = started
        /\ clients \subseteq clients' /\ pending \subseteq pending'
    BY <1>3 DEF HandlerStep, Accept, ReadRegister, ChooseTunnel, AddMouse, AddClient,
       AnswerId, ReadReady, ReadyVisible, HandshakeEnds, ReadAction, ActionLoopEnds,
       tickVars, gameVars
  <2>2. ready'[c] = "no" /\ pc'[c] = "gone"
    BY <1>3 DEF HandlerStep, Accept, ReadRegister, ChooseTunnel, AddMouse, AddClient,
       AnswerId, ReadReady, ReadyVisible, HandshakeEnds, ReadAction, ActionLoopEnds,
       Goto, handlerVars, TypeInv, TypeOK, HandlerTypeOK
  <2> QED
    BY <2>1, <2>2
<1>4. CASE TickStep
  <2>1. \/ BeginCount
        \/ \E d \in Clients : FindReady(d) \/ FindUnready(d)
    BY <1>4 DEF TickStep, EndCount, AllMatched, BeginTick, StartGame, TimeCheck,
       ProcessOrphan, ProcessIncomplete, ProcessDirection, ProcessVote,
       ProcessLevelChange, Poll, CatCatches, SendUpdate, ActionsDone, CatMisses, CatsDone,
       CheckState, BuildUpdate, EndTick
  <2>2. UNCHANGED <<started, clients, ready, pc>>
    BY <2>1 DEF BeginCount, FindReady, FindUnready, handlerVars, gameVars
  <2>3. tick' = "idle" \/ (tick' = "count" /\ c \in pending')
    BY <2>1 DEF BeginCount, FindReady, FindUnready, IsReady
  <2> QED
    BY <2>2, <2>3
<1>5. CASE Clock
  BY <1>5 DEF Clock, GameTimeEnds, SnapshotExpires, handlerVars, tickVars
<1> QED
  BY <1>1, <1>2, <1>3, <1>4, <1>5 DEF Next

\* One client that registered and left without READY keeps the game of everybody
\* else from ever starting, whatever the others do.
THEOREM GhostHoldsLobbyCorrect == Spec => GhostHoldsLobby
<1> DEFINE Held == \E c \in Clients : Ghost(c)
<1>1. TypeInv /\ Held /\ [Next]_vars => Held'
  BY GhostStep
<1>2. Held => ~started
  BY DEF Ghost
<1>3. TypeInv /\ tick = "idle" /\ ~started
      /\ (\E c \in clients : ready[c] = "no" /\ pc[c] = "gone") => Held
  BY DEF Ghost, TypeInv, TypeOK, HandlerTypeOK
<1> HIDE DEF Held
<1> QED
  BY <1>1, <1>2, <1>3, TypeInvariant, PTL DEF Spec, GhostHoldsLobby

-----------------------------------------------------------------------------
(* The round of the cats, as CatHunt sees it.                              *)

MiceOutside == {m \in mice : level[m] = Surface}

Hunt == INSTANCE HuntRound WITH
    Prey <- Clients,
    Turns <- NumCats,
    phase <- IF tick = "cats" THEN "cats" ELSE "players",
    left <- IF tick = "cats" THEN catsLeft ELSE 0,
    surface <- MiceOutside

\* While the cats have their turns no mouse comes up and none goes down but by
\* being caught, although handlers add mice at any time, and each of the NumCats
\* cats has one turn.
ImplementsHunt == Hunt!HuntSpec

(* A handler puts its mouse once, and in a started game all cats are there. *)
HuntInv ==
    /\ \A c \in mice : pc[c] \notin {"none", "register", "choose", "put"}
    /\ started => cats = NumCats

LEMMA HuntInvStep ==
    ASSUME TypeInv, HuntInv, [Next]_vars
    PROVE  HuntInv'
<1> USE DEF HuntInv
<1>1. ASSUME UNCHANGED <<pc, mice, started, cats>> PROVE HuntInv'
  BY <1>1
<1>2. CASE UNCHANGED vars
  BY <1>1, <1>2 DEF vars, handlerVars, miceVars, gameVars
<1>3. ASSUME NEW c \in Clients, ClientStep(c) PROVE HuntInv'
  BY <1>1, <1>3, ClientFrame DEF handlerVars, miceVars, gameVars
<1>4. ASSUME NEW c \in Clients, HandlerStep(c) PROVE HuntInv'
  <2>1. UNCHANGED <<started, cats>>
    BY <1>4 DEF HandlerStep, Accept, ReadRegister, ChooseTunnel, AddMouse, AddClient,
       AnswerId, ReadReady, ReadyVisible, HandshakeEnds, ReadAction, ActionLoopEnds,
       gameVars
  <2>2. ASSUME UNCHANGED mice, NEW l, Goto(c, l),
               l \notin {"none", "register", "choose", "put"}
                 \/ pc[c] \in {"none", "register", "choose", "put"}
        PROVE  HuntInv'
    BY <2>1, <2>2 DEF Goto, TypeInv, TypeOK, HandlerTypeOK, GameTypeOK
  <2>3. CASE AddMouse(c)
    BY <2>1, <2>3 DEF AddMouse, Goto, TypeInv, TypeOK, HandlerTypeOK, GameTypeOK
  <2>4. CASE ReadyVisible(c) \/ ReadAction(c)
    BY <1>1, <2>1, <2>4 DEF ReadyVisible, ReadAction, handlerVars, miceVars
  <2>5. CASE Accept(c) \/ ReadRegister(c) \/ ChooseTunnel(c)
    BY <2>2, <2>5 DEF Accept, ReadRegister, ChooseTunnel, miceVars
  <2>6. CASE AddClient(c) \/ AnswerId(c) \/ ReadReady(c) \/ HandshakeEnds(c)
             \/ ActionLoopEnds(c)
    BY <2>2, <2>6 DEF AddClient, AnswerId, ReadReady, AfterReady, AfterMisfit,
       HandshakeEnds, ActionLoopEnds, miceVars
  <2> QED
    BY <1>4, <2>3, <2>4, <2>5, <2>6 DEF HandlerStep
<1>5. CASE TickStep
  <2>1. UNCHANGED <<pc, mice>>
    BY <1>5, TickFrame DEF handlerVars
  <2>2. CASE StartGame
    BY <2>1, <2>2 DEF StartGame
  <2>3. CASE UNCHANGED <<started, cats>>
    BY <1>1, <2>1, <2>3
  <2> QED
    BY <1>5, <2>2, <2>3 DEF TickStep, BeginCount, FindReady, FindUnready, EndCount,
       BeginTick, TimeCheck, ProcessOrphan, ProcessIncomplete, ProcessDirection, ProcessVote, ProcessLevelChange, CatCatches, SendUpdate,
       ActionsDone, CatMisses, CatsDone, CheckState, BuildUpdate, EndTick, tickVars,
       gameVars
<1>6. CASE Clock
  BY <1>1, <1>6, ClockFrame DEF handlerVars, miceVars
<1> QED
  BY <1>2, <1>3, <1>4, <1>5, <1>6 DEF Next

LEMMA HuntRefinementStep ==
    ASSUME TypeInv, StartInv, HuntInv, [Next]_vars
    PROVE  [Hunt!HuntStep]_(Hunt!huntVars)
<1> USE DEF Hunt!huntVars, Hunt!HuntStep
<1>0. /\ mice \subseteq Clients
      /\ level \in [Clients -> Tunnels \cup {Surface}]
      /\ Surface \notin Tunnels
      /\ catsLeft \in Nat
  BY BoundAssumption, LevelAssumption DEF TypeInv, TypeOK, GameTypeOK, TickTypeOK, Surface
<1>1. ASSUME UNCHANGED <<tick, catsLeft, mice, level>> PROVE UNCHANGED Hunt!huntVars
  BY <1>1 DEF MiceOutside
<1>2. CASE UNCHANGED vars
  BY <1>1, <1>2 DEF vars, miceVars, tickVars
<1>3. ASSUME NEW c \in Clients, ClientStep(c) PROVE UNCHANGED Hunt!huntVars
  BY <1>1, <1>3, ClientFrame DEF miceVars, tickVars
<1>4. ASSUME NEW c \in Clients, HandlerStep(c) PROVE UNCHANGED Hunt!huntVars
  <2>1. CASE AddMouse(c)
    <3>1. /\ c \notin mice /\ chosen[c] \in Tunnels
          /\ mice' = mice \cup {c}
          /\ level' = [level EXCEPT ![c] = chosen[c]]
          /\ UNCHANGED <<tick, catsLeft>>
      BY <2>1 DEF AddMouse, HuntInv, TypeInv, PutHasTunnel, tickVars
    <3>2. MiceOutside' = MiceOutside
      BY <1>0, <3>1 DEF MiceOutside
    <3> QED
      BY <3>1, <3>2
  <2>2. CASE ~AddMouse(c)
    BY <1>1, <1>4, <2>2 DEF HandlerStep, Accept, ReadRegister, ChooseTunnel, AddClient,
       AnswerId, ReadReady, ReadyVisible, HandshakeEnds, ReadAction, ActionLoopEnds,
       miceVars, tickVars
  <2> QED
    BY <2>1, <2>2
<1>5. CASE TickStep
  <2>1. ASSUME NEW c \in Clients, ProcessLevelChange(c)
        PROVE  \/ UNCHANGED Hunt!huntVars
               \/ Hunt!ComeUp(c)
               \/ Hunt!GoDown(c)
    <3>1. /\ c \in mice /\ tick = "actions" /\ UNCHANGED <<tick, catsLeft, mice>>
      BY <2>1 DEF ProcessLevelChange, Poll, tickVars
    <3>2. CASE UNCHANGED level
      BY <1>1, <3>1, <3>2
    <3>3. CASE level' = [level EXCEPT ![c] = Surface]
      <4>1. MiceOutside' = MiceOutside \cup {c}
        BY <1>0, <3>1, <3>3 DEF MiceOutside
      <4> QED
        BY <3>1, <4>1 DEF Hunt!ComeUp
    <3>4. ASSUME NEW t \in Tunnels, level' = [level EXCEPT ![c] = t]
          PROVE  Hunt!GoDown(c)
      <4>1. MiceOutside' = MiceOutside \ {c}
        BY <1>0, <3>1, <3>4 DEF MiceOutside
      <4> QED
        BY <3>1, <4>1 DEF Hunt!GoDown
    <3> QED
      BY <2>1, <3>2, <3>3, <3>4 DEF ProcessLevelChange, DoorTunnels
  <2>2. ASSUME NEW c \in Clients, CatCatches(c) PROVE Hunt!CatchTurn(c)
    <3>1. PICK t \in Tunnels : level' = [level EXCEPT ![c] = t]
      BY <2>2 DEF CatCatches, RespawnTunnels
    <3>2. /\ c \in MiceOutside /\ tick = "cats" /\ catsLeft > 0
          /\ UNCHANGED <<tick, mice>> /\ catsLeft' = catsLeft - 1
      BY <2>2 DEF CatCatches, CatsRemain, MiceOutside
    <3>3. MiceOutside' = MiceOutside \ {c}
      BY <1>0, <3>1, <3>2 DEF MiceOutside
    <3> QED
      BY <3>2, <3>3 DEF Hunt!CatchTurn
  <2>3. CASE CatMisses
    BY <2>3 DEF CatMisses, CatsRemain, Hunt!MissTurn, MiceOutside, miceVars
  <2>4. CASE ActionsDone
    <3>1. cats = NumCats
      BY <2>4 DEF ActionsDone, StartInv, HuntInv
    <3> QED
      BY <2>4, <3>1 DEF ActionsDone, Hunt!BeginHunt, MiceOutside, miceVars
  <2>5. CASE CatsDone
    BY <2>5 DEF CatsDone, Hunt!EndHunt, MiceOutside, miceVars
  <2>6. ASSUME UNCHANGED <<mice, level>>, tick # "cats", tick' # "cats"
        PROVE  UNCHANGED Hunt!huntVars
    BY <2>6 DEF MiceOutside
  <2>7. ASSUME NEW c \in Clients,
               \/ FindReady(c) \/ FindUnready(c) \/ ProcessOrphan(c)
               \/ ProcessIncomplete(c) \/ ProcessDirection(c) \/ ProcessVote(c)
               \/ SendUpdate(c)
        PROVE  UNCHANGED Hunt!huntVars
    BY <2>6, <2>7 DEF FindReady, FindUnready, ProcessOrphan, ProcessIncomplete,
       ProcessDirection, ProcessVote, Poll, SendUpdate, miceVars, tickVars
  <2>8. CASE \/ BeginCount \/ EndCount \/ BeginTick \/ StartGame \/ TimeCheck
             \/ CheckState \/ BuildUpdate \/ EndTick
    BY <2>6, <2>8 DEF BeginCount, EndCount, AfterCount, BeginTick, StartGame, TimeCheck,
       CheckState, BuildUpdate, EndTick, miceVars
  <2> QED
    BY <1>5, <2>1, <2>2, <2>3, <2>4, <2>5, <2>7, <2>8 DEF TickStep
<1>6. CASE Clock
  BY <1>1, <1>6, ClockFrame DEF miceVars, tickVars
<1> QED
  BY <1>2, <1>3, <1>4, <1>5, <1>6 DEF Next

\* The cats' part of a tick is atomic to the players: for any number of mice and
\* cats the surface only loses mice in it, at most one per cat, whoever registers
\* meanwhile. CatHunt is proved to be such a round as well.
THEOREM ImplementsHuntCorrect == Spec => ImplementsHunt
<1>1. Init => HuntInv /\ Hunt!HuntInit
  BY DEF Init, HuntInv, Hunt!HuntInit, MiceOutside
<1>2. TypeInv /\ HuntInv /\ [Next]_vars => HuntInv'
  BY HuntInvStep
<1>3. TypeInv /\ StartInv /\ HuntInv /\ [Next]_vars
      => [Hunt!HuntStep]_(Hunt!huntVars)
  BY HuntRefinementStep
<1> QED
  BY <1>1, <1>2, <1>3, StartCorrect, PTL DEF Spec, ImplementsHunt, Hunt!HuntSpec

-----------------------------------------------------------------------------
(* The order of a client's lines survives two readers on one socket.       *)

\* No action of a client is queued before the client has said READY, although
\* lines may get lost between the handshake's reader and the scanner of the
\* action loop, and handshake() goes on after any error: what a player sends
\* early is never taken before the tick could count it as ready.
ActionsComeAfterReady ==
    \A i \in 1..Len(queue) :
      queue[i].from \notin Garblers => ready[queue[i].from] # "no"

Reading == {"choose", "put", "add", "answer", "await"}

(* What the server has still to read of c: REGISTER, then READY, then      *)
(* actions, as far as c has sent them; the readers split it anywhere.      *)
InOrder(c) ==
    /\ conn[c] = "none" => inbox[c] = << >> /\ pc[c] = "none" /\ said[c] = "nothing"
    /\ pc[c] \in {"none", "register"} =>
         /\ Len(inbox[c]) > 1 => inbox[c][2] = "READY"
         /\ said[c] # "ready" => Len(inbox[c]) <= 1
         /\ said[c] = "ready" /\ Connected(c) => Len(inbox[c]) > 1
    /\ pc[c] \in Reading =>
         /\ ahead[c] # << >> => Head(ahead[c]) = "READY"
         /\ ahead[c] = << >> /\ inbox[c] # << >> => Head(inbox[c]) = "READY"
         /\ said[c] # "ready" => ahead[c] = << >> /\ inbox[c] = << >>
         /\ said[c] = "ready" /\ Connected(c) => ahead[c] # << >> \/ inbox[c] # << >>
    /\ pc[c] = "play" => ready[c] # "no"

OrderInv == (\A c \in Clients \ Garblers : InOrder(c)) /\ ActionsComeAfterReady

LEMMA AppendPlaces ==
    ASSUME NEW c \in Clients, NEW line \in Line, SocketTypeOK, Send(c, line)
    PROVE  /\ Len(inbox'[c]) = Len(inbox[c]) + 1
           /\ inbox'[c][Len(inbox[c]) + 1] = line
           /\ \A i \in 1..Len(inbox[c]) : inbox'[c][i] = inbox[c][i]
           /\ Len(inbox[c]) \in Nat
           /\ inbox[c] = << >> <=> Len(inbox[c]) = 0
BY AppendProperties, EmptySeq DEF Send, SocketTypeOK

LEMMA FewOrMany ==
    ASSUME NEW n \in Nat
    PROVE  n = 0 \/ (n = 1 /\ ~(n > 1)) \/ (n > 1 /\ ~(n <= 1))
OBVIOUS

(* Reading one line leaves the next one where the next readLine looks. *)
LEMMA NextLine ==
    ASSUME NEW c \in Clients, NEW line, SocketTypeOK, ReadLine(c, line), ahead[c] = << >>
    PROVE  /\ inbox[c] # << >> /\ line = Head(inbox[c])
           /\ ahead'[c] # << >> => Len(inbox[c]) > 1 /\ Head(ahead'[c]) = inbox[c][2]
           /\ ahead'[c] = << >> /\ inbox'[c] # << >> =>
                Len(inbox[c]) > 1 /\ Head(inbox'[c]) = inbox[c][2]
           /\ Len(inbox[c]) > 1 => ahead'[c] # << >> \/ inbox'[c] # << >>
<1>1. /\ inbox[c] # << >> /\ line = Head(inbox[c])
      /\ inbox[c] \in Seq(Line) /\ Len(inbox[c]) \in Nat
  BY DEF ReadLine, SocketTypeOK
<1>2. PICK k \in 1..Len(inbox[c]) : /\ ahead'[c] = SubSeq(inbox[c], 2, k)
                                    /\ inbox'[c] = SubSeq(inbox[c], k + 1, Len(inbox[c]))
  BY DEF ReadLine, SocketTypeOK
<1>3. k \in Int /\ 1 <= k /\ k <= Len(inbox[c])
  BY <1>1
<1>4. CASE k = 1
  <2>1. ahead'[c] = << >>
    BY <1>2, <1>4, SubSeqProperties
  <2>2. CASE Len(inbox[c]) = 1
    <3>1. inbox'[c] = << >>
      BY <1>2, <1>4, <2>2, SubSeqProperties
    <3> QED
      BY <1>1, <2>1, <2>2, <3>1
  <2>3. CASE Len(inbox[c]) > 1
    <3>1. /\ Len(inbox'[c]) = Len(inbox[c]) - 1
          /\ inbox'[c][1] = inbox[c][2]
          /\ inbox'[c] \in Seq(Line)
      BY <1>1, <1>2, <1>4, <2>3
    <3>2. inbox'[c] # << >> /\ Head(inbox'[c]) = inbox[c][2]
      BY <2>3, <3>1
    <3> QED
      BY <1>1, <2>1, <2>3, <3>2
  <2>4. Len(inbox[c]) = 1 \/ Len(inbox[c]) > 1
    <3>1. Len(inbox[c]) # 0
      BY <1>1, EmptySeq
    <3> QED
      BY <1>1, <3>1, FewOrMany
  <2> QED
    BY <2>2, <2>3, <2>4
<1>5. CASE k > 1
  <2>1. /\ Len(ahead'[c]) = k - 1
        /\ ahead'[c][1] = inbox[c][2]
        /\ ahead'[c] \in Seq(Line)
    BY <1>1, <1>2, <1>3, <1>5
  <2>2. ahead'[c] # << >> /\ Head(ahead'[c]) = inbox[c][2]
    BY <1>3, <1>5, <2>1
  <2> QED
    BY <1>1, <1>3, <1>5, <2>2
<1> QED
  BY <1>3, <1>4, <1>5

LEMMA OrderStep ==
    ASSUME TypeInv, HandshakeInv, OrderInv, [Next]_vars,
           NEW c \in Clients \ Garblers
    PROVE  InOrder(c)'
<1> USE DEF InOrder, OrderInv
<1>1. ASSUME UNCHANGED <<conn, inbox, ahead, said, pc, ready>> PROVE InOrder(c)'
  BY <1>1 DEF Connected
<1>2. CASE UNCHANGED vars
  BY <1>1, <1>2 DEF vars, lineVars, clientVars, handlerVars
<1>3. ASSUME NEW d \in Clients, d # c, ClientStep(d) \/ HandlerStep(d)
      PROVE  InOrder(c)'
  <2>1. /\ conn'[c] = conn[c] /\ inbox'[c] = inbox[c] /\ said'[c] = said[c]
        /\ ahead'[c] = ahead[c]
    BY <1>3 DEF ClientStep, Connect, SendReady, SendAction, Send, Disconnect, Stall,
       HandlerStep, Accept, ReadRegister, ReadLine, ChooseTunnel, AddMouse, AddClient,
       AnswerId, ReadReady, ReadyVisible, HandshakeEnds, ReadAction, ActionLoopEnds,
       clientVars, lineVars, TypeInv, TypeOK, SocketTypeOK
  <2>2. pc'[c] = pc[c] /\ ready'[c] = ready[c]
    BY <1>3 DEF ClientStep, Connect, SendReady, SendAction, Disconnect, Stall,
       HandlerStep, Accept, ReadRegister, ChooseTunnel, AddMouse, AddClient,
       AnswerId, ReadReady, ReadyVisible, HandshakeEnds, ReadAction, ActionLoopEnds,
       Goto, handlerVars, TypeInv, TypeOK, HandlerTypeOK
  <2> QED
    BY <2>1, <2>2 DEF Connected
<1>4. CASE ClientStep(c)
  <2>1. UNCHANGED <<pc, ahead, ready>>
    BY <1>4, ClientFrame DEF handlerVars
  <2>2. ASSUME NEW line \in Line, Send(c, line)
        PROVE  /\ Len(inbox'[c]) = Len(inbox[c]) + 1
               /\ inbox'[c][Len(inbox[c]) + 1] = line
               /\ \A i \in 1..Len(inbox[c]) : inbox'[c][i] = inbox[c][i]
               /\ Len(inbox[c]) \in Nat
               /\ inbox[c] = << >> <=> Len(inbox[c]) = 0
               /\ inbox'[c] # << >>
               /\ Head(inbox'[c]) = IF inbox[c] = << >> THEN line ELSE Head(inbox[c])
    BY <2>2, AppendPlaces, SendHead DEF TypeInv, TypeOK
  <2>3. CASE Connect(c)
    <3>1. Send(c, "REGISTER") /\ conn[c] = "none" /\ conn'[c] = "open"
          /\ said'[c] = "register"
      BY <2>3 DEF Connect, TypeInv, TypeOK, SocketTypeOK
    <3>2. inbox[c] = << >> /\ pc[c] = "none"
      BY <3>1
    <3>3. Len(inbox'[c]) = 1
      <4>1. "REGISTER" \in Line
        BY DEF Line
      <4> QED
        BY <2>2, <3>1, <3>2, <4>1
    <3> QED
      BY <2>1, <3>1, <3>2, <3>3 DEF Reading
  <2>4. CASE SendReady(c)
    <3>1. /\ Send(c, "READY") /\ Connected(c) /\ said[c] = "register"
          /\ said'[c] = "ready" /\ UNCHANGED conn
      BY <2>4 DEF SendReady, TypeInv, TypeOK, SocketTypeOK
    <3>2. /\ Len(inbox'[c]) = Len(inbox[c]) + 1
          /\ inbox'[c][Len(inbox[c]) + 1] = "READY"
          /\ Len(inbox[c]) \in Nat
          /\ inbox[c] = << >> <=> Len(inbox[c]) = 0
          /\ inbox'[c] # << >>
          /\ Head(inbox'[c]) = IF inbox[c] = << >> THEN "READY" ELSE Head(inbox[c])
      BY <2>2, <3>1 DEF Line
    <3>3. CASE pc[c] \in {"none", "register"}
      <4>1. inbox[c] # << >>
        BY <3>1, <3>3 DEF HandshakeInv
      <4>2. Len(inbox[c]) <= 1
        BY <3>1, <3>3
      <4>3. Len(inbox[c]) = 1
        BY <3>2, <4>1, <4>2, FewOrMany
      <4>4. Len(inbox'[c]) = 2 /\ inbox'[c][2] = "READY"
        BY <3>2, <4>3
      <4>5. /\ pc'[c] \notin Reading \cup {"play"} /\ conn'[c] # "none"
            /\ said'[c] = "ready"
        BY <2>1, <3>1, <3>3 DEF Reading, Connected
      <4> QED
        BY <4>4, <4>5
    <3>4. CASE pc[c] \notin {"none", "register"}
      BY <2>1, <3>1, <3>2, <3>4 DEF Reading, Connected
    <3> QED
      BY <3>3, <3>4
  <2>5. ASSUME NEW kind \in ActionKind, SendAction(c, kind) PROVE InOrder(c)'
    <3>1. /\ Send(c, kind) /\ kind \in Line /\ Connected(c) /\ said[c] = "ready"
          /\ UNCHANGED <<conn, said>>
      BY <2>5 DEF SendAction, Line
    <3>2. /\ Len(inbox'[c]) = Len(inbox[c]) + 1
          /\ \A i \in 1..Len(inbox[c]) : inbox'[c][i] = inbox[c][i]
          /\ Len(inbox[c]) \in Nat
          /\ inbox'[c] # << >>
          /\ inbox[c] # << >> => Head(inbox'[c]) = Head(inbox[c])
      BY <2>2, <3>1
    <3> QED
      BY <2>1, <3>1, <3>2 DEF Reading, Connected
  <2>6. CASE Disconnect(c)
    BY <2>1, <2>6 DEF Disconnect, Connected, Reading, TypeInv, TypeOK, SocketTypeOK
  <2>7. CASE Stall(c)
    BY <2>1, <2>7 DEF Stall, Connected, lineVars, TypeInv, TypeOK, SocketTypeOK
  <2> QED
    BY <1>4, <2>3, <2>4, <2>5, <2>6, <2>7 DEF ClientStep
<1>5. CASE HandlerStep(c)
  <2>1. ASSUME UNCHANGED <<conn, inbox, ahead, said, ready>>,
               pc[c] \in Reading, pc'[c] \in Reading \cup {"gone"}
        PROVE  InOrder(c)'
    BY <2>1 DEF Connected, Reading
  <2>2. CASE Accept(c)
    BY <2>2 DEF Accept, Goto, Connected, Reading, clientVars, lineVars, TypeInv, TypeOK,
       HandlerTypeOK
  <2>3. CASE ReadRegister(c)
    <3>1. PICK line \in Line :
                 ReadLine(c, line) /\ \E label \in AfterRegister(line) : Goto(c, label)
      BY <2>3 DEF ReadRegister
    <3>2. pc[c] = "register" /\ ahead[c] = << >> /\ line = "REGISTER"
      BY <2>3, <3>1 DEF ReadRegister, ReadLine, HandshakeInv
    <3>3. pc'[c] = "choose" /\ UNCHANGED <<conn, said, ready>>
      BY <2>3, <3>1, <3>2 DEF ReadRegister, AfterRegister, Goto, clientVars, TypeInv,
         TypeOK, HandlerTypeOK
    <3>4. /\ ahead'[c] # << >> => Len(inbox[c]) > 1 /\ Head(ahead'[c]) = inbox[c][2]
          /\ ahead'[c] = << >> /\ inbox'[c] # << >> =>
               Len(inbox[c]) > 1 /\ Head(inbox'[c]) = inbox[c][2]
          /\ Len(inbox[c]) > 1 => ahead'[c] # << >> \/ inbox'[c] # << >>
      BY <3>1, <3>2, NextLine DEF TypeInv, TypeOK
    <3>5. Len(inbox[c]) \in Nat
      BY DEF TypeInv, TypeOK, SocketTypeOK
    <3> QED
      BY <3>2, <3>3, <3>4, <3>5 DEF Reading, Connected
  <2>4. CASE ReadReady(c)
    <3>1. PICK line \in Line :
            /\ ReadLine(c, line)
            /\ \E label \in AfterReady(line) : Goto(c, label)
            /\ ready' = IF line = "READY" THEN [ready EXCEPT ![c] = "written"] ELSE ready
      BY <2>4 DEF ReadReady
    <3>2. pc[c] = "await" /\ line = "READY"
      BY <2>4, <3>1 DEF ReadReady, ReadLine, Reading
    <3> QED
      BY <2>4, <3>1, <3>2 DEF ReadReady, AfterReady, Goto, Reading, clientVars, TypeInv,
         TypeOK, HandlerTypeOK
  <2>5. CASE ReadyVisible(c)
    BY <2>5 DEF ReadyVisible, Connected, clientVars, lineVars, TypeInv, TypeOK,
       HandlerTypeOK
  <2>6. CASE HandshakeEnds(c)
    BY <2>6 DEF HandshakeEnds, Goto, Connected, Reading, clientVars, lineVars, TypeInv,
       TypeOK, HandlerTypeOK
  <2>7. CASE ReadAction(c)
    BY <2>7 DEF ReadAction, Connected, Reading, clientVars, handlerVars
  <2>8. CASE ActionLoopEnds(c)
    BY <2>8 DEF ActionLoopEnds, Goto, Connected, Reading, lineVars, TypeInv, TypeOK,
       HandlerTypeOK, SocketTypeOK
  <2>9. CASE ChooseTunnel(c) \/ AddMouse(c) \/ AddClient(c) \/ AnswerId(c)
    BY <2>1, <2>9 DEF ChooseTunnel, AddMouse, AddClient, AnswerId, Goto, Reading,
       clientVars, lineVars, TypeInv, TypeOK, HandlerTypeOK
  <2> QED
    BY <1>5, <2>2, <2>3, <2>4, <2>5, <2>6, <2>7, <2>8, <2>9 DEF HandlerStep
<1>6. CASE TickStep
  BY <1>1, <1>6, TickFrame DEF clientVars, handlerVars
<1>7. CASE Clock
  BY <1>1, <1>7, ClockFrame DEF clientVars, lineVars, handlerVars
<1> QED
  BY <1>2, <1>3, <1>4, <1>5, <1>6, <1>7 DEF Next

LEMMA QueuedAfterReadyStep ==
    ASSUME TypeInv, OrderInv, [Next]_vars
    PROVE  ActionsComeAfterReady'
<1> USE DEF ActionsComeAfterReady, OrderInv
<1>1. \A i \in 1..Len(queue) : queue[i].from \in Clients
  <2>1. queue \in Seq(Request)
    BY DEF TypeInv, TypeOK, HandlerTypeOK
  <2>2. \A i \in 1..Len(queue) : queue[i] \in Request
    BY <2>1, ElementOfSeq
  <2> QED
    BY <2>2 DEF Request
<1>2. ASSUME UNCHANGED queue, \A d \in Clients : ready[d] # "no" => ready'[d] # "no"
      PROVE  ActionsComeAfterReady'
  BY <1>1, <1>2
<1>3. CASE UNCHANGED vars
  BY <1>2, <1>3 DEF vars, handlerVars
<1>4. ASSUME NEW c \in Clients, ClientStep(c) PROVE ActionsComeAfterReady'
  BY <1>2, <1>4, ClientFrame DEF handlerVars
<1>5. ASSUME NEW c \in Clients, HandlerStep(c) PROVE ActionsComeAfterReady'
  <2>1. \A d \in Clients : ready[d] # "no" => ready'[d] # "no"
    BY <1>5 DEF HandlerStep, Accept, ReadRegister, ChooseTunnel, AddMouse, AddClient,
       AnswerId, ReadReady, ReadyVisible, HandshakeEnds, ReadAction, ActionLoopEnds,
       handlerVars, TypeInv, TypeOK, HandlerTypeOK
  <2>2. CASE ReadAction(c)
    <3>1. PICK r \in Request : r.from = c /\ queue' = Append(queue, r)
      BY <2>2 DEF ReadAction, RequestOf, Request
    <3>2. c \notin Garblers => ready'[c] # "no"
      BY <2>1, <2>2 DEF ReadAction, InOrder
    <3>3. queue \in Seq(Request)
      BY DEF TypeInv, TypeOK, HandlerTypeOK
    <3>4. \A i \in 1..Len(queue') : queue'[i] = IF i = Len(queue) + 1 THEN r ELSE queue[i]
      BY <3>1, <3>3, AppendProperties
    <3>5. Len(queue') = Len(queue) + 1 /\ Len(queue) \in Nat
      BY <3>1, <3>3, AppendProperties
    <3> QED
      BY <1>1, <2>1, <3>1, <3>2, <3>4, <3>5
  <2>3. CASE ~ReadAction(c)
    BY <1>2, <1>5, <2>1, <2>3 DEF HandlerStep, Accept, ReadRegister, ChooseTunnel,
       AddMouse, AddClient, AnswerId, ReadReady, ReadyVisible, HandshakeEnds,
       ActionLoopEnds
  <2> QED
    BY <2>2, <2>3
<1>6. CASE TickStep
  <2>1. UNCHANGED ready
    BY <1>6, TickFrame DEF handlerVars
  <2>2. ASSUME NEW c \in Clients, NEW kind, Poll(c, kind) PROVE ActionsComeAfterReady'
    <3>1. queue \in Seq(Request) /\ queue # << >> /\ Len(queue) \in Nat \ {0}
      BY <2>2 DEF Poll, TypeInv, TypeOK, HandlerTypeOK
    <3>2. /\ Len(queue') = Len(queue) - 1
          /\ \A i \in 1..Len(queue') : queue'[i] = queue[i + 1]
      BY <2>2, <3>1, HeadTailProperties DEF Poll
    <3> QED
      BY <2>1, <3>1, <3>2
  <2>3. CASE UNCHANGED queue
    BY <1>2, <2>1, <2>3
  <2> QED
    BY <1>6, <2>2, <2>3 DEF TickStep, BeginCount, FindReady, FindUnready, EndCount,
       BeginTick, StartGame, TimeCheck, ProcessOrphan, ProcessIncomplete,
       ProcessDirection, ProcessVote, ProcessLevelChange, CatCatches, SendUpdate,
       ActionsDone, CatMisses, CatsDone, CheckState, BuildUpdate, EndTick
<1>7. CASE Clock
  BY <1>2, <1>7, ClockFrame DEF handlerVars
<1> QED
  BY <1>3, <1>4, <1>5, <1>6, <1>7 DEF Next

LEMMA OrderCorrect ==
    Spec => [](TypeInv /\ RegistrationInv /\ StartInv /\ HandshakeInv /\ OrderInv)
<1>1. Init => HandshakeInv /\ OrderInv
  BY EmptySeq DEF Init, HandshakeInv, OrderInv, InOrder, ActionsComeAfterReady, Connected,
     Reading
<1>2. TypeInv /\ RegistrationInv /\ HandshakeInv /\ OrderInv /\ [Next]_vars
      => HandshakeInv' /\ OrderInv'
  <2>1. TypeInv /\ HandshakeInv /\ OrderInv /\ [Next]_vars => OrderInv'
    BY OrderStep, QueuedAfterReadyStep DEF OrderInv
  <2> QED
    BY <2>1, HandshakeStep
<1> QED
  BY <1>1, <1>2, StartCorrect, PTL DEF Spec

\* Whoever says REGISTER first, also if it does not wait for its id, is ready
\* before any of its actions is queued, wherever the buffers cut its lines.
THEOREM ActionsComeAfterReadyCorrect == Spec => []ActionsComeAfterReady
<1>1. OrderInv => ActionsComeAfterReady
  BY DEF OrderInv
<1> QED
  BY <1>1, OrderCorrect, PTL

-----------------------------------------------------------------------------
(* What is broadcast of the surface.                                       *)

\* From checkBounds to the last client of the broadcast every mouse on the
\* surface is where checkBounds leaves mice, also those that handlers add
\* meanwhile: nobody is shown a mouse beyond the border it has run over.
SentWithinBounds ==
    tick \in {"broadcast", "send"} =>
      \A m \in mice : level[m] = Surface => place[m] \in {Clamp[p] : p \in Place}

LEMMA SentWithinBoundsStep ==
    ASSUME TypeInv, SentWithinBounds, [Next]_vars
    PROVE  SentWithinBounds'
<1> USE DEF SentWithinBounds
<1>0. Surface \notin Tunnels /\ mice \subseteq Clients
  BY LevelAssumption DEF Surface, TypeInv, TypeOK, GameTypeOK
<1>1. ASSUME UNCHANGED <<tick, mice, level, place>> PROVE SentWithinBounds'
  BY <1>1
<1>2. CASE UNCHANGED vars
  BY <1>1, <1>2 DEF vars, miceVars, tickVars
<1>3. ASSUME NEW c \in Clients, ClientStep(c) PROVE SentWithinBounds'
  BY <1>1, <1>3, ClientFrame DEF miceVars, tickVars
<1>4. ASSUME NEW c \in Clients, HandlerStep(c) PROVE SentWithinBounds'
  <2>1. CASE AddMouse(c)
    <3>1. chosen[c] \in Tunnels
      BY <2>1 DEF AddMouse, TypeInv, PutHasTunnel
    <3>2. /\ level' = [level EXCEPT ![c] = chosen[c]]
          /\ \E p : place' = [place EXCEPT ![c] = p]
          /\ mice' = mice \cup {c} /\ UNCHANGED tick
      BY <2>1 DEF AddMouse, tickVars
    <3>3. \A m \in mice' : level'[m] = Surface =>
            m \in mice /\ level[m] = Surface /\ place'[m] = place[m]
      BY <1>0, <3>1, <3>2 DEF TypeInv, TypeOK, GameTypeOK
    <3> QED
      BY <3>2, <3>3
  <2>2. CASE ~AddMouse(c)
    BY <1>1, <1>4, <2>2 DEF HandlerStep, Accept, ReadRegister, ChooseTunnel, AddClient,
       AnswerId, ReadReady, ReadyVisible, HandshakeEnds, ReadAction, ActionLoopEnds,
       miceVars, tickVars
  <2> QED
    BY <2>1, <2>2
<1>5. CASE TickStep
  <2>1. CASE CheckState
    <3>1. UNCHANGED <<mice, level>>
      BY <2>1 DEF CheckState
    <3>2. ASSUME NEW m \in mice, level[m] = Surface
          PROVE  place[m] \in Place /\ place'[m] = Clamp[place[m]]
      BY <1>0, <2>1, <3>2 DEF CheckState, TypeInv, TypeOK, GameTypeOK
    <3> QED
      BY <3>1, <3>2
  <2>2. CASE BuildUpdate \/ \E c \in Clients : SendUpdate(c)
    BY <2>2 DEF BuildUpdate, SendUpdate, miceVars
  <2>3. ASSUME tick' \notin {"broadcast", "send"} PROVE SentWithinBounds'
    BY <2>3
  <2>4. ASSUME NEW c \in Clients,
               \/ FindReady(c) \/ FindUnready(c) \/ ProcessOrphan(c)
               \/ ProcessIncomplete(c) \/ ProcessDirection(c) \/ ProcessVote(c)
               \/ ProcessLevelChange(c) \/ CatCatches(c)
        PROVE  SentWithinBounds'
    BY <2>3, <2>4 DEF FindReady, FindUnready, ProcessOrphan, ProcessIncomplete,
       ProcessDirection, ProcessVote, ProcessLevelChange, Poll, CatCatches, tickVars
  <2>5. CASE \/ BeginCount \/ EndCount \/ BeginTick \/ StartGame \/ TimeCheck
             \/ ActionsDone \/ CatMisses \/ CatsDone \/ EndTick
    BY <2>3, <2>5 DEF BeginCount, EndCount, AfterCount, BeginTick, StartGame, TimeCheck,
       ActionsDone, CatMisses, CatsDone, EndTick
  <2> QED
    BY <1>5, <2>1, <2>2, <2>4, <2>5 DEF TickStep
<1>6. CASE Clock
  BY <1>1, <1>6, ClockFrame DEF miceVars, tickVars
<1> QED
  BY <1>2, <1>3, <1>4, <1>5, <1>6 DEF Next

\* However far the actions of a tick have taken a mouse, and whoever registers
\* while the update is built and written, what is shown of the surface is the
\* result of checkBounds.
THEOREM SentWithinBoundsCorrect == Spec => []SentWithinBounds
<1>1. Init => SentWithinBounds
  BY DEF Init, SentWithinBounds
<1>2. TypeInv /\ SentWithinBounds /\ [Next]_vars => SentWithinBounds'
  BY SentWithinBoundsStep
<1> QED
  BY <1>1, <1>2, TypeInvariant, PTL DEF Spec

-----------------------------------------------------------------------------
(* The server as one client sees it.                                       *)

(* How far the handshake with c is. *)
Stage(c) ==
    IF c \in clients /\ pc[c] # "answer"
    THEN IF said[c] = "ready" THEN "ready" ELSE "answered"
    ELSE IF said[c] = "nothing" THEN "new" ELSE "registered"

(* c is still to be sent an update that was built without its mouse. *)
Missed(c) == tick = "send" /\ c \in pending /\ c \notin shown

(* What the updates have of c; who they are for is settled by EndCount. *)
View(c) ==
    IF ~(started \/ tick = "start") THEN "lobby"
    ELSE IF c \notin clients \/ Missed(c) THEN "behind" ELSE "current"

SessionOf(c) == INSTANCE Session WITH stage <- Stage(c), view <- View(c)

\* A client that keeps to the protocol has with the server a session of the kind
\* that GameClient has with its environment: one id, no update before the game
\* starts, and at most one update without its own mouse, which only a client can
\* get that had not registered when the game started.
ImplementsSession == \A c \in Clients \ (Garblers \cup Eager) : SessionOf(c)!SessionSpec

(* A client that waits for its id is ready only when it has got it, and is *)
(* joined from then on.                                                    *)
SessionInv(c) ==
    /\ said[c] = "nothing" <=> conn[c] = "none"
    /\ said[c] = "nothing" => pc[c] = "none"
    /\ c \in clients => /\ said[c] # "nothing"
                        /\ pc[c] \in {"answer", "await", "play", "gone"}
    /\ first[c] = "id" \/ said[c] = "ready" => c \in clients /\ pc[c] # "answer"
    /\ ready[c] # "no" => said[c] = "ready"

LEMMA SessionInvStep ==
    ASSUME TypeInv, RegistrationInv, OrderInv, [Next]_vars,
           NEW c \in Clients \ (Garblers \cup Eager), SessionInv(c)
    PROVE  SessionInv(c)'
<1> USE DEF SessionInv
<1>0. /\ pc \in [Clients -> {"none", "register", "choose", "put", "add", "answer",
                             "await", "play", "gone"}]
      /\ conn \in [Clients -> {"none", "open", "stalled", "closed"}]
      /\ said \in [Clients -> {"nothing", "register", "ready"}]
      /\ first \in [Clients -> {"none", "id", "state"}]
      /\ ready \in [Clients -> {"no", "written", "seen"}]
  BY DEF TypeInv, TypeOK, SocketTypeOK, HandlerTypeOK
<1>1. ASSUME UNCHANGED <<said[c], conn[c], pc[c], first[c], ready[c]>>,
             c \in clients' <=> c \in clients
      PROVE  SessionInv(c)'
  BY <1>1
<1>2. CASE UNCHANGED vars
  BY <1>1, <1>2 DEF vars, clientVars, lineVars, handlerVars
<1>3. ASSUME NEW d \in Clients, ClientStep(d) PROVE SessionInv(c)'
  <2>1. UNCHANGED <<first, pc, ready, clients>>
    BY <1>3, ClientFrame DEF handlerVars
  <2>2. CASE Connect(d)
    BY <1>0, <2>1, <2>2 DEF Connect
  <2>3. CASE SendReady(d)
    BY <1>0, <2>1, <2>3 DEF SendReady
  <2>4. CASE Disconnect(d) \/ Stall(d)
    BY <1>0, <2>1, <2>4 DEF Disconnect, Stall, Connected
  <2>5. ASSUME NEW kind \in ActionKind, SendAction(d, kind) PROVE SessionInv(c)'
    BY <1>1, <2>1, <2>5 DEF SendAction
  <2> QED
    BY <1>3, <2>2, <2>3, <2>4, <2>5 DEF ClientStep
<1>4. ASSUME NEW d \in Clients, HandlerStep(d) PROVE SessionInv(c)'
  <2>1. CASE d # c
    <3>1. UNCHANGED <<said[c], conn[c], pc[c], first[c], ready[c]>>
      BY <1>0, <1>4, <2>1 DEF HandlerStep, Accept, ReadRegister, ChooseTunnel, AddMouse,
         AddClient, AnswerId, ReadReady, ReadyVisible, HandshakeEnds, ReadAction,
         ActionLoopEnds, Goto, FirstLine, clientVars, lineVars, handlerVars
    <3>2. c \in clients' <=> c \in clients
      BY <1>4, <2>1 DEF HandlerStep, Accept, ReadRegister, ChooseTunnel, AddMouse,
         AddClient, AnswerId, ReadReady, ReadyVisible, HandshakeEnds, ReadAction,
         ActionLoopEnds
    <3> QED
      BY <1>1, <3>1, <3>2
  <2>2. CASE Accept(c)
    BY <1>0, <2>2 DEF Accept, Goto, clientVars, lineVars
  <2>3. CASE ReadRegister(c) \/ ChooseTunnel(c) \/ AddMouse(c)
    BY <1>0, <2>3 DEF ReadRegister, AfterRegister, AfterMisfit, ChooseTunnel, AddMouse,
       Goto, clientVars, lineVars
  <2>4. CASE AddClient(c)
    BY <1>0, <2>4 DEF AddClient, Goto, clientVars, lineVars
  <2>5. CASE AnswerId(c)
    BY <1>0, <2>5 DEF AnswerId, Goto, FirstLine, clientVars, RegistrationInv
  <2>6. CASE ReadReady(c)
    <3>1. said[c] = "ready"
      <4>1. ahead[c] # << >> \/ inbox[c] # << >>
        BY <2>6 DEF ReadReady, ReadLine
      <4>2. InOrder(c) /\ pc[c] = "await"
        BY <2>6 DEF OrderInv, ReadReady
      <4> QED
        BY <4>1, <4>2 DEF InOrder, Reading
    <3> QED
      BY <1>0, <2>6, <3>1 DEF ReadReady, AfterReady, AfterMisfit, Goto, clientVars,
         RegistrationInv
  <2>7. CASE ReadyVisible(c)
    BY <1>0, <2>7 DEF ReadyVisible, clientVars, lineVars
  <2>8. CASE HandshakeEnds(c) \/ ActionLoopEnds(c)
    BY <1>0, <2>8 DEF HandshakeEnds, ActionLoopEnds, Goto, clientVars, lineVars
  <2>9. CASE ReadAction(c)
    BY <1>1, <2>9 DEF ReadAction, clientVars, handlerVars
  <2> QED
    BY <1>4, <2>1, <2>2, <2>3, <2>4, <2>5, <2>6, <2>7, <2>8, <2>9 DEF HandlerStep
<1>5. CASE TickStep
  <2>1. UNCHANGED <<said, conn, pc, ready, clients>>
    BY <1>5, TickFrame DEF clientVars, handlerVars
  <2>2. first'[c] = first[c] \/ (first[c] = "none" /\ first'[c] = "state")
    BY <1>0, <1>5 DEF TickStep, BeginCount, FindReady, FindUnready, EndCount, BeginTick,
       StartGame, TimeCheck, ProcessOrphan, ProcessIncomplete, ProcessDirection,
       ProcessVote, ProcessLevelChange, CatCatches, SendUpdate, FirstLine, ActionsDone,
       CatMisses, CatsDone, CheckState, BuildUpdate, EndTick, lineVars
  <2> QED
    BY <2>1, <2>2
<1>6. CASE Clock
  BY <1>1, <1>6, ClockFrame DEF clientVars, lineVars, handlerVars
<1> QED
  BY <1>2, <1>3, <1>4, <1>5, <1>6 DEF Next

(* What a step may do to the session. *)
LEMMA SessionMoves ==
    ASSUME NEW c,
           \/ UNCHANGED <<Stage(c), View(c)>>
           \/ /\ UNCHANGED View(c)
              /\ \/ Stage(c) = "new" /\ Stage(c)' = "registered"
                 \/ Stage(c) = "registered" /\ Stage(c)' = "answered"
                 \/ Stage(c) = "answered" /\ Stage(c)' = "ready"
           \/ /\ UNCHANGED Stage(c)
              /\ \/ View(c) = "lobby" /\ Stage(c) # "new" /\ View(c)' = "current"
                 \/ /\ View(c) = "lobby" /\ Stage(c) \in {"new", "registered"}
                    /\ View(c)' = "behind"
                 \/ View(c) = "behind" /\ Stage(c) # "new" /\ View(c)' = "current"
    PROVE  [SessionOf(c)!SessionNext]_(SessionOf(c)!sessionVars)
BY DEF SessionOf!SessionNext, SessionOf!sessionVars, SessionOf!Go, SessionOf!SayRegister,
   SessionOf!GiveId, SessionOf!SayReady, SessionOf!Begin, SessionOf!CatchUp

LEMMA SessionStep ==
    ASSUME TypeInv, RegistrationInv, StartInv, [Next]_vars,
           NEW c \in Clients \ (Garblers \cup Eager), SessionInv(c)
    PROVE  [SessionOf(c)!SessionNext]_(SessionOf(c)!sessionVars)
<1> DEFINE Moves1 == [SessionOf(c)!SessionNext]_(SessionOf(c)!sessionVars)
<1>0. /\ pc \in [Clients -> {"none", "register", "choose", "put", "add", "answer",
                             "await", "play", "gone"}]
      /\ conn \in [Clients -> {"none", "open", "stalled", "closed"}]
      /\ said \in [Clients -> {"nothing", "register", "ready"}]
      /\ c \in Clients
  BY DEF TypeInv, TypeOK, SocketTypeOK, HandlerTypeOK
<1>1. ASSUME UNCHANGED said[c], c \in clients' <=> c \in clients,
             c \in clients => (pc'[c] = "answer" <=> pc[c] = "answer")
      PROVE  UNCHANGED Stage(c)
  BY <1>1 DEF Stage
<1>2. ASSUME c \in clients' <=> c \in clients,
             UNCHANGED <<started, tick, shown>>, c \in pending' <=> c \in pending
      PROVE  UNCHANGED View(c)
  BY <1>2 DEF View, Missed
<1>3. CASE UNCHANGED vars
  BY <1>1, <1>2, <1>3, SessionMoves DEF vars, clientVars, handlerVars, tickVars, gameVars
<1>4. ASSUME NEW d \in Clients, ClientStep(d) PROVE Moves1
  <2>1. UNCHANGED <<first, pc, clients, started, tick, shown, pending>>
    BY <1>4, ClientFrame DEF handlerVars, tickVars, gameVars
  <2>2. UNCHANGED View(c)
    BY <1>2, <2>1
  <2>3. CASE d = c /\ Connect(c)
    <3>1. said[c] = "nothing" /\ said'[c] = "register" /\ c \notin clients
      BY <1>0, <2>3 DEF Connect, SessionInv
    <3>2. Stage(c) = "new" /\ Stage(c)' = "registered"
      BY <2>1, <3>1 DEF Stage
    <3> QED
      BY <2>2, <3>2, SessionMoves
  <2>4. CASE d = c /\ SendReady(c)
    <3>1. /\ said[c] = "register" /\ said'[c] = "ready"
          /\ c \in clients /\ pc[c] # "answer"
      BY <1>0, <2>4 DEF SendReady, SessionInv
    <3>2. Stage(c) = "answered" /\ Stage(c)' = "ready"
      BY <2>1, <3>1 DEF Stage
    <3> QED
      BY <2>2, <3>2, SessionMoves
  <2>5. CASE said'[c] = said[c]
    BY <1>1, <2>1, <2>2, <2>5, SessionMoves
  <2>6. \/ d = c /\ (Connect(c) \/ SendReady(c))
        \/ said'[c] = said[c]
    BY <1>0, <1>4 DEF ClientStep, Connect, SendReady, SendAction, Disconnect, Stall
  <2> QED
    BY <2>3, <2>4, <2>5, <2>6
<1>5. ASSUME NEW d \in Clients, HandlerStep(d) PROVE Moves1
  <2>1. UNCHANGED <<said, started, tick, shown>>
    BY <1>5 DEF HandlerStep, Accept, ReadRegister, ChooseTunnel, AddMouse, AddClient,
       AnswerId, ReadReady, ReadyVisible, HandshakeEnds, ReadAction, ActionLoopEnds,
       clientVars, tickVars, gameVars
  <2>2. CASE d = c /\ AddClient(c)
    <3>1. /\ c \notin clients /\ c \in clients' /\ pc'[c] = "answer"
          /\ said[c] # "nothing"
      BY <1>0, <2>2 DEF AddClient, Goto, SessionInv
    <3>2. UNCHANGED Stage(c) /\ Stage(c) = "registered"
      BY <2>1, <3>1 DEF Stage
    <3>3. \/ UNCHANGED View(c)
          \/ View(c) = "behind" /\ View(c)' = "current"
      BY <2>1, <3>1 DEF View
    <3> QED
      BY <3>2, <3>3, SessionMoves
  <2>3. CASE d = c /\ AnswerId(c)
    <3>1. UNCHANGED <<clients, pending>>
      BY <2>3 DEF AnswerId, tickVars
    <3>2. /\ pc[c] = "answer" /\ pc'[c] # "answer" /\ c \in clients
          /\ said[c] \notin {"nothing", "ready"}
      BY <1>0, <2>3 DEF AnswerId, Goto, RegistrationInv, SessionInv
    <3>3. Stage(c) = "registered" /\ Stage(c)' = "answered"
      BY <2>1, <3>1, <3>2 DEF Stage
    <3> QED
      BY <1>2, <2>1, <3>1, <3>3, SessionMoves
  <2>4. CASE ~(d = c /\ (AddClient(c) \/ AnswerId(c)))
    <3>1. /\ c \in clients' <=> c \in clients
          /\ c \in pending' <=> c \in pending
      BY <1>5, <2>4 DEF HandlerStep, Accept, ReadRegister, ChooseTunnel, AddMouse,
         AddClient, AnswerId, ReadReady, ReadyVisible, HandshakeEnds, ReadAction,
         ActionLoopEnds, tickVars
    <3>2. c \in clients => (pc'[c] = "answer" <=> pc[c] = "answer")
      BY <1>0, <1>5, <2>4 DEF HandlerStep, Accept, ReadRegister, AfterRegister,
         AfterMisfit, AfterReady, ChooseTunnel, AddMouse, AddClient, AnswerId, ReadReady, ReadyVisible,
         HandshakeEnds, ReadAction, ActionLoopEnds, Goto, handlerVars
    <3> QED
      BY <1>1, <1>2, <2>1, <3>1, <3>2, SessionMoves
  <2> QED
    BY <2>2, <2>3, <2>4
<1>6. CASE TickStep
  <2>1. UNCHANGED <<said, pc, clients>>
    BY <1>6, TickFrame DEF clientVars, handlerVars
  <2>2. UNCHANGED Stage(c)
    BY <1>1, <2>1
  <2>3. CASE EndCount
    <3>1. tick = "count" /\ tick' = "start" /\ ~started /\ ~started'
      BY <2>3 DEF EndCount, AfterCount, StartInv, gameVars
    <3>2. c \in clients => Stage(c) # "new"
      BY DEF Stage, SessionInv
    <3>3. c \notin clients => Stage(c) \in {"new", "registered"}
      BY DEF Stage
    <3>4. View(c) = "lobby"
          /\ View(c)' = IF c \in clients THEN "current" ELSE "behind"
      BY <2>1, <3>1 DEF View, Missed
    <3> QED
      BY <2>2, <3>2, <3>3, <3>4, SessionMoves
  <2>10. ASSUME ~started, ~started', tick # "start", tick' # "start" PROVE Moves1
    <3>1. UNCHANGED View(c)
      BY <2>10 DEF View
    <3> QED
      BY <2>2, <3>1, SessionMoves
  <2>4. CASE BuildUpdate
    <3>1. started /\ started' /\ tick = "broadcast" /\ tick' = "send"
      BY <2>4 DEF BuildUpdate, StartInv, gameVars
    <3>2. c \in clients => c \in shown'
      BY <2>4 DEF BuildUpdate, MappedMice, RegistrationInv, ClientsHaveMice
    <3>3. UNCHANGED View(c)
      BY <2>1, <3>1, <3>2 DEF View, Missed
    <3> QED
      BY <2>2, <3>3, SessionMoves
  <2>5. ASSUME NEW d \in Clients, SendUpdate(d) PROVE Moves1
    <3>1. started /\ started' /\ UNCHANGED <<tick, shown>> /\ pending' \subseteq pending
      BY <2>5 DEF SendUpdate, StartInv, gameVars
    <3>2. UNCHANGED View(c) \/ (View(c) = "behind" /\ View(c)' = "current" /\ c \in clients)
      BY <2>1, <3>1 DEF View, Missed
    <3>3. c \in clients => Stage(c) # "new"
      BY DEF Stage, SessionInv
    <3> QED
      BY <2>2, <3>2, <3>3, SessionMoves
  <2>6. CASE EndTick
    <3>1. started /\ started' /\ tick' = "idle" /\ pending = {}
      BY <2>6 DEF EndTick, StartInv, gameVars
    <3>2. UNCHANGED View(c)
      BY <2>1, <3>1 DEF View, Missed
    <3> QED
      BY <2>2, <3>2, SessionMoves
  <2>7. CASE StartGame
    <3>1. tick = "start" /\ tick' = "time" /\ started'
      BY <2>7 DEF StartGame
    <3>2. UNCHANGED View(c)
      BY <2>1, <3>1 DEF View, Missed
    <3> QED
      BY <2>2, <3>2, SessionMoves
  <2>8. ASSUME started, started', tick # "send", tick' # "send"
        PROVE  Moves1
    <3>1. UNCHANGED View(c)
      BY <2>1, <2>8 DEF View, Missed
    <3> QED
      BY <2>2, <3>1, SessionMoves
  <2>9. \/ EndCount
        \/ ~started /\ ~started' /\ tick # "start" /\ tick' # "start"
        \/ BuildUpdate \/ EndTick \/ StartGame
        \/ \E d \in Clients : SendUpdate(d)
        \/ started /\ started' /\ tick # "send" /\ tick' # "send"
    BY <1>6 DEF TickStep, BeginCount, FindReady, FindUnready, BeginTick, TimeCheck,
       ProcessOrphan, ProcessIncomplete, ProcessDirection, ProcessVote,
       ProcessLevelChange, Poll, CatCatches, ActionsDone, CatMisses, CatsDone, CheckState,
       StartInv, tickVars, gameVars
  <2> QED
    BY <2>3, <2>4, <2>5, <2>6, <2>7, <2>8, <2>9, <2>10
<1>7. CASE Clock
  BY <1>1, <1>2, <1>7, ClockFrame, SessionMoves DEF clientVars, handlerVars, tickVars
<1> QED
  BY <1>3, <1>4, <1>5, <1>6, <1>7 DEF Next

\* The server does to a client only what the client's model expects, however
\* many others register, act and disconnect, and also if one joins late.
THEOREM ImplementsSessionCorrect == Spec => ImplementsSession
<1> SUFFICES ASSUME NEW c \in Clients \ (Garblers \cup Eager)
             PROVE  Spec => SessionOf(c)!SessionSpec
  BY DEF ImplementsSession
<1>1. Init => SessionInv(c) /\ SessionOf(c)!SessionInit
  BY DEF Init, SessionInv, SessionOf!SessionInit, Stage, View
<1>2. TypeInv /\ RegistrationInv /\ OrderInv /\ SessionInv(c) /\ [Next]_vars
      => SessionInv(c)'
  BY SessionInvStep
<1>3. TypeInv /\ RegistrationInv /\ StartInv /\ SessionInv(c) /\ [Next]_vars
      => [SessionOf(c)!SessionNext]_(SessionOf(c)!sessionVars)
  BY SessionStep
<1> QED
  BY <1>1, <1>2, <1>3, OrderCorrect, PTL DEF Spec, SessionOf!SessionSpec
=============================================================================
