---------------------------- MODULE ServerOnField ----------------------------
(***************************************************************************)
(* The game server on the real field.  GameServer is proved for any        *)
(* positions that satisfy IsGeometry; here its positions are those of      *)
(* GameField, its doors, cells and spawn points those of the five tunnels. *)
(***************************************************************************)
EXTENDS FieldGeometry

CONSTANTS Clients, NumCats, Garblers, Eager, MayStall, InboxCap, MaxActs

VARIABLES
    conn, inbox, ahead, said, acts, first, pc, chosen, mice, level, place,
    clients, ready, queue, tick, cats, catsLeft, started, late, status, snaps,
    pending, shown, starters

Server == INSTANCE GameServer_proofs WITH
    Place <- Position, Moves <- MovesFrom, Clamp <- Clamping,
    DoorsOf <- DoorPlaces, CellsOf <- TunnelPlaces, SpawnOf <- SpawnPlaces

\* What GameServer assumes of the clients and the bounds; what it assumes of
\* the levels and of the positions is proved below.
AnyClients ==
    /\ NumCats \in Nat
    /\ InboxCap \in Nat \ {0}
    /\ MaxActs \in Nat
    /\ Garblers \subseteq Clients
    /\ Eager \subseteq Clients
    /\ MayStall \subseteq Clients

LEMMA LevelsOfField == Tunnels \subseteq Nat \ {Server!Surface}
  BY DEF Tunnels, Server!Surface

LEMMA GeometryOfField ==
    Server!IsGeometry(Tunnels, Position, MovesFrom, Clamping, DoorPlaces,
                      TunnelPlaces, SpawnPlaces)
  BY FieldIsAGeometry DEF IsGeometry, Server!IsGeometry

\* A mouse that the server has underground is within the tunnel of its level,
\* as GameField.isPosWithinTunnel has it: sent into a tunnel that is elsewhere
\* it would be refused its steps, and stuck for the rest of the game.
NobodyIsStuck ==
    \A m \in mice : level[m] # 0 => IsPosWithinTunnel(place[m], level[m])

THEOREM NobodyIsStuckCorrect == AnyClients /\ Server!Spec => []NobodyIsStuck
<1> SUFFICES ASSUME AnyClients PROVE Server!Spec => []NobodyIsStuck
  OBVIOUS
<1>1. Server!Spec => []Server!TypeOK
  BY Server!TypeCorrect, LevelsOfField, GeometryOfField DEF AnyClients
<1>2. Server!Spec => []Server!UndergroundInTunnel
  BY Server!UndergroundCorrect, LevelsOfField, GeometryOfField DEF AnyClients
<1>3. Server!TypeOK /\ Server!UndergroundInTunnel => NobodyIsStuck
  <2> SUFFICES ASSUME Server!TypeOK, Server!UndergroundInTunnel,
                      NEW m \in mice, level[m] # 0
               PROVE  IsPosWithinTunnel(place[m], level[m])
    BY DEF NobodyIsStuck
  <2>1. level[m] \in Tunnels
    BY DEF Server!TypeOK, Server!GameTypeOK, Server!Surface
  <2>2. place[m] \in TunnelPlaces[level[m]]
    BY DEF Server!UndergroundInTunnel, Server!Surface
  <2> QED
    BY <2>1, <2>2 DEF TunnelPlaces
<1> QED
  BY <1>1, <1>2, <1>3, PTL

\* A mouse comes to the surface only in a door of the tunnel it was in, wherever
\* on the field it roams and however LEVEL_CHANGE goes through the five tunnels.
SurfacesAtOwnDoor ==
    [][\A m \in mice : level[m] # 0 /\ level'[m] = 0
                         => IsPosWithinDoor(place[m], level[m])]_(Server!vars)

THEOREM SurfacesAtOwnDoorCorrect == AnyClients /\ Server!Spec => SurfacesAtOwnDoor
<1> SUFFICES ASSUME AnyClients PROVE Server!Spec => SurfacesAtOwnDoor
  OBVIOUS
<1> DEFINE ByDoorOfServer == \A m \in mice :
             level[m] # Server!Surface /\ level'[m] = Server!Surface
               => place[m] \in DoorPlaces[level[m]]
           ByDoorOfField == \A m \in mice : level[m] # 0 /\ level'[m] = 0
                              => IsPosWithinDoor(place[m], level[m])
<1>1. Server!Spec => []Server!TypeOK
  BY Server!TypeCorrect, LevelsOfField, GeometryOfField DEF AnyClients
<1>2. Server!Spec => [][ByDoorOfServer]_(Server!vars)
  BY Server!LeavesByOwnDoorCorrect, LevelsOfField, GeometryOfField
     DEF AnyClients, Server!LeavesByOwnDoor
<1>3. Server!TypeOK /\ [ByDoorOfServer]_(Server!vars) => [ByDoorOfField]_(Server!vars)
  <2> SUFFICES ASSUME Server!TypeOK, ByDoorOfServer,
                      NEW m \in mice, level[m] # 0, level'[m] = 0
               PROVE  IsPosWithinDoor(place[m], level[m])
    OBVIOUS
  <2>1. level[m] \in Tunnels
    BY DEF Server!TypeOK, Server!GameTypeOK, Server!Surface
  <2>2. place[m] \in DoorPlaces[level[m]]
    BY DEF Server!Surface
  <2> QED
    BY <2>1, <2>2 DEF DoorPlaces
<1> QED
  BY <1>1, <1>2, <1>3, PTL DEF SurfacesAtOwnDoor

\* While an update is broadcast no mouse on the surface is beyond the border of
\* the field: what the clients are shown has been through checkBounds, although
\* an action may have taken the mouse out of the field in the same tick.
NobodyIsShownOutside ==
    tick \in {"broadcast", "send"} =>
      \A m \in mice : level[m] = 0 => InBounds(place[m])

THEOREM NobodyIsShownOutsideCorrect ==
    AnyClients /\ Server!Spec => []NobodyIsShownOutside
<1> SUFFICES ASSUME AnyClients PROVE Server!Spec => []NobodyIsShownOutside
  OBVIOUS
<1>1. Server!Spec => []Server!SentWithinBounds
  BY Server!SentWithinBoundsCorrect, LevelsOfField, GeometryOfField DEF AnyClients
<1>2. Server!SentWithinBounds => NobodyIsShownOutside
  <2> SUFFICES ASSUME Server!SentWithinBounds, tick \in {"broadcast", "send"},
                      NEW m \in mice, level[m] = 0
               PROVE  InBounds(place[m])
    BY DEF NobodyIsShownOutside
  <2>1. PICK p \in Position : place[m] = Clamping[p]
    BY DEF Server!SentWithinBounds, Server!Surface
  <2> QED
    BY <2>1, ClampType DEF Clamping
<1> QED
  BY <1>1, <1>2, PTL
=============================================================================
