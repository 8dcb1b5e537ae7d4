---------------------------- MODULE FieldGeometry ----------------------------
(***************************************************************************)
(* The real field in the terms of the constants of GameServer, and that it *)
(* satisfies what GameServer assumes of them.                              *)
(***************************************************************************)
EXTENDS GameField, TunnelGeometry, TLAPS

(* Where the nodes are: the tunnels lie in boxes that are disjoint, but for *)
(* tunnels 3 and 4, which the second part of Region keeps apart.            *)
Region(t, x, y) ==
    /\ t = 1 => x \in 6..8 /\ y \in 1..4
    /\ t = 2 => x \in 10..13 /\ y \in 1..3
    /\ t = 3 => x \in 5..10 /\ y \in 6..9 /\ (y = 9 => x = 8)
    /\ t = 4 => x \in 1..5 /\ y \in 9..13
    /\ t = 5 => x \in 7..14 /\ y \in 11..15

LEMMA NodeRegion ==
    ASSUME NEW t \in Tunnels, NEW n \in NodesOf(t)
    PROVE  /\ n.x \in Int /\ n.y \in Int
           /\ n.links \subseteq Direction
           /\ Region(t, n.x, n.y)
<1> USE DEF Tile, Door, TunnelNode, Region, Direction, NodesOf
<1>1. CASE t = 1
  BY <1>1 DEF Tunnel1
<1>2. CASE t = 2
  BY <1>2 DEF Tunnel2
<1>3. CASE t = 3
  BY <1>3 DEF Tunnel3
<1>4. CASE t = 4
  BY <1>4 DEF Tunnel4
<1>5. CASE t = 5
  BY <1>5 DEF Tunnel5
<1> QED
  BY <1>1, <1>2, <1>3, <1>4, <1>5 DEF Tunnels

LEMMA RegionsDisjoint ==
    ASSUME NEW s \in Tunnels, NEW t \in Tunnels, NEW x \in Int, NEW y \in Int,
           Region(s, x, y), Region(t, x, y)
    PROVE  s = t
  BY DEF Region, Tunnels

LEMMA OneNode ==
    ASSUME NEW v \in Int, NEW i \in Int, NEW j \in Int,
           v - 24 >= 60 * i - 6, v + 24 <= 60 * (i + 1) + 6,
           v >= 60 * j - 6, v <= 60 * (j + 1) + 6
    PROVE  i = j
<1>1. 60 * (i - j) <= 48
  OBVIOUS
<1>2. 60 * (j - i) <= 48
  OBVIOUS
<1> QED
  BY <1>1, <1>2

(* A mouse within a door is within no other node: a node that is enlarged  *)
(* by the slack, even where a connection lets the mouse stick out, does    *)
(* not reach to where the whole mouse is within the door.                  *)
LEMMA DoorIsOneNode ==
    ASSUME NEW p \in Position, NEW n, NEW m,
           n.x \in Int, n.y \in Int, m.x \in Int, m.y \in Int,
           PosWithinNode(p, n, {}, 0), PosWithinNode(p, m, m.links, 0)
    PROVE  n.x = m.x /\ n.y = m.y
<1> USE DEF Node, HalfMouse, Slack, Position
<1>1. /\ p.x - 24 >= 60 * n.x - 6 /\ p.x + 24 <= 60 * (n.x + 1) + 6
      /\ p.y - 24 >= 60 * n.y - 6 /\ p.y + 24 <= 60 * (n.y + 1) + 6
  BY DEF PosWithinNode
<1>2. /\ p.x >= 60 * m.x - 6 /\ p.x <= 60 * (m.x + 1) + 6
      /\ p.y >= 60 * m.y - 6 /\ p.y <= 60 * (m.y + 1) + 6
  BY DEF PosWithinNode
<1>3. p.x \in Int /\ p.y \in Int
  OBVIOUS
<1> QED
  BY <1>1, <1>2, <1>3, OneNode

LEMMA DoorWithinTunnel ==
    ASSUME NEW p \in Position, NEW t \in Tunnels, IsPosWithinDoor(p, t)
    PROVE  IsPosWithinTunnel(p, t)
<1>1. PICK n \in NodesOf(t) : PosWithinNode(p, n, {}, 0)
  BY DEF IsPosWithinDoor
<1>2. PosWithinNode(p, n, n.links, 0)
  BY <1>1, NodeRegion DEF PosWithinNode, Node, HalfMouse, Slack, Position
<1> QED
  BY <1>2 DEF IsPosWithinTunnel

LEMMA SpawnWithinTunnel ==
    ASSUME NEW t \in Tunnels, NEW p \in SpawnPoints(t)
    PROVE  p \in Position /\ IsPosWithinTunnel(p, t)
<1>1. PICK n \in NodesOf(t) : p = Middle(n)
  BY DEF SpawnPoints
<1>2. p \in Position /\ p.x = 60 * n.x + 30 /\ p.y = 60 * n.y + 30
  BY <1>1, NodeRegion DEF Middle, Node, Position
<1>3. PosWithinNode(p, n, n.links, 0)
  BY <1>2, NodeRegion DEF PosWithinNode, Node, HalfMouse, Slack, Position
<1> QED
  BY <1>2, <1>3 DEF IsPosWithinTunnel

\* A position within a door of one tunnel is nowhere within another tunnel, so
\* the first tunnel that LEVEL_CHANGE finds is the only one it can find, and
\* the one the mouse is in.
THEOREM DoorsAreSeparate ==
    ASSUME NEW p \in Position, NEW s \in Tunnels, NEW t \in Tunnels,
           IsPosWithinDoor(p, s), IsPosWithinTunnel(p, t)
    PROVE  s = t
<1>1. PICK n \in NodesOf(s) : PosWithinNode(p, n, {}, 0)
  BY DEF IsPosWithinDoor
<1>2. PICK m \in NodesOf(t) : PosWithinNode(p, m, m.links, 0)
  BY DEF IsPosWithinTunnel
<1>3. /\ n.x \in Int /\ n.y \in Int /\ Region(s, n.x, n.y)
      /\ m.x \in Int /\ m.y \in Int /\ Region(t, m.x, m.y)
  BY NodeRegion
<1>4. n.x = m.x /\ n.y = m.y
  BY <1>1, <1>2, <1>3, DoorIsOneNode
<1> QED
  BY <1>3, <1>4, RegionsDisjoint

LEMMA StepType ==
    ASSUME NEW p \in Position, NEW d \in Direction
    PROVE  StepTo(p, d) \in Position
  BY DEF StepTo, DirX, DirY, Speed, Position

LEMMA ClampType ==
    ASSUME NEW p \in Position
    PROVE  ClampPos(p) \in Position /\ InBounds(ClampPos(p))
  BY DEF ClampPos, InBounds, Between, MaxX, MaxY, Node, HalfMouse, Bounds, Position

(* The field in the terms of the constants of GameServer. *)
MovesFrom == [p \in Position |-> {StepTo(p, d) : d \in Direction}]
Clamping == [p \in Position |-> ClampPos(p)]
DoorPlaces == [t \in Tunnels |-> {p \in Position : IsPosWithinDoor(p, t)}]
TunnelPlaces == [t \in Tunnels |-> {p \in Position : IsPosWithinTunnel(p, t)}]
SpawnPlaces == [t \in Tunnels |-> SpawnPoints(t)]

\* What the server's model assumes of positions holds for the real field: the
\* theorems of GameServer apply to it.
THEOREM FieldIsAGeometry ==
    IsGeometry(Tunnels, Position, MovesFrom, Clamping, DoorPlaces, TunnelPlaces,
               SpawnPlaces)
<1>1. [x |-> 0, y |-> 0] \in Position
  BY DEF Position
<1>2. MovesFrom \in [Position -> SUBSET Position]
  BY StepType DEF MovesFrom
<1>3. Clamping \in [Position -> Position]
  BY ClampType DEF Clamping
<1>4. /\ DoorPlaces \in [Tunnels -> SUBSET Position]
      /\ TunnelPlaces \in [Tunnels -> SUBSET Position]
  BY DEF DoorPlaces, TunnelPlaces
<1>5. SpawnPlaces \in [Tunnels -> SUBSET Position]
  BY SpawnWithinTunnel DEF SpawnPlaces
<1>6. \A t \in Tunnels : DoorPlaces[t] \subseteq TunnelPlaces[t]
  BY DoorWithinTunnel DEF DoorPlaces, TunnelPlaces
<1>7. \A t \in Tunnels : SpawnPlaces[t] \subseteq TunnelPlaces[t]
  BY SpawnWithinTunnel DEF SpawnPlaces, TunnelPlaces
<1>8. \A s, t \in Tunnels : s # t => DoorPlaces[s] \cap TunnelPlaces[t] = {}
  BY DoorsAreSeparate DEF DoorPlaces, TunnelPlaces
<1> QED
  BY <1>1, <1>2, <1>3, <1>4, <1>5, <1>6, <1>7, <1>8 DEF IsGeometry
=============================================================================
