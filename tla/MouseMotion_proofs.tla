------------------------- MODULE MouseMotion_proofs -------------------------
(***************************************************************************)
(* A mouse on the real field stays within its tunnel and within the field, *)
(* and no step along a lane is refused.                                    *)
(***************************************************************************)
EXTENDS MouseMotion, FieldGeometry

MotionInv == TypeOK /\ StaysUnderground /\ SurfaceInBounds

LEMMA MotionInit == Init => MotionInv
<1> SUFFICES ASSUME Init PROVE MotionInv
  OBVIOUS
<1>1. level \in Tunnels /\ pos \in Position /\ IsPosWithinTunnel(pos, level)
  BY SpawnWithinTunnel DEF Init
<1>2. level # 0 /\ acts = 0
  BY DEF Init, Tunnels
<1> QED
  BY <1>1, <1>2, ActionsAssumption DEF MotionInv, TypeOK, StaysUnderground,
     SurfaceInBounds

LEMMA MotionStep == MotionInv /\ [Next]_vars => MotionInv'
<1> SUFFICES ASSUME MotionInv, [Next]_vars PROVE MotionInv'
  OBVIOUS
<1> USE ActionsAssumption DEF MotionInv, TypeOK, StaysUnderground, SurfaceInBounds
<1>1. ASSUME NEW d \in Direction, Move(d) PROVE MotionInv'
  <2>1. acts' \in 1..MaxActions /\ level' = level
    BY <1>1 DEF Move
  <2>2. pos' = pos \/ (pos' = StepTo(pos, d) /\ MayGoTo(pos'))
    BY <1>1 DEF Move
  <2>3. pos' \in Position
    BY <2>2, StepType
  <2>4. level' # 0 => IsPosWithinTunnel(pos', level')
    BY <2>1, <2>2 DEF MayGoTo
  <2> QED
    BY <2>1, <2>3, <2>4
<1>2. CASE LevelChange
  <2>1. acts' \in 1..MaxActions /\ pos' = pos
    BY <1>2 DEF LevelChange
  <2>2. PICK t \in Tunnels : /\ IsPosWithinDoor(pos, t)
                             /\ level' = IF level = 0 THEN t ELSE 0
    BY <1>2 DEF LevelChange
  <2>3. IsPosWithinTunnel(pos, t)
    BY <2>2, DoorWithinTunnel
  <2> QED
    BY <2>1, <2>2, <2>3
<1>3. CASE CheckBounds
  <2>1. acts' = 0 /\ level' = level
    BY <1>3 DEF CheckBounds
  <2>2. pos' = IF level = 0 THEN ClampPos(pos) ELSE pos
    BY <1>3 DEF CheckBounds
  <2>3. pos' \in Position
    BY <2>2, ClampType
  <2>4. level = 0 => InBounds(pos')
    BY <2>2, ClampType
  <2> QED
    BY <2>1, <2>2, <2>3, <2>4
<1>4. CASE UNCHANGED vars
  BY <1>4 DEF vars
<1> QED
  BY <1>1, <1>2, <1>3, <1>4 DEF Next

\* A mouse has a position and a level of the field, whatever it does.
THEOREM TypeCorrect == Spec => []TypeOK
<1>1. MotionInv => TypeOK
  BY DEF MotionInv
<1> QED
  BY <1>1, MotionInit, MotionStep, PTL DEF Spec

\* However long a mouse wanders over the real field and however its position
\* is rounded, underground it is within its tunnel.
THEOREM StaysUndergroundCorrect == Spec => []StaysUnderground
<1>1. MotionInv => StaysUnderground
  BY DEF MotionInv
<1> QED
  BY <1>1, MotionInit, MotionStep, PTL DEF Spec

\* Whatever a mouse does in a tick, it is within the field when the tick ends
\* on the surface.
THEOREM SurfaceInBoundsCorrect == Spec => []SurfaceInBounds
<1>1. MotionInv => SurfaceInBounds
  BY DEF MotionInv
<1> QED
  BY <1>1, MotionInit, MotionStep, PTL DEF Spec

-----------------------------------------------------------------------------
(* The lanes.                                                              *)

Opposite(d) == IF d = North THEN South ELSE IF d = South THEN North
               ELSE IF d = East THEN West ELSE East

(* Node m is where the connection d of node n leads, and is connected back. *)
LeadsTo(n, d, m) ==
    /\ m.x = n.x + DirX(d) /\ m.y = n.y + DirY(d)
    /\ Opposite(d) \in m.links

LEMMA ConnectionsLead ==
    ASSUME NEW t \in Tunnels, NEW n \in NodesOf(t), NEW d \in n.links
    PROVE  \E m \in NodesOf(t) : LeadsTo(n, d, m)
<1> DEFINE Linked(nodes) ==
             \A a \in nodes : \A e \in a.links : \E b \in nodes : LeadsTo(a, e, b)
<1>1. /\ Linked(Tunnel1)
      /\ Linked(Tunnel2)
      /\ Linked(Tunnel3)
      /\ Linked(Tunnel4)
      /\ Linked(Tunnel5)
  <2> USE DEF Tile, Door, TunnelNode, LeadsTo, Opposite, DirX, DirY, North, South, East, West
  <2>1. Linked(Tunnel1)
    BY DEF Tunnel1
  <2>2. Linked(Tunnel2)
    BY DEF Tunnel2
  <2>3. Linked(Tunnel3)
    BY DEF Tunnel3
  <2>4. Linked(Tunnel4)
    BY DEF Tunnel4
  <2>5. Linked(Tunnel5)
    BY DEF Tunnel5
  <2> QED
    BY <2>1, <2>2, <2>3, <2>4, <2>5
<1>2. NodesOf(t) \in {Tunnel1, Tunnel2, Tunnel3, Tunnel4, Tunnel5}
  BY DEF NodesOf, Tunnels
<1>3. Linked(NodesOf(t))
  <2> HIDE DEF Linked
  <2> QED
    BY <1>1, <1>2
<1> QED
  BY <1>3

(* One step along a lane ends within the node, or within the next one.      *)
LEMMA StepOnLane ==
    ASSUME NEW n, n.x \in Int, n.y \in Int, NEW d \in n.links, d \in Direction,
           NEW m, LeadsTo(n, d, m), pos \in Position,
           PosWithinNode(pos, n, n.links, 0), OnLane(n, d)
    PROVE  \/ PosWithinNode(StepTo(pos, d), n, n.links, 1)
           \/ PosWithinNode(StepTo(pos, d), m, m.links, 1)
<1> USE DEF OnLane, Middle, PosWithinNode, StepTo, LeadsTo, Opposite, DirX, DirY,
            Node, HalfMouse, Slack, Speed, Position, North, South, East, West
<1>1. CASE d = East
  BY <1>1
<1>2. CASE d = West
  <2>1. /\ StepTo(pos, d) = [x |-> pos.x - Speed, y |-> pos.y]
        /\ m.x = n.x - 1 /\ m.y = n.y
        /\ West \in n.links /\ East \in m.links
    BY <1>2
  <2>2. CASE pos.x >= Node * n.x + 2
    BY <1>2, <2>1, <2>2
  <2>3. CASE pos.x < Node * n.x + 2
    BY <1>2, <2>1, <2>3
  <2> QED
    BY <2>2, <2>3
<1>3. CASE d = North
  BY <1>3
<1>4. CASE d = South
  BY <1>4
<1> QED
  BY <1>1, <1>2, <1>3, <1>4 DEF Direction

\* On the real field no step along a lane is ever refused: every connection is
\* typed in at both of its ends, and the enlarged nodes overlap by more than a
\* step.
THEOREM LanesAreOpenCorrect == Spec => []LanesAreOpen
<1>1. ASSUME MotionInv PROVE LanesAreOpen
  <2> SUFFICES ASSUME level # 0, NEW n \in NodesOf(level), NEW d \in n.links,
                      PosWithinNode(pos, n, n.links, 0), OnLane(n, d)
               PROVE  SurelyGoesTo(StepTo(pos, d))
    BY DEF LanesAreOpen
  <2>1. level \in Tunnels /\ pos \in Position
    BY <1>1 DEF MotionInv, TypeOK
  <2>2. n.x \in Int /\ n.y \in Int /\ d \in Direction
    BY <2>1, NodeRegion
  <2>3. PICK m \in NodesOf(level) : LeadsTo(n, d, m)
    BY <2>1, ConnectionsLead
  <2>4. \/ PosWithinNode(StepTo(pos, d), n, n.links, 1)
        \/ PosWithinNode(StepTo(pos, d), m, m.links, 1)
    BY <2>1, <2>2, <2>3, StepOnLane
  <2> QED
    BY <2>4 DEF SurelyGoesTo, SurelyWithinTunnel
<1> QED
  BY <1>1, MotionInit, MotionStep, PTL DEF Spec

-----------------------------------------------------------------------------
(* The turns.                                                              *)

\* How far the mouse may be off the middle of a lane that is open to it.
Free == Node \div 2 - HalfMouse

\* Underground no action takes a mouse from one side of the lane through a node
\* to the other: at some action it is on that lane, where LanesAreOpen lets it
\* turn, although its steps need not come to the middle of the node.
TurnsAreReached ==
    [][level # 0 =>
         \A n \in NodesOf(level) :
           /\ pos.x < Middle(n).x - Free => pos'.x <= Middle(n).x + Free
           /\ pos.x > Middle(n).x + Free => pos'.x >= Middle(n).x - Free
           /\ pos.y < Middle(n).y - Free => pos'.y <= Middle(n).y + Free
           /\ pos.y > Middle(n).y + Free => pos'.y >= Middle(n).y - Free]_vars

\* No turn of the five tunnels is jumped over: the lane is wider than a step.
THEOREM TurnsAreReachedCorrect == Spec => TurnsAreReached
<1> DEFINE Reached(n) ==
      /\ pos.x < Middle(n).x - Free => pos'.x <= Middle(n).x + Free
      /\ pos.x > Middle(n).x + Free => pos'.x >= Middle(n).x - Free
      /\ pos.y < Middle(n).y - Free => pos'.y <= Middle(n).y + Free
      /\ pos.y > Middle(n).y + Free => pos'.y >= Middle(n).y - Free
           AllReached == level # 0 => \A n \in NodesOf(level) : Reached(n)
<1>1. ASSUME MotionInv, Next PROVE AllReached
  <2> SUFFICES ASSUME level # 0, NEW n \in NodesOf(level) PROVE Reached(n)
    OBVIOUS
  <2>1. pos \in Position /\ pos.x \in Int /\ pos.y \in Int /\ level \in Tunnels
    BY <1>1 DEF MotionInv, TypeOK, Position
  <2>2. n.x \in Int /\ n.y \in Int
    BY <2>1, NodeRegion
  <2>3. CASE pos' = pos
    BY <2>1, <2>2, <2>3 DEF Middle, Node, Free, HalfMouse
  <2>4. ASSUME NEW d \in Direction, pos' = StepTo(pos, d) PROVE Reached(n)
    <3>1. /\ pos'.x \in pos.x - 7 .. pos.x + 7
          /\ pos'.y \in pos.y - 7 .. pos.y + 7
      BY <2>1, <2>4 DEF StepTo, DirX, DirY, Speed
    <3>2. Middle(n).x \in Int /\ Middle(n).y \in Int
      BY <2>2 DEF Middle, Node
    <3> QED
      BY <2>1, <3>1, <3>2 DEF Free, Node, HalfMouse
  <2>5. \/ pos' = pos
        \/ \E d \in Direction : pos' = StepTo(pos, d)
    BY <1>1 DEF Next, Move, LevelChange, CheckBounds
  <2> QED
    BY <2>3, <2>4, <2>5
<1>2. MotionInv /\ [Next]_vars => [AllReached]_vars
  BY <1>1
<1> QED
  BY <1>2, MotionInit, MotionStep, PTL DEF Spec, TurnsAreReached
=============================================================================
