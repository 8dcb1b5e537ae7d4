------------------------------ MODULE GameField ------------------------------
(***************************************************************************)
(* The field of the network game: the nodes of the five tunnels and what   *)
(* it means for a mouse to be within one (GameField, Tunnel, TunnelNode).  *)
(*                                                                         *)
(* Lengths are integers in units of 1/60 of a node: with the speed of Main *)
(* a mouse moves 7 units per tick, its size of 0.8 is 48 units, and every  *)
(* position a mouse can have is a whole number of units.  The code uses    *)
(* doubles, whose rounding matters only where two lengths are equal: there *)
(* a comparison has either outcome.                                        *)
(***************************************************************************)
EXTENDS Integers

Node == 60          \* the side of a node
HalfMouse == 24     \* mouseSize / 2
Slack == 6          \* the 0.1 by which posWithinNode enlarges a node
Speed == 7          \* 50% of the width of 14 in 60 ticks
Bounds == [x |-> 14, y |-> 15]

Position == [x : Int, y : Int]
North == "north"
East == "east"
South == "south"
West == "west"
Direction == {North, East, South, West}

TunnelNode(x, y, type, links) == [x |-> x, y |-> y, type |-> type, links |-> links]
Tile(x, y, links) == TunnelNode(x, y, "TILE", links)
Door(x, y, links) == TunnelNode(x, y, "DOOR", links)

Tunnel1 == {
    Tile(7, 1, {East, South}), Tile(8, 1, {South, West}), Door(6, 2, {East}),
    Tile(7, 2, {North, East, West}), Tile(8, 2, {North, South, West}),
    Tile(8, 3, {South, North}), Door(8, 4, {North})}

Tunnel2 == {
    Door(10, 1, {East}), Tile(11, 1, {East, West}), Tile(12, 1, {East, West}),
    Tile(13, 1, {South, West}), Tile(13, 2, {South, North}), Door(13, 3, {North})}

Tunnel3 == {
    Door(5, 6, {South}), Tile(5, 7, {North, East}), Tile(6, 7, {West, East}),
    Tile(7, 7, {West, East}), Tile(8, 7, {South, West, East}),
    Tile(8, 8, {South, North}), Door(8, 9, {North}), Tile(9, 7, {West, East}),
    Door(10, 7, {West})}

Tunnel4 == {
    Door(1, 13, {North}), Tile(1, 12, {South, East}), Tile(2, 12, {East, West}),
    Tile(3, 12, {West, North, East}), Tile(4, 12, {West, North}),
    Tile(3, 11, {North, South, East}), Tile(4, 11, {South, West, East}),
    Door(5, 11, {West}), Door(2, 10, {East, North}), Tile(2, 9, {South, East}),
    Tile(3, 9, {West, South}), Tile(3, 10, {South, West, North})}

Tunnel5 == {
    Door(7, 15, {East}), Tile(8, 15, {West, East}), Tile(9, 15, {West, East}),
    Tile(10, 15, {West, East}), Tile(11, 15, {West, East}),
    Tile(12, 15, {West, East}), Tile(13, 15, {East, West}),
    Tile(14, 15, {West, North}), Tile(14, 14, {South, North}),
    Tile(14, 13, {South, North}), Tile(14, 12, {South, North}),
    Tile(14, 11, {South, West}), Tile(13, 11, {West, East}),
    Tile(12, 11, {South, East}), Tile(12, 12, {North, South}), Door(12, 13, {North})}

Tunnels == 1..5
NodesOf(t) == <<Tunnel1, Tunnel2, Tunnel3, Tunnel4, Tunnel5>>[t]

\* Mutant: connections are left out of account.
PosWithinClosedNode(p, node, links, off) ==
    /\ p.x - HalfMouse - off >= Node * node.x - Slack
    /\ p.x + HalfMouse + off <= Node * (node.x + 1) + Slack
    /\ p.y - HalfMouse - off >= Node * node.y - Slack
    /\ p.y + HalfMouse + off <= Node * (node.y + 1) + Slack

\* posWithinNode: on the side of a connection the mouse may stick out of the
\* node.  off is 1 where equal lengths do not count as within, else 0.
PosWithinNode(p, node, links, off) ==
    LET Reach(d) == (IF d \in links THEN 0 ELSE HalfMouse) + off
    IN  /\ p.x - Reach(West) >= Node * node.x - Slack
        /\ p.x + Reach(East) <= Node * (node.x + 1) + Slack
        /\ p.y - Reach(North) >= Node * node.y - Slack
        /\ p.y + Reach(South) <= Node * (node.y + 1) + Slack

\* The code may find a mouse within a tunnel where IsPosWithinTunnel holds, and
\* does where SurelyWithinTunnel holds.
IsPosWithinDoor(p, t) ==
    \E n \in NodesOf(t) : n.type = "DOOR" /\ PosWithinNode(p, n, {}, 0)
IsPosWithinTunnel(p, t) ==
    \E n \in NodesOf(t) : PosWithinNode(p, n, n.links, 0)
SurelyWithinTunnel(p, t) ==
    \E n \in NodesOf(t) : PosWithinNode(p, n, n.links, 1)

\* The middle of a node, where addMouse and updateCats put a mouse.
Middle(n) == [x |-> Node * n.x + Node \div 2, y |-> Node * n.y + Node \div 2]

\* getRandomNonDoorNode of tunnel t.
SpawnPoints(t) == {Middle(n) : n \in {m \in NodesOf(t) : m.type # "DOOR"}}

\* Direction.dirX and dirY, and one DIRECTION action; the client sends no
\* diagonal ones.
DirX(d) == IF d = East THEN 1 ELSE IF d = West THEN -1 ELSE 0
DirY(d) == IF d = South THEN 1 ELSE IF d = North THEN -1 ELSE 0
StepTo(p, d) == [x |-> p.x + Speed * DirX(d), y |-> p.y + Speed * DirY(d)]

MaxX == Node * (Bounds.x + 1) - HalfMouse
MaxY == Node * (Bounds.y + 1) - HalfMouse
Between(low, v, high) == IF v < low THEN low ELSE IF v > high THEN high ELSE v

\* Mutant: only the far sides are looked at.
ClampFarSides(p) == [x |-> Between(p.x, p.x, MaxX), y |-> Between(p.y, p.y, MaxY)]

\* checkBounds: half a mouse away from each side of the field.
ClampPos(p) ==
    [x |-> Between(HalfMouse, p.x, MaxX), y |-> Between(HalfMouse, p.y, MaxY)]

InBounds(p) == p.x \in HalfMouse..MaxX /\ p.y \in HalfMouse..MaxY
=============================================================================
