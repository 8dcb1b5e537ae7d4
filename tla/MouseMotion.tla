----------------------------- MODULE MouseMotion -----------------------------
(***************************************************************************)
(* One mouse on the real field, from its spawn until a cat catches it (it  *)
(* is then put where Init puts it): the DIRECTION and LEVEL_CHANGE actions *)
(* of GameManager.processActionHelper and the checkBounds that ends each   *)
(* tick.                                                                   *)
(***************************************************************************)
EXTENDS GameField

CONSTANT MaxActions    \* bound: actions of the mouse in one tick

ASSUME ActionsAssumption == MaxActions \in Nat \ {0}

VARIABLES
    pos,     \* Mouse.pos
    level,   \* Mouse.currentLevel, 0 on the surface
    acts     \* its actions of this tick; 0 when the state is broadcast

vars == <<pos, level, acts>>

Init ==
    /\ level \in Tunnels
    /\ pos \in SpawnPoints(level)
    /\ acts = 0

\* Mutant: its present position is looked at.
MayGoFromHere(p) == level # 0 => IsPosWithinTunnel(pos, level)

\* Whether the mouse may get to p, and whether it surely does.
MayGoTo(p) == level # 0 => IsPosWithinTunnel(p, level)
SurelyGoesTo(p) == level # 0 => SurelyWithinTunnel(p, level)

Move(d) ==
    /\ acts < MaxActions
    /\ acts' = acts + 1
    /\ LET next == StepTo(pos, d)
       IN  pos' \in {p \in {pos, next} : IF p = next THEN MayGoTo(p)
                                                     ELSE ~SurelyGoesTo(next)}
    /\ UNCHANGED level

\* Mutant: the number of the tunnel is added.
LevelChangeSum ==
    /\ acts < MaxActions
    /\ acts' = acts + 1
    /\ \E t \in Tunnels : IsPosWithinDoor(pos, t) /\ level' = level + t
    /\ UNCHANGED pos

\* The level changes at a door, of whatever tunnel it is.
LevelChange ==
    /\ acts < MaxActions
    /\ acts' = acts + 1
    /\ \E t \in Tunnels :
         /\ IsPosWithinDoor(pos, t)
         /\ level' = IF level = 0 THEN t ELSE 0
    /\ UNCHANGED pos

CheckBounds ==
    /\ acts > 0
    /\ pos' = IF level = 0 THEN ClampPos(pos) ELSE pos
    /\ acts' = 0
    /\ UNCHANGED level

Next == (\E d \in Direction : Move(d)) \/ LevelChange \/ CheckBounds

Spec == Init /\ [][Next]_vars

-----------------------------------------------------------------------------

TypeOK == pos \in Position /\ level \in Tunnels \cup {0} /\ acts \in 0..MaxActions

\* A mouse on a tunnel's level is within that tunnel, however the doubles are
\* rounded where it enters and turns.
StaysUnderground == level # 0 => IsPosWithinTunnel(pos, level)

\* A mouse on the lane between two connected nodes is not held up there: the
\* next step along the connection is taken, whatever the rounding, although a
\* step is longer than the slack of a node.
OnLane(n, d) ==
    LET Mid == Middle(n)
        Free == Node \div 2 - HalfMouse
    IN  IF d \in {East, West} THEN pos.y - Mid.y \in -Free..Free
                              ELSE pos.x - Mid.x \in -Free..Free
LanesAreOpen ==
    level # 0 =>
      \A n \in NodesOf(level) : \A d \in n.links :
        PosWithinNode(pos, n, n.links, 0) /\ OnLane(n, d) => SurelyGoesTo(StepTo(pos, d))

\* What is broadcast of a mouse on the surface is within the field.
SurfaceInBounds == acts = 0 /\ level = 0 => InBounds(pos)
=============================================================================
