--------------------------- MODULE TunnelGeometry ---------------------------
(***************************************************************************)
(* What the game server needs to know of positions, and no more.  The      *)
(* module GameServer assumes it of its constants; the module GameField     *)
(* defines the real field, for which it is proved.                         *)
(***************************************************************************)

\* A step leads to positions, doors and spawn points lie within their tunnel,
\* and a door of one tunnel is nowhere within another tunnel.
IsGeometry(Tunnels, Place, Moves, Clamp, DoorsOf, CellsOf, SpawnOf) ==
    /\ Place # {}
    /\ Moves \in [Place -> SUBSET Place]
    /\ Clamp \in [Place -> Place]
    /\ DoorsOf \in [Tunnels -> SUBSET Place]
    /\ CellsOf \in [Tunnels -> SUBSET Place]
    /\ SpawnOf \in [Tunnels -> SUBSET Place]
    /\ \A t \in Tunnels : DoorsOf[t] \subseteq CellsOf[t]
    /\ \A t \in Tunnels : SpawnOf[t] \subseteq CellsOf[t]
    /\ \A s, t \in Tunnels : s # t => DoorsOf[s] \cap CellsOf[t] = {}
=============================================================================
