--------------------------- MODULE MCGameServer ---------------------------
(* Values for the constants of GameServer, for TLC. *)
EXTENDS GameServer, TLC

CONSTANTS c1, c2

(* Two tunnels and what lies between and around them. *)
MCTunnels == 1..2
MCPlace == {"open", "outside", "door1", "inner1", "door2", "inner2"}
MCMoves == [p \in MCPlace |->
    CASE p = "open"    -> {"open", "outside", "door1", "door2"}
      [] p = "outside" -> {"open", "outside"}
      [] p = "door1"   -> {"open", "inner1"}
      [] p = "inner1"  -> {"open", "door1"}
      [] p = "door2"   -> {"open", "inner2"}
      [] OTHER         -> {"open", "door2"}]
MCDoorsOf == <<{"door1"}, {"door2"}>>
MCCellsOf == <<{"door1", "inner1"}, {"door2", "inner2"}>>
MCSpawnOf == <<{"inner1"}, {"inner2"}>>
MCClamp == [p \in MCPlace |-> IF p = "outside" THEN "open" ELSE p]

(* One tunnel, for the liveness run. *)
MC1Tunnels == {1}
MC1Place == {"open", "door1", "inner1"}
MC1Moves == [p \in MC1Place |-> CASE p = "open"  -> {"door1"}
                                  [] p = "door1" -> {"open", "inner1"}
                                  [] OTHER       -> {"door1"}]
MC1DoorsOf == <<{"door1"}>>
MC1CellsOf == <<{"door1", "inner1"}>>
MC1SpawnOf == <<{"inner1"}>>
MC1Clamp == [p \in MC1Place |-> p]
=============================================================================
