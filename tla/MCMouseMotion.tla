--------------------------- MODULE MCMouseMotion ---------------------------
(* The data of the field, checked once, and the run of one mouse. *)
EXTENDS MouseMotion, FiniteSets

Back == [d \in Direction |-> CASE d = North -> South [] d = East  -> West
                               [] d = South -> North [] d = West  -> East]

Leads(n, d, m) == m.x = n.x + DirX(d) /\ m.y = n.y + DirY(d)

\* Every connection leads to a node of the tunnel that is connected back.
ASSUME ConnectionsMatch ==
    \A t \in Tunnels : \A n \in NodesOf(t) : \A d \in n.links :
      \E m \in NodesOf(t) : Leads(n, d, m) /\ Back[d] \in m.links

\* Every tunnel is in one piece, and has a door and a tile.
Near(n, m) == \E d \in n.links : Leads(n, d, m)
ASSUME TunnelsConnected ==
    \A t \in Tunnels :
      /\ \A part \in SUBSET NodesOf(t) :
           part # {} /\ part # NodesOf(t) =>
             \E n \in part, m \in NodesOf(t) \ part : Near(n, m)
      /\ {"DOOR", "TILE"} = {n.type : n \in NodesOf(t)}
=============================================================================
