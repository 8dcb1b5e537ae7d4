------------------------------ MODULE HuntRound ------------------------------
(***************************************************************************)
(* What a tick does to who is on the surface, whoever looks at it: while   *)
(* the players act, mice come up and go down; then each cat has one turn,  *)
(* in which it takes at most one mouse off the surface, and none comes up. *)
(* GameServer implements it, which leaves open whom a cat catches, and so  *)
(* does CatHunt, which decides it.                                         *)
(***************************************************************************)
EXTENDS Naturals

CONSTANTS
    Prey,      \* the mice there may be
    Turns      \* how many cats there are

VARIABLES
    phase,     \* "players" or "cats"
    left,      \* the cats that have still to move
    surface    \* the mice on the surface

huntVars == <<phase, left, surface>>

HuntInit ==
    /\ phase = "players"
    /\ left = 0
    /\ surface = {}

ComeUp(m) ==
    /\ phase = "players"
    /\ surface' = surface \cup {m}
    /\ UNCHANGED <<phase, left>>

GoDown(m) ==
    /\ phase = "players"
    /\ surface' = surface \ {m}
    /\ UNCHANGED <<phase, left>>

BeginHunt ==
    /\ phase = "players"
    /\ phase' = "cats"
    /\ left' = Turns
    /\ UNCHANGED surface

MissTurn ==
    /\ phase = "cats"
    /\ left > 0
    /\ left' = left - 1
    /\ UNCHANGED <<phase, surface>>

CatchTurn(m) ==
    /\ phase = "cats"
    /\ left > 0
    /\ m \in surface
    /\ left' = left - 1
    /\ surface' = surface \ {m}
    /\ UNCHANGED phase

EndHunt ==
    /\ phase = "cats"
    /\ left = 0
    /\ phase' = "players"
    /\ UNCHANGED <<left, surface>>

HuntStep ==
    \/ \E m \in Prey : ComeUp(m) \/ GoDown(m) \/ CatchTurn(m)
    \/ BeginHunt
    \/ MissTurn
    \/ EndHunt

HuntSpec == HuntInit /\ [][HuntStep]_huntVars
=============================================================================
