--------------------------- MODULE GameLifecycle ---------------------------
(***************************************************************************)
(* What the server promises about the course of one game, whatever its     *)
(* threads do: players join at any time, the game waits until everybody    *)
(* who had joined before the last count is prepared, it begins once, and   *)
(* from then on its outcome is running, timed out or won by the mice -     *)
(* never again running once it was decided.  GameServer implements it.     *)
(***************************************************************************)
CONSTANT Players

VARIABLES
    joined,     \* players that get the updates of the game
    prepared,   \* players known to be ready
    waitedFor,  \* the players that the game waits for in the count under way,
                \* or waited for when it began
    phase,      \* "lobby", "counting", "counted" or "playing"
    outcome     \* the status of the game

lifecycleVars == <<joined, prepared, waitedFor, phase, outcome>>

LifecycleInit ==
    /\ joined = {}
    /\ prepared = {}
    /\ waitedFor = {}
    /\ phase = "lobby"
    /\ outcome = "INIT"

\* The game need not wait for a player that joins during the count.
Join(p) ==
    /\ p \notin joined
    /\ joined' = joined \cup {p}
    /\ waitedFor' \in {waitedFor} \cup
         IF phase = "counting" THEN {waitedFor \cup {p}} ELSE {}
    /\ UNCHANGED <<prepared, phase, outcome>>

Prepare(p) ==
    /\ p \in joined \ prepared
    /\ prepared' = prepared \cup {p}
    /\ UNCHANGED <<joined, waitedFor, phase, outcome>>

StartCount ==
    /\ phase = "lobby"
    /\ joined # {}
    /\ waitedFor' = joined
    /\ phase' = "counting"
    /\ UNCHANGED <<joined, prepared, outcome>>

GiveUpCount ==
    /\ phase = "counting"
    /\ waitedFor' = {}
    /\ phase' = "lobby"
    /\ UNCHANGED <<joined, prepared, outcome>>

\* Between the count and the beginning of the game others may still join.
EndCount ==
    /\ phase = "counting"
    /\ waitedFor # {}
    /\ waitedFor \subseteq prepared
    /\ phase' = "counted"
    /\ UNCHANGED <<joined, prepared, waitedFor, outcome>>

Begin ==
    /\ phase = "counted"
    /\ phase' = "playing"
    /\ outcome' = "RUNNING"
    /\ UNCHANGED <<joined, prepared, waitedFor>>

Decide ==
    /\ phase = "playing"
    /\ outcome' \in {"TIME_OUT", "MICE_WON"}
    /\ UNCHANGED <<joined, prepared, waitedFor, phase>>

LifecycleNext ==
    \/ \E p \in Players : Join(p) \/ Prepare(p)
    \/ StartCount
    \/ GiveUpCount
    \/ EndCount
    \/ Begin
    \/ Decide

LifecycleSpec == LifecycleInit /\ [][LifecycleNext]_lifecycleVars
=============================================================================
