---------------------------- MODULE SmalltalkGame ----------------------------
(***************************************************************************)
(* The single-player game of Exercise_2: the loop that GameWindow          *)
(* initialize forks, beside the handlers of key events that share the set  *)
(* activeKeys with it.  Processes of one priority change only where one    *)
(* waits, so a round of the loop is one step and its Delay is between      *)
(* them.  Lengths are in half units of the window.                         *)
(***************************************************************************)
EXTENDS ChaseGeometry, Sequences

CONSTANTS
    Keys,              \* the keys of the keyboard
    Place, Dist(_, _), \* positions; the field has no border
    Followed,          \* bound: those to which the mouse is followed
    Walk(_, _),        \* GameCharacter.move: where the keys lead the mouse
    Ahead(_, _),       \* GameNPC.move: a step of the cat
    Speed,             \* of the cat
    TunnelRadius, CatRadius,
    MouseStart, CatStart, TunnelPos

ASSUME PlacesAssumption ==
    /\ Followed \subseteq Place
    /\ MouseStart \in Followed /\ CatStart \in Place /\ TunnelPos \in Place
    /\ IsDistance(Place, Dist)
    /\ IsStep(Place, Followed, Dist, Ahead, Speed)
    /\ \A p \in Followed : Walk(p, {}) = p
    /\ \A p \in Followed, k \in SUBSET Keys : Walk(p, k) \in Place

ASSUME NumbersAssumption ==
    /\ Speed \in Nat /\ TunnelRadius \in Nat /\ CatRadius \in Nat
    /\ Speed <= CatRadius

VARIABLES
    activeKeys,  \* GameCharacter.activeKeys
    held,        \* the keys that the user holds down
    focus,       \* the window gets the events of keys
    missed,      \* history: a key went down or up while it did not
    mouse, cat,  \* their positions
    state,       \* 0, or who has won: 1 the mouse, 2 the cat
    loop,        \* where the forked process is
    shown        \* what gameEnd has been called with

keyVars == <<activeKeys, held, focus, missed>>
gameVars == <<mouse, cat, state, loop, shown>>
vars == <<keyVars, gameVars>>

Init ==
    /\ activeKeys = {}
    /\ held \in SUBSET Keys
    /\ focus = TRUE
    /\ missed = (held # {})
    /\ mouse = MouseStart /\ cat = CatStart
    /\ state = 0
    /\ loop = "show"
    /\ shown = << >>

-----------------------------------------------------------------------------
(* The handlers of key events.                                             *)

\* A key goes down, or is repeated.
KeyDown(k) ==
    /\ held' = held \cup {k}
    /\ IF focus THEN activeKeys' = activeKeys \cup {k} /\ UNCHANGED missed
                ELSE missed' = TRUE /\ UNCHANGED activeKeys
    /\ UNCHANGED <<focus, gameVars>>

\* Mutant: all keys are taken for released.
RemoveAll(k) == {}

\* Mutant: the handler of the release is forgotten.
RemoveNone(k) == activeKeys

\* Set>>remove: raises an error for a key that is not in the set, which then
\* is as it was.
Remove(k) == activeKeys \ {k}

\* A key comes up.
KeyUp(k) ==
    /\ k \in held
    /\ held' = held \ {k}
    /\ IF focus THEN activeKeys' = Remove(k) /\ UNCHANGED missed
                ELSE missed' = TRUE /\ UNCHANGED activeKeys
    /\ UNCHANGED <<focus, gameVars>>

\* The user goes to another window, or comes back.
ChangeFocus ==
    /\ focus' = ~focus
    /\ UNCHANGED <<activeKeys, held, missed, gameVars>>

-----------------------------------------------------------------------------
(* The forked process.                                                     *)

\* The Delay of a second before the fork.
Fork ==
    /\ loop = "show"
    /\ loop' = "test"
    /\ UNCHANGED <<keyVars, mouse, cat, state, shown>>

\* GameNPC.move: the cat does not move when it is where the mouse is.
MoveCat(p, q) == IF p = q THEN p ELSE Ahead(p, q)

\* GameWindow.checkTunnel and checkCaught.
CheckTunnel(m) == Dist(TunnelPos, m) <= TunnelRadius
CheckCaught(c, m) == Dist(c, m) <= CatRadius

\* Mutant: the tunnel is asked last.
VerdictOfTunnel(c, m) ==
    IF CheckTunnel(m) THEN 1 ELSE IF CheckCaught(c, m) THEN 2 ELSE 0

\* The cat is asked last, and its answer counts.
Verdict(c, m) == IF CheckCaught(c, m) THEN 2 ELSE IF CheckTunnel(m) THEN 1 ELSE 0

\* One round.
Round ==
    /\ loop = "test" /\ state = 0
    /\ Walk(mouse, activeKeys) \in Followed
    /\ mouse' = Walk(mouse, activeKeys)
    /\ cat' = MoveCat(cat, mouse')
    /\ state' = Verdict(cat', mouse')
    /\ UNCHANGED <<keyVars, loop, shown>>

\* Mutant: within the loop.
GameEndInLoop ==
    /\ loop = "test" /\ state # 0
    /\ shown' = Append(shown, state)
    /\ UNCHANGED <<keyVars, mouse, cat, state, loop>>

\* After the loop, which ends a Delay later.
GameEnd ==
    /\ loop = "test" /\ state # 0
    /\ loop' = "over"
    /\ shown' = Append(shown, state)
    /\ UNCHANGED <<keyVars, mouse, cat, state>>

UserStep == (\E k \in Keys : KeyDown(k) \/ KeyUp(k)) \/ ChangeFocus
LoopStep == Fork \/ Round \/ GameEnd

Next == UserStep \/ LoopStep

\* The forked process waits for nothing but its Delay.
Spec == Init /\ [][Next]_vars /\ WF_vars(LoopStep)

-----------------------------------------------------------------------------

\* The verdict is shown at most once.
TypeOK ==
    /\ activeKeys \subseteq Keys /\ held \subseteq Keys
    /\ focus \in BOOLEAN /\ missed \in BOOLEAN
    /\ mouse \in Followed /\ cat \in Place
    /\ state \in 0..2
    /\ loop \in {"show", "test", "over"}
    /\ shown \in {<< >>, <<1>>, <<2>>}

\* The loop reads the keys that are down, unless one went down or up in another
\* window or before the first was opened; and then only can Set>>remove: fail.
KeysInStep == ~missed => activeKeys = held

\* What gameEnd shows is true of the game as it stands on the screen: keys that
\* are still pressed while the loop waits for its last Delay change nothing, and
\* a mouse that got into the tunnel within the cat's reach has lost.
VerdictIsRight ==
    /\ state = 2 => CheckCaught(cat, mouse)
    /\ state = 1 => CheckTunnel(mouse) /\ ~CheckCaught(cat, mouse)
    /\ loop = "over" => state # 0 /\ shown = <<state>>

\* A player who lets go of the keys has the game decided, by the tunnel or by
\* the cat (GameWindow initialize): neither is the cat too slow for its radius
\* nor does a key stay in activeKeys; unless the loop missed a key.
LetGoEnds == <>[](held = {} /\ ~missed) => <>(loop = "over")
=============================================================================
