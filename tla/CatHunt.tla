------------------------------- MODULE CatHunt -------------------------------
(***************************************************************************)
(* The cats of the server: which mouse a cat goes for, its step, and what  *)
(* it catches (Cat, TrackerCat, TunnelCamperCat and CatManager), one cat   *)
(* after the other within the tick, while the mice move between.           *)
(* GameServer leaves open whom a cat catches; here that is decided.        *)
(*                                                                         *)
(* A mouse in a tunnel is no place of the surface: Under.                  *)
(***************************************************************************)
EXTENDS ChaseGeometry

CONSTANTS
    Mice,
    TrackerCats,       \* Configuration.trackerCats
    Place, Dist(_, _), \* the positions a cat can be at
    Field,             \* those a mouse on the surface can be at
    Clamp(_),          \* GameManager.checkBounds
    Doors,             \* where the level can be changed
    Entrances,         \* positions of the door nodes, where cats are spawned
    Ahead(_, _), Step, \* the step of a cat and its length
    MouseStep,         \* the way of a mouse in one action
    Reach,             \* the sum of the radii of cat and mouse
    Sight,             \* how far a guard sees
    Under, Nobody,
    MaxActs            \* bound: actions of the players

ASSUME PlacesAssumption ==
    /\ Field \subseteq Place
    /\ Doors \subseteq Field /\ Entrances \subseteq Field
    /\ Under \notin Place /\ Nobody \notin Mice
    /\ \A p \in Field : Clamp(p) \in Field
    /\ IsDistance(Place, Dist)
    /\ IsStep(Place, Field, Dist, Ahead, Step)

\* With the numbers of the code (in fields): Step 0.044, Reach 1.12, Sight 3.
ASSUME NumbersAssumption ==
    /\ TrackerCats \in Nat /\ MaxActs \in Nat
    /\ Step \in Nat /\ Reach \in Nat /\ Sight \in Nat
    /\ Step < Reach /\ Reach + Step <= Sight

VARIABLES
    cat,     \* Cat.pos of each cat
    guarded, \* tunnelToGuard of a guard
    mouse,   \* where each mouse is
    turn,    \* the cat that moves next; 0 outside updateCats
    caught,  \* history: whom each cat has caught in this tick
    acts     \* actions of the players so far

vars == <<cat, guarded, mouse, turn, caught, acts>>

\* CatManager.spawnCats makes as many guards as there are trackers, whatever
\* guardCats is.
NumCats == 2 * TrackerCats
Cats == 1..NumCats
Guards == TrackerCats+1..NumCats

Init ==
    /\ cat \in [Cats -> Entrances]
    /\ guarded = cat
    /\ mouse \in [Mice -> {Under}]
    /\ turn = 0
    /\ caught = [c \in Cats |-> Nobody]
    /\ acts = 0

-----------------------------------------------------------------------------
(* The players, while processActions runs.                                 *)

Put(m, p) == mouse' = [mouse EXCEPT ![m] = p]

Act ==
    /\ turn = 0
    /\ acts < MaxActs
    /\ acts' = acts + 1
    /\ UNCHANGED <<cat, guarded, turn, caught>>

MoveMouse(m) ==
    /\ Act
    /\ mouse[m] # Under
    /\ \E p \in Field : Dist(mouse[m], p) <= MouseStep /\ Put(m, p)

\* LEVEL_CHANGE, from the surface or to it.
ChangeLevel(m) ==
    /\ Act
    /\ \/ mouse[m] \in Doors /\ Put(m, Under)
       \/ mouse[m] = Under /\ \E p \in Doors : Put(m, p)

-----------------------------------------------------------------------------
(* The cats.                                                               *)

\* Cat.move: the mice on level 0.
SeenMice == {m \in Mice : mouse[m] # Under}

\* Mutant: the first of the list.
FindAny(c) == SeenMice

\* Cat.findNearest: one of those that are nearest.
FindNearest(c) ==
    {m \in SeenMice : \A n \in SeenMice :
       Dist(cat[c], mouse[m]) <= Dist(cat[c], mouse[n])}

\* TunnelCamperCat.findNearest filters what the other has found.
InSight(c) ==
    {m \in FindNearest(c) : c \in Guards => Dist(cat[c], mouse[m]) <= Sight}

\* Mutant: the length of zero is divided by.
MoveUnchecked(p, q) == Ahead(p, q)

\* Cat.computeMoveToMouse.
MoveTowards(p, q) == IF p = q THEN p ELSE Ahead(p, q)

\* Mutant: guards have no default position of their own either.
OwnPosition(c) == cat[c]

\* Cat.getDefaultPosition.
DefaultPosition(c) == IF c \in Guards THEN guarded[c] ELSE cat[c]

\* Mutant: the mouse is put somewhere, but stays on the surface.
CatchWithoutLevel(m) == UNCHANGED mouse

\* CatManager.updateCats puts the mouse into a tunnel.
Catch(m) == Put(m, Under)

\* Cat.intersects.
Intersects(p, m) == Dist(p, mouse[m]) < Reach

\* Cat.move and the loop of updateCats.
MoveCat(c) ==
    /\ turn = c
    /\ turn' = c + 1
    /\ \/ \E m \in InSight(c) :
            /\ cat' = [cat EXCEPT ![c] = MoveTowards(cat[c], mouse[m])]
            /\ IF Intersects(cat'[c], m)
               THEN Catch(m) /\ caught' = [caught EXCEPT ![c] = m]
               ELSE UNCHANGED <<mouse, caught>>
       \/ /\ InSight(c) = {}
          /\ cat' = [cat EXCEPT ![c] = MoveTowards(cat[c], DefaultPosition(c))]
          /\ UNCHANGED <<mouse, caught>>
    /\ UNCHANGED <<guarded, acts>>

\* processActions is done.
BeginUpdate ==
    /\ turn = 0
    /\ turn' = 1
    /\ caught' = [c \in Cats |-> Nobody]
    /\ UNCHANGED <<cat, guarded, mouse, acts>>

\* updateCats is done: checkBounds.
EndUpdate ==
    /\ turn = NumCats + 1
    /\ turn' = 0
    /\ mouse' = [m \in Mice |-> IF mouse[m] = Under THEN Under ELSE Clamp(mouse[m])]
    /\ UNCHANGED <<cat, guarded, caught, acts>>

PlayerStep == \E m \in Mice : MoveMouse(m) \/ ChangeLevel(m)
TickStep == BeginUpdate \/ (\E c \in Cats : MoveCat(c)) \/ EndUpdate

Next == PlayerStep \/ TickStep

\* The executor goes on with the ticks; the players need not do anything.
Spec == Init /\ [][Next]_vars /\ WF_vars(TickStep)

-----------------------------------------------------------------------------

TypeOK ==
    /\ cat \in [Cats -> Place]
    /\ guarded \in [Cats -> Entrances]
    /\ mouse \in [Mice -> Field \cup {Under}]
    /\ turn \in 0..NumCats+1
    /\ caught \in [Cats -> Mice \cup {Nobody}]
    /\ acts \in 0..MaxActs

\* Going for the nearest mouse overlooks none: when a cat has moved and has
\* caught nobody in this tick, no mouse on the surface is within its reach,
\* although the cat has left its place, or turned home, and other cats have
\* moved since (Cat.move, TunnelCamperCat.findNearest).
NoneOverlooked ==
    \A c \in Cats, m \in Mice :
      c < turn /\ caught[c] = Nobody /\ mouse[m] # Under =>
        Dist(cat[c], mouse[m]) >= Reach

\* No mouse is caught by two cats in one tick, however close they are: the
\* first one takes it off the surface (CatManager.updateCats).
CaughtOnce ==
    turn # 0 =>
      \A c, d \in Cats : c # d /\ caught[c] # Nobody => caught[c] # caught[d]

\* When the players do nothing more, the trackers clear the surface, and each
\* guard comes back to its tunnel and stays within a step of it.
AtRest ==
    /\ SeenMice = {}
    /\ \A c \in Guards : Dist(cat[c], guarded[c]) <= Step
ComesToRest == <>[]AtRest
=============================================================================
