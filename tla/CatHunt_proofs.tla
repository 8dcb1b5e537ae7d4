--------------------------- MODULE CatHunt_proofs ---------------------------
(***************************************************************************)
(* The hunt for any number of mice and cats on any field with a distance:  *)
(* no mouse is overlooked, and none is caught twice in a tick.             *)
(***************************************************************************)
EXTENDS CatHunt, WellFoundedInduction, TLAPS

LEMMA Numbers ==
    /\ NumCats \in Nat
    /\ Cats \subseteq Nat \ {0} /\ Guards \subseteq Cats
  BY NumbersAssumption DEF NumCats, Cats, Guards

LEMMA Distance ==
    ASSUME NEW p \in Place, NEW q \in Place, NEW r \in Place
    PROVE  /\ Dist(p, q) \in Nat
           /\ Dist(p, p) = 0
           /\ Dist(p, q) = Dist(q, p)
           /\ Dist(p, r) <= Dist(p, q) + Dist(q, r)
  BY PlacesAssumption DEF IsDistance

(* A step towards a target that is still out of reach has come closer to   *)
(* it, by the length of a step, or nothing has moved.                      *)
LEMMA Moved ==
    ASSUME NEW p \in Place, NEW q \in Field
    PROVE  /\ MoveTowards(p, q) \in Place
           /\ Dist(p, MoveTowards(p, q)) <= Step
           /\ Dist(MoveTowards(p, q), q) >= Reach =>
                Dist(p, q) >= Reach + Step
<1>0. /\ q \in Place /\ Step \in Nat /\ Reach \in Nat /\ Step < Reach
      /\ Dist(p, q) \in Nat /\ Dist(p, p) = 0
  BY PlacesAssumption, NumbersAssumption, Distance
<1>1. CASE p = q
  BY <1>0, <1>1 DEF MoveTowards
<1>2. CASE p # q
  <2>1. /\ Ahead(p, q) \in Place
        /\ Dist(p, Ahead(p, q)) = Step
        /\ Dist(Ahead(p, q), q) = IF Dist(p, q) < Step THEN Step - Dist(p, q)
                                                       ELSE Dist(p, q) - Step
    BY <1>2, PlacesAssumption DEF IsStep
  <2>2. Dist(Ahead(p, q), q) >= Reach => Dist(p, q) >= Reach + Step
    BY <1>0, <2>1
  <2> QED
    BY <1>0, <1>2, <2>1, <2>2 DEF MoveTowards
<1> QED
  BY <1>1, <1>2

LEMMA TurnedHome ==
    ASSUME NEW p \in Place
    PROVE  /\ MoveTowards(p, p) \in Place
           /\ Dist(p, MoveTowards(p, p)) <= Step
  BY Distance, NumbersAssumption DEF MoveTowards

(* The way of a step takes at most its length from the distance to others. *)
LEMMA StepTakesLittle ==
    ASSUME NEW p \in Place, NEW s \in Place, NEW r \in Place, NEW d \in Nat,
           Dist(p, s) <= Step, Dist(p, r) >= d + Step
    PROVE  Dist(s, r) >= d
<1>1. /\ Dist(p, s) \in Nat /\ Dist(s, r) \in Nat /\ Dist(p, r) \in Nat
      /\ Dist(p, r) <= Dist(p, s) + Dist(s, r)
      /\ Step \in Nat
  BY Distance, NumbersAssumption
<1> QED
  BY <1>1

(* Some mouse is nearest, however many there are. *)
LEMMA LeastNatural ==
    ASSUME NEW S, S \subseteq Nat, S # {}
    PROVE  \E x \in S : \A y \in S : x <= y
<1>1. IsWellFoundedOn(OpToRel(<, Nat), Nat)
  BY NatLessThanWellFounded
<1>2. PICK x \in S : \A y \in S : <<y, x>> \notin OpToRel(<, Nat)
  BY <1>1, WFMin
<1>3. ASSUME NEW y \in S PROVE x <= y
  <2>1. x \in Nat /\ y \in Nat
    OBVIOUS
  <2>2. ~(y < x)
    BY <1>2, <2>1 DEF OpToRel
  <2> QED
    BY <2>1, <2>2
<1> QED
  BY <1>3

LEMMA SomeMouseIsNearest ==
    ASSUME TypeOK, NEW c \in Cats, SeenMice # {}
    PROVE  FindNearest(c) # {}
<1> DEFINE S == {Dist(cat[c], mouse[m]) : m \in SeenMice}
<1>1. \A m \in SeenMice : Dist(cat[c], mouse[m]) \in Nat
  BY PlacesAssumption, Distance DEF TypeOK, SeenMice
<1>2. S \subseteq Nat /\ S # {}
  BY <1>1
<1> HIDE DEF S
<1>3. PICK x \in S : \A y \in S : x <= y
  BY <1>2, LeastNatural
<1>4. PICK m \in SeenMice : x = Dist(cat[c], mouse[m])
  BY DEF S
<1>5. m \in FindNearest(c)
  BY <1>3, <1>4 DEF S, FindNearest, SeenMice
<1> QED
  BY <1>5

-----------------------------------------------------------------------------

LEMMA TypeInit == Init => TypeOK
<1> SUFFICES ASSUME Init PROVE TypeOK
  OBVIOUS
<1>1. Entrances \subseteq Place
  BY PlacesAssumption
<1> QED
  BY <1>1, Numbers, NumbersAssumption DEF Init, TypeOK

LEMMA CatMoves ==
    ASSUME TypeOK, NEW c \in Cats, MoveCat(c)
    PROVE  /\ cat' = [cat EXCEPT ![c] = cat'[c]]
           /\ cat'[c] \in Place
           /\ Dist(cat[c], cat'[c]) <= Step
<1>0. /\ cat \in [Cats -> Place] /\ cat[c] \in Place
      /\ mouse \in [Mice -> Field \cup {Under}]
      /\ guarded[c] \in Field
  BY PlacesAssumption DEF TypeOK
<1>1. CASE \E m \in InSight(c) :
             cat' = [cat EXCEPT ![c] = MoveTowards(cat[c], mouse[m])]
  <2>1. PICK m \in InSight(c) :
             cat' = [cat EXCEPT ![c] = MoveTowards(cat[c], mouse[m])]
    BY <1>1
  <2>2. mouse[m] \in Field
    BY <1>0, <2>1 DEF InSight, FindNearest, SeenMice
  <2> QED
    BY <1>0, <2>1, <2>2, Moved
<1>2. CASE cat' = [cat EXCEPT ![c] = MoveTowards(cat[c], DefaultPosition(c))]
  <2>1. DefaultPosition(c) \in {guarded[c], cat[c]}
    BY DEF DefaultPosition
  <2> QED
    BY <1>0, <1>2, <2>1, Moved, TurnedHome
<1> QED
  BY <1>1, <1>2 DEF MoveCat

LEMMA TypeNext == TypeOK /\ [Next]_vars => TypeOK'
<1> SUFFICES ASSUME TypeOK, [Next]_vars PROVE TypeOK'
  OBVIOUS
<1>0. Doors \subseteq Field
  BY PlacesAssumption
<1>1. ASSUME NEW m \in Mice, MoveMouse(m) PROVE TypeOK'
  BY <1>1, NumbersAssumption DEF TypeOK, MoveMouse, Act, Put
<1>2. ASSUME NEW m \in Mice, ChangeLevel(m) PROVE TypeOK'
  BY <1>0, <1>2, NumbersAssumption DEF TypeOK, ChangeLevel, Act, Put
<1>3. CASE BeginUpdate
  BY <1>3, Numbers DEF TypeOK, BeginUpdate
<1>4. ASSUME NEW c \in Cats, MoveCat(c) PROVE TypeOK'
  <2>1. cat' \in [Cats -> Place]
    BY <1>4, CatMoves DEF TypeOK
  <2>2. mouse' \in [Mice -> Field \cup {Under}]
    BY <1>4 DEF TypeOK, MoveCat, Catch, Put
  <2>3. caught' \in [Cats -> Mice \cup {Nobody}]
    BY <1>4 DEF TypeOK, MoveCat, InSight, FindNearest, SeenMice
  <2>4. turn' \in 0..NumCats+1
    BY <1>4, Numbers DEF TypeOK, MoveCat, Cats
  <2> QED
    BY <1>4, <2>1, <2>2, <2>3, <2>4 DEF TypeOK, MoveCat
<1>5. CASE EndUpdate
  <2>1. \A p \in Field : Clamp(p) \in Field
    BY PlacesAssumption
  <2> QED
    BY <1>5, <2>1, Numbers DEF TypeOK, EndUpdate
<1>6. CASE UNCHANGED vars
  BY <1>6 DEF TypeOK, vars
<1> QED
  BY <1>1, <1>2, <1>3, <1>4, <1>5, <1>6 DEF Next, PlayerStep, TickStep

\* The types: a cat never leaves the places, also when it goes beyond a mouse
\* at the border.
THEOREM TypeCorrect == Spec => []TypeOK
<1>1. Init => TypeOK
  BY TypeInit
<1>2. TypeOK /\ [Next]_vars => TypeOK'
  BY TypeNext
<1> QED
  BY <1>1, <1>2, PTL DEF Spec

-----------------------------------------------------------------------------

(* The cat that moves overlooks nobody: all mice are at least as far as    *)
(* the nearest, which it has not reached, or does not see.                 *)
LEMMA MoverOverlooksNone ==
    ASSUME TypeOK, NEW c \in Cats, MoveCat(c), caught'[c] = Nobody,
           NEW n \in Mice, mouse'[n] # Under
    PROVE  Dist(cat'[c], mouse'[n]) >= Reach
<1>0. /\ cat \in [Cats -> Place] /\ cat[c] \in Place
      /\ mouse \in [Mice -> Field \cup {Under}]
      /\ caught \in [Cats -> Mice \cup {Nobody}]
      /\ Field \subseteq Place /\ Nobody \notin Mice
      /\ Reach \in Nat /\ Step \in Nat /\ Sight \in Nat /\ Reach + Step <= Sight
  BY PlacesAssumption, NumbersAssumption DEF TypeOK
<1>1. mouse' = mouse
  <2>1. ASSUME NEW m \in InSight(c), Catch(m), caught' = [caught EXCEPT ![c] = m]
        PROVE  FALSE
    BY <1>0, <2>1 DEF InSight, FindNearest, SeenMice
  <2> QED
    BY <2>1 DEF MoveCat
<1>2. /\ n \in SeenMice /\ mouse[n] \in Place
      /\ Dist(cat[c], mouse[n]) \in Nat
  BY <1>0, <1>1, Distance DEF SeenMice
<1>3. /\ cat'[c] \in Place /\ Dist(cat[c], cat'[c]) <= Step
  BY CatMoves
<1>4. SUFFICES Dist(cat[c], mouse[n]) >= Reach + Step
  BY <1>0, <1>1, <1>2, <1>3, StepTakesLittle
<1>5. CASE InSight(c) # {}
  <2>1. PICK m \in InSight(c) :
          /\ cat' = [cat EXCEPT ![c] = MoveTowards(cat[c], mouse[m])]
          /\ ~Intersects(cat'[c], m)
    BY <1>0, <1>5 DEF MoveCat, InSight, FindNearest, SeenMice
  <2>2. /\ mouse[m] \in Field
        /\ Dist(cat[c], mouse[m]) <= Dist(cat[c], mouse[n])
    BY <1>0, <1>2 DEF InSight, FindNearest, SeenMice
  <2>3. /\ cat'[c] = MoveTowards(cat[c], mouse[m])
        /\ Dist(cat'[c], mouse[m]) \in Nat
        /\ Dist(cat[c], mouse[m]) \in Nat
    BY <1>0, <1>3, <2>1, <2>2, Distance
  <2>4. Dist(cat'[c], mouse[m]) >= Reach
    BY <1>0, <2>1, <2>3 DEF Intersects
  <2>5. Dist(cat[c], mouse[m]) >= Reach + Step
    BY <1>0, <2>2, <2>3, <2>4, Moved
  <2> QED
    BY <1>0, <1>2, <2>2, <2>3, <2>5
<1>6. CASE InSight(c) = {} /\ FindNearest(c) # {}
  <2>1. PICK m \in FindNearest(c) : ~(Dist(cat[c], mouse[m]) <= Sight)
    BY <1>6 DEF InSight
  <2>2. /\ mouse[m] \in Place
        /\ Dist(cat[c], mouse[m]) <= Dist(cat[c], mouse[n])
    BY <1>0, <1>2, <2>1 DEF FindNearest, SeenMice
  <2>3. Dist(cat[c], mouse[m]) \in Nat
    BY <1>0, <2>2, Distance
  <2> QED
    BY <1>0, <1>2, <2>1, <2>2, <2>3
<1>7. FindNearest(c) # {}
  BY <1>2, SomeMouseIsNearest
<1> QED
  BY <1>5, <1>6, <1>7

LEMMA NoneOverlookedNext ==
    ASSUME TypeOK, NoneOverlooked, [Next]_vars PROVE NoneOverlooked'
<1>0. turn \in Nat /\ Cats \subseteq Nat \ {0}
  BY Numbers DEF TypeOK
<1>1. CASE PlayerStep \/ EndUpdate \/ BeginUpdate
  <2>1. turn' \in {0, 1}
    BY <1>1 DEF PlayerStep, MoveMouse, ChangeLevel, Act, EndUpdate, BeginUpdate
  <2> QED
    BY <1>0, <2>1 DEF NoneOverlooked
<1>2. ASSUME NEW c \in Cats, MoveCat(c) PROVE NoneOverlooked'
  <2> SUFFICES ASSUME NEW d \in Cats, NEW n \in Mice,
                      d < turn', caught'[d] = Nobody, mouse'[n] # Under
               PROVE  Dist(cat'[d], mouse'[n]) >= Reach
    BY Numbers DEF NoneOverlooked
  <2>1. CASE d = c
    BY <1>2, <2>1, MoverOverlooksNone
  <2>2. CASE d # c
    <3>1. turn = c /\ turn' = c + 1 /\ d < turn
      BY <1>0, <1>2, <2>2 DEF MoveCat
    <3>2. cat'[d] = cat[d] /\ caught'[d] = caught[d]
      BY <1>2, <2>2, CatMoves DEF MoveCat, TypeOK
    <3>3. mouse'[n] = mouse[n]
      BY <1>2 DEF MoveCat, Catch, Put, TypeOK
    <3> QED
      BY <3>1, <3>2, <3>3 DEF NoneOverlooked
  <2> QED
    BY <2>1, <2>2
<1>3. CASE UNCHANGED vars
  BY <1>3 DEF NoneOverlooked, vars
<1> QED
  BY <1>1, <1>2, <1>3 DEF Next, TickStep

\* When a cat has moved and caught nobody, no mouse on the surface is within its
\* reach, in whatever field and however many cats move after it.
THEOREM NoneOverlookedCorrect == Spec => []NoneOverlooked
<1>1. Init => NoneOverlooked
  BY Numbers DEF Init, NoneOverlooked
<1>2. TypeOK /\ NoneOverlooked /\ [Next]_vars => NoneOverlooked'
  BY NoneOverlookedNext
<1> QED
  BY <1>1, <1>2, TypeCorrect, PTL DEF Spec

-----------------------------------------------------------------------------

(* Who has been caught in this tick is underground, and only cats that have *)
(* moved have caught anybody.                                               *)
CatchInv ==
    turn # 0 =>
      \A c \in Cats : caught[c] # Nobody => c < turn /\ mouse[caught[c]] = Under

HuntInv == CatchInv /\ CaughtOnce

LEMMA HuntNext ==
    ASSUME TypeOK, HuntInv, [Next]_vars PROVE HuntInv'
<1>0. turn \in Nat /\ Cats \subseteq Nat \ {0} /\ NumCats \in Nat
  BY Numbers DEF TypeOK
<1>1. CASE PlayerStep \/ EndUpdate
  <2>1. turn' = 0
    BY <1>1 DEF PlayerStep, MoveMouse, ChangeLevel, Act, EndUpdate
  <2> QED
    BY <2>1 DEF HuntInv, CatchInv, CaughtOnce
<1>2. CASE BeginUpdate
  BY <1>2 DEF BeginUpdate, HuntInv, CatchInv, CaughtOnce
<1>3. ASSUME NEW c \in Cats, MoveCat(c) PROVE HuntInv'
  <2>0. /\ turn = c /\ turn' = c + 1 /\ turn # 0 /\ c \in Nat
        /\ caught \in [Cats -> Mice \cup {Nobody}]
        /\ mouse \in [Mice -> Field \cup {Under}]
        /\ caught[c] = Nobody
    BY <1>0, <1>3 DEF MoveCat, TypeOK, HuntInv, CatchInv
  <2>1. CASE UNCHANGED <<mouse, caught>>
    BY <1>0, <2>0, <2>1 DEF HuntInv, CatchInv, CaughtOnce
  <2>2. CASE \E m \in InSight(c) : Catch(m) /\ caught' = [caught EXCEPT ![c] = m]
    <3>1. PICK m \in SeenMice : Catch(m) /\ caught' = [caught EXCEPT ![c] = m]
      BY <2>2 DEF InSight, FindNearest
    <3>2. /\ m \in Mice /\ mouse[m] # Under
          /\ mouse' = [mouse EXCEPT ![m] = Under]
      BY <3>1 DEF SeenMice, Catch, Put
    <3>3. \A d \in Cats : caught[d] # m
      BY <2>0, <3>2, PlacesAssumption DEF HuntInv, CatchInv
    <3>4. ASSUME NEW d \in Cats, caught'[d] # Nobody
          PROVE  d < turn' /\ mouse'[caught'[d]] = Under
      <4>1. CASE d = c
        BY <2>0, <3>1, <3>2, <4>1
      <4>2. CASE d # c
        <5>1. /\ caught'[d] = caught[d] /\ caught[d] \in Mice
              /\ d < turn /\ mouse[caught[d]] = Under
          BY <2>0, <3>1, <3>4, <4>2 DEF HuntInv, CatchInv
        <5>2. d \in Nat
          BY <1>0
        <5> QED
          BY <2>0, <3>2, <5>1, <5>2
      <4> QED
        BY <4>1, <4>2
    <3>5. CaughtOnce'
      BY <2>0, <3>1, <3>3 DEF HuntInv, CaughtOnce
    <3> QED
      BY <3>4, <3>5 DEF HuntInv, CatchInv
  <2> QED
    BY <1>3, <2>1, <2>2 DEF MoveCat
<1>4. CASE UNCHANGED vars
  BY <1>4 DEF HuntInv, CatchInv, CaughtOnce, vars
<1> QED
  BY <1>1, <1>2, <1>3, <1>4 DEF Next, TickStep

\* No two cats catch the same mouse in one tick, for any number of both.
THEOREM CaughtOnceCorrect == Spec => []CaughtOnce
<1>1. Init => HuntInv
  BY DEF Init, HuntInv, CatchInv, CaughtOnce
<1>2. TypeOK /\ HuntInv /\ [Next]_vars => HuntInv'
  BY HuntNext
<1>3. HuntInv => CaughtOnce
  BY DEF HuntInv
<1> QED
  BY <1>1, <1>2, <1>3, TypeCorrect, PTL DEF Spec

-----------------------------------------------------------------------------
(* What ComesToRest rests on: each round brings it closer, and only the    *)
(* players take it away again.                                             *)

\* A tracker that moves while mice are on the surface catches one, or is a whole
\* step closer to the nearest of them than before; so the distance to the
\* nearest mouse, which is at least Reach, cannot be closed in for ever
\* (Cat.move, Cat.computeMoveToMouse).
TrackersCloseIn ==
    [][\A c \in Cats \ Guards :
         turn = c /\ turn' # c /\ SeenMice # {} =>
           \/ caught'[c] # Nobody
           \/ \E m \in SeenMice : \A n \in SeenMice :
                Dist(cat'[c], mouse'[m]) + Step <= Dist(cat[c], mouse[n])]_vars

\* A guard that sees no mouse on the surface comes a whole step closer to its
\* tunnel, or is within a step of it (TunnelCamperCat.getDefaultPosition).
GuardsTurnHome ==
    [][\A c \in Guards :
         turn = c /\ turn' # c /\ SeenMice = {} =>
           \/ Dist(cat'[c], guarded[c]) <= Step
           \/ Dist(cat'[c], guarded[c]) + Step = Dist(cat[c], guarded[c])]_vars

\* Once the surface is empty and the guards are at home, only an action of a
\* player ends that: no cat leaves its place by itself.
OnlyPlayersDisturb == [][AtRest => AtRest' \/ PlayerStep]_vars

(* The distance after a step that does not reach its target.               *)
LEMMA StepCloses ==
    ASSUME NEW p \in Place, NEW q \in Field
    PROVE  \/ Dist(MoveTowards(p, q), q) <= Step
           \/ Dist(MoveTowards(p, q), q) + Step = Dist(p, q)
<1>0. q \in Place /\ Step \in Nat /\ Dist(p, q) \in Nat /\ Dist(p, p) = 0
  BY PlacesAssumption, NumbersAssumption, Distance
<1>1. CASE p = q
  BY <1>0, <1>1 DEF MoveTowards
<1>2. CASE p # q
  <2>1. Dist(Ahead(p, q), q) = IF Dist(p, q) < Step THEN Step - Dist(p, q)
                                                    ELSE Dist(p, q) - Step
    BY <1>2, PlacesAssumption DEF IsStep
  <2> QED
    BY <1>0, <1>2, <2>1 DEF MoveTowards
<1> QED
  BY <1>1, <1>2

\* Every move of a tracker towards the surface makes progress, for any number of
\* mice and cats and on any field: it catches, or closes in by a step.
THEOREM TrackersCloseInCorrect == Spec => TrackersCloseIn
<1> DEFINE Closing ==
      \A c \in Cats \ Guards :
        turn = c /\ turn' # c /\ SeenMice # {} =>
          \/ caught'[c] # Nobody
          \/ \E m \in SeenMice : \A n \in SeenMice :
               Dist(cat'[c], mouse'[m]) + Step <= Dist(cat[c], mouse[n])
<1>1. TypeOK /\ [Next]_vars => [Closing]_vars
  <2> SUFFICES ASSUME TypeOK, Next, NEW c \in Cats \ Guards,
                      turn = c, turn' # c, SeenMice # {}, caught'[c] = Nobody
               PROVE  \E m \in SeenMice : \A n \in SeenMice :
                        Dist(cat'[c], mouse'[m]) + Step <= Dist(cat[c], mouse[n])
    OBVIOUS
  <2>0. /\ cat \in [Cats -> Place] /\ cat[c] \in Place
        /\ mouse \in [Mice -> Field \cup {Under}]
        /\ caught \in [Cats -> Mice \cup {Nobody}]
        /\ Field \subseteq Place /\ Nobody \notin Mice
        /\ Reach \in Nat /\ Step \in Nat /\ Step < Reach
        /\ c \in Nat \ {0} /\ NumCats \in Nat /\ c <= NumCats
    BY PlacesAssumption, NumbersAssumption, Numbers DEF TypeOK, Cats
  <2>1. MoveCat(c)
    BY <2>0 DEF Next, PlayerStep, TickStep, MoveMouse, ChangeLevel, Act, BeginUpdate,
       EndUpdate, MoveCat
  <2>2. InSight(c) # {}
    BY SomeMouseIsNearest DEF InSight
  <2>3. PICK m \in InSight(c) :
          /\ cat' = [cat EXCEPT ![c] = MoveTowards(cat[c], mouse[m])]
          /\ ~Intersects(cat'[c], m)
          /\ UNCHANGED mouse
    BY <2>0, <2>1, <2>2 DEF MoveCat, InSight, FindNearest, SeenMice
  <2>4. /\ m \in SeenMice /\ mouse[m] \in Field
        /\ \A n \in SeenMice : Dist(cat[c], mouse[m]) <= Dist(cat[c], mouse[n])
    BY <2>0, <2>3 DEF InSight, FindNearest, SeenMice
  <2>5. /\ cat'[c] = MoveTowards(cat[c], mouse[m])
        /\ cat'[c] \in Place
        /\ Dist(cat'[c], mouse[m]) \in Nat
    BY <2>0, <2>3, <2>4, Moved, Distance
  <2>6. Dist(cat'[c], mouse[m]) >= Reach
    BY <2>0, <2>3, <2>5 DEF Intersects
  <2>7. Dist(cat'[c], mouse[m]) + Step = Dist(cat[c], mouse[m])
    BY <2>0, <2>4, <2>5, <2>6, StepCloses
  <2> QED
    BY <2>3, <2>4, <2>7
<1> QED
  BY <1>1, TypeCorrect, PTL DEF Spec, TrackersCloseIn

\* However far a mouse has drawn a guard away, with nobody to chase each of its
\* moves brings it a step closer to its own tunnel.
THEOREM GuardsTurnHomeCorrect == Spec => GuardsTurnHome
<1> DEFINE Turning ==
      \A c \in Guards :
        turn = c /\ turn' # c /\ SeenMice = {} =>
          \/ Dist(cat'[c], guarded[c]) <= Step
          \/ Dist(cat'[c], guarded[c]) + Step = Dist(cat[c], guarded[c])
<1>1. TypeOK /\ [Next]_vars => [Turning]_vars
  <2> SUFFICES ASSUME TypeOK, Next, NEW c \in Guards,
                      turn = c, turn' # c, SeenMice = {}
               PROVE  \/ Dist(cat'[c], guarded[c]) <= Step
                      \/ Dist(cat'[c], guarded[c]) + Step = Dist(cat[c], guarded[c])
    OBVIOUS
  <2>0. /\ c \in Cats /\ cat \in [Cats -> Place] /\ cat[c] \in Place
        /\ guarded[c] \in Field
        /\ c \in Nat \ {0} /\ NumCats \in Nat /\ c <= NumCats
    BY PlacesAssumption, NumbersAssumption, Numbers DEF TypeOK, Cats
  <2>1. MoveCat(c)
    BY <2>0 DEF Next, PlayerStep, TickStep, MoveMouse, ChangeLevel, Act, BeginUpdate,
       EndUpdate, MoveCat
  <2>2. cat'[c] = MoveTowards(cat[c], guarded[c])
    BY <2>0, <2>1 DEF MoveCat, InSight, FindNearest, DefaultPosition
  <2> QED
    BY <2>0, <2>2, StepCloses
<1> QED
  BY <1>1, TypeCorrect, PTL DEF Spec, GuardsTurnHome

\* The rest that ComesToRest promises is stable: ticks alone never end it, so
\* it is reached for good as soon as the players stop.
THEOREM OnlyPlayersDisturbCorrect == Spec => OnlyPlayersDisturb
<1>1. TypeOK /\ [Next]_vars => [AtRest => AtRest' \/ PlayerStep]_vars
  <2> SUFFICES ASSUME TypeOK, TickStep, AtRest PROVE AtRest'
    BY DEF Next
  <2>0. /\ Guards \subseteq Cats
        /\ cat \in [Cats -> Place]
        /\ \A c \in Cats : guarded[c] \in Field /\ guarded[c] \in Place
        /\ mouse \in [Mice -> Field \cup {Under}]
    BY PlacesAssumption, Numbers DEF TypeOK
  <2>1. CASE BeginUpdate
    BY <2>1 DEF BeginUpdate, AtRest, SeenMice
  <2>2. CASE EndUpdate
    BY <2>2 DEF EndUpdate, AtRest, SeenMice
  <2>3. ASSUME NEW c \in Cats, MoveCat(c) PROVE AtRest'
    <3>1. InSight(c) = {}
      BY DEF InSight, FindNearest, AtRest
    <3>2. /\ UNCHANGED <<mouse, guarded>>
          /\ cat' = [cat EXCEPT ![c] = MoveTowards(cat[c], DefaultPosition(c))]
      BY <2>3, <3>1 DEF MoveCat
    <3>3. ASSUME NEW d \in Guards PROVE Dist(cat'[d], guarded'[d]) <= Step
      <4>1. CASE d # c
        BY <2>0, <3>2, <4>1 DEF AtRest
      <4>2. CASE d = c
        <5>1. cat'[c] = MoveTowards(cat[c], guarded[c]) /\ cat'[c] \in Place
          BY <2>0, <3>2, <4>2, Moved DEF DefaultPosition
        <5>2. Dist(cat[c], guarded[c]) <= Step
          BY <4>2 DEF AtRest
        <5>3. /\ Dist(cat[c], guarded[c]) \in Nat /\ Dist(cat'[c], guarded[c]) \in Nat
              /\ Step \in Nat
          BY <2>0, <5>1, Distance, NumbersAssumption
        <5>4. Dist(cat'[c], guarded[c]) <= Step
          BY <2>0, <5>1, <5>2, <5>3, StepCloses
        <5> QED
          BY <3>2, <4>2, <5>4
      <4> QED
        BY <4>1, <4>2
    <3> QED
      BY <3>2, <3>3 DEF AtRest, SeenMice
  <2> QED
    BY <2>1, <2>2, <2>3 DEF TickStep
<1> QED
  BY <1>1, TypeCorrect, PTL DEF Spec, OnlyPlayersDisturb

-----------------------------------------------------------------------------
(* The round of the cats, as GameServer sees it.                           *)

Hunt == INSTANCE HuntRound WITH
    Prey <- Mice,
    Turns <- NumCats,
    phase <- IF turn = 0 THEN "players" ELSE "cats",
    left <- IF turn = 0 THEN 0 ELSE NumCats + 1 - turn,
    surface <- SeenMice

\* A tick takes each cat's turn once and in it at most one mouse off the surface;
\* the same is proved of GameServer, whose cats catch any mouse or none.
ImplementsHunt == Hunt!HuntSpec

LEMMA HuntRefinementStep ==
    ASSUME TypeOK, [Next]_vars
    PROVE  [Hunt!HuntStep]_(Hunt!huntVars)
<1> USE DEF Hunt!huntVars, Hunt!HuntStep
<1>0. /\ turn \in 0..NumCats + 1 /\ NumCats \in Nat /\ Cats = 1..NumCats
      /\ mouse \in [Mice -> Field \cup {Under}]
      /\ Under \notin Field
      /\ \A p \in Field : Clamp(p) \in Field
      /\ Doors \subseteq Field
  BY Numbers, PlacesAssumption DEF TypeOK, Cats
<1>1. CASE UNCHANGED vars
  BY <1>1 DEF vars, SeenMice
<1>2. ASSUME NEW m \in Mice, NEW p \in Field \cup {Under}, turn = 0, turn' = 0, Put(m, p)
      PROVE  Hunt!ComeUp(m) \/ Hunt!GoDown(m)
  <2>1. CASE p = Under
    <3>1. SeenMice' = SeenMice \ {m}
      BY <1>0, <1>2, <2>1 DEF SeenMice, Put
    <3> QED
      BY <1>2, <3>1 DEF Hunt!GoDown
  <2>2. CASE p # Under
    <3>1. SeenMice' = SeenMice \cup {m}
      BY <1>0, <1>2, <2>2 DEF SeenMice, Put
    <3> QED
      BY <1>2, <3>1 DEF Hunt!ComeUp
  <2> QED
    BY <2>1, <2>2
<1>3. ASSUME NEW m \in Mice, MoveMouse(m) \/ ChangeLevel(m)
      PROVE  Hunt!ComeUp(m) \/ Hunt!GoDown(m)
  BY <1>0, <1>2, <1>3 DEF MoveMouse, ChangeLevel, Act
<1>4. CASE BeginUpdate
  BY <1>0, <1>4 DEF BeginUpdate, Hunt!BeginHunt, SeenMice
<1>5. ASSUME NEW c \in Cats, MoveCat(c)
      PROVE  Hunt!MissTurn \/ \E m \in Mice : Hunt!CatchTurn(m)
  <2>1. /\ turn \in 1..NumCats /\ turn' = turn + 1
    BY <1>0, <1>5 DEF MoveCat
  <2>2. CASE UNCHANGED mouse
    BY <1>0, <2>1, <2>2 DEF Hunt!MissTurn, SeenMice
  <2>3. CASE \E m \in InSight(c) : Catch(m)
    <3>1. PICK m \in SeenMice : Catch(m)
      BY <2>3 DEF InSight, FindNearest
    <3>2. m \in Mice /\ SeenMice' = SeenMice \ {m}
      BY <1>0, <3>1 DEF SeenMice, Catch, Put
    <3> QED
      BY <1>0, <2>1, <3>1, <3>2 DEF Hunt!CatchTurn
  <2> QED
    BY <1>5, <2>2, <2>3 DEF MoveCat
<1>6. CASE EndUpdate
  <2>1. SeenMice' = SeenMice
    BY <1>0, <1>6 DEF EndUpdate, SeenMice
  <2> QED
    BY <1>0, <1>6, <2>1 DEF EndUpdate, Hunt!EndHunt
<1> QED
  BY <1>1, <1>3, <1>4, <1>5, <1>6 DEF Next, PlayerStep, TickStep

\* Whatever the geometry decides about who is caught, a tick of CatHunt is a
\* round of the hunt as GameServer has it.
THEOREM ImplementsHuntCorrect == Spec => ImplementsHunt
<1>1. Init => Hunt!HuntInit
  BY DEF Init, Hunt!HuntInit, SeenMice
<1>2. TypeOK /\ [Next]_vars => [Hunt!HuntStep]_(Hunt!huntVars)
  BY HuntRefinementStep
<1> QED
  BY <1>1, <1>2, TypeCorrect, PTL DEF Spec, ImplementsHunt, Hunt!HuntSpec
=============================================================================
