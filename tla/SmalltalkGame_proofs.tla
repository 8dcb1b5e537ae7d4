------------------------ MODULE SmalltalkGame_proofs ------------------------
(***************************************************************************)
(* The Smalltalk game on any plane with a distance and for any keyboard.   *)
(***************************************************************************)
EXTENDS SmalltalkGame, TLAPS

(* The verdict has been shown when the loop is over, and not before.       *)
ShownInv ==
    /\ loop \in {"show", "test"} => shown = << >>
    /\ loop = "over" => state # 0

LEMMA CatStays ==
    ASSUME NEW p \in Place, NEW q \in Followed
    PROVE  MoveCat(p, q) \in Place
  BY PlacesAssumption DEF MoveCat, IsStep

LEMMA ShownOnce == << >> \in Seq(Nat) /\ \A n \in Nat : Append(<< >>, n) = <<n>>
  OBVIOUS

LEMMA TypeNext ==
    ASSUME TypeOK, ShownInv, [Next]_vars PROVE TypeOK' /\ ShownInv'
<1>1. ASSUME NEW k \in Keys, KeyDown(k) \/ KeyUp(k) PROVE TypeOK' /\ ShownInv'
  BY <1>1 DEF TypeOK, ShownInv, KeyDown, KeyUp, Remove, gameVars
<1>2. CASE ChangeFocus
  BY <1>2 DEF TypeOK, ShownInv, ChangeFocus, gameVars
<1>3. CASE Fork
  BY <1>3 DEF TypeOK, ShownInv, Fork, keyVars
<1>4. CASE Round
  <2>1. cat' \in Place /\ mouse' \in Followed
    BY <1>4, CatStays DEF Round, TypeOK
  <2>2. state' \in 0..2
    BY <1>4 DEF Round, Verdict
  <2> QED
    BY <1>4, <2>1, <2>2 DEF TypeOK, ShownInv, Round, keyVars
<1>5. CASE GameEnd
  <2>1. state \in {1, 2} /\ shown = << >>
    BY <1>5 DEF GameEnd, TypeOK, ShownInv
  <2>2. shown' \in {<<1>>, <<2>>}
    BY <1>5, <2>1, ShownOnce DEF GameEnd
  <2> QED
    BY <1>5, <2>1, <2>2 DEF TypeOK, ShownInv, GameEnd, keyVars
<1>6. CASE UNCHANGED vars
  BY <1>6 DEF TypeOK, ShownInv, vars, keyVars, gameVars
<1> QED
  BY <1>1, <1>2, <1>3, <1>4, <1>5, <1>6 DEF Next, UserStep, LoopStep

\* The types, and that gameEnd is called once and with a verdict.
THEOREM TypeCorrect == Spec => []TypeOK
<1>1. Init => TypeOK /\ ShownInv
  BY PlacesAssumption DEF Init, TypeOK, ShownInv
<1>2. TypeOK /\ ShownInv /\ [Next]_vars => (TypeOK /\ ShownInv)'
  BY TypeNext
<1> QED
  BY <1>1, <1>2, PTL DEF Spec

\* The loop reads the keys that are held down, unless one was missed.
THEOREM KeysInStepCorrect == Spec => []KeysInStep
<1>1. Init => KeysInStep
  BY DEF Init, KeysInStep
<1>2. TypeOK /\ KeysInStep /\ [Next]_vars => KeysInStep'
  <2> SUFFICES ASSUME TypeOK, KeysInStep, [Next]_vars PROVE KeysInStep'
    OBVIOUS
  <2>1. ASSUME NEW k \in Keys, KeyDown(k) PROVE KeysInStep'
    BY <2>1 DEF KeysInStep, KeyDown, TypeOK
  <2>2. ASSUME NEW k \in Keys, KeyUp(k) PROVE KeysInStep'
    BY <2>2 DEF KeysInStep, KeyUp, Remove, TypeOK
  <2>3. CASE UNCHANGED <<activeKeys, held, missed>>
    BY <2>3 DEF KeysInStep
  <2> QED
    BY <2>1, <2>2, <2>3
    DEF Next, UserStep, LoopStep, ChangeFocus, Fork, Round, GameEnd, keyVars, vars
<1> QED
  BY <1>1, <1>2, TypeCorrect, PTL DEF Spec

\* While no key is active each round takes the cat a whole step closer until it is
\* within its radius, so it cannot step over the mouse; the number of rounds
\* left is what LetGoEnds rests on.
THEOREM StillMouseIsApproached ==
    Spec => [][Round /\ activeKeys = {} =>
                 \/ Dist(cat', mouse') = Dist(cat, mouse) - Speed
                 \/ state' = 2]_vars
<1>1. ASSUME TypeOK, Round, activeKeys = {}
      PROVE  Dist(cat', mouse') = Dist(cat, mouse) - Speed \/ state' = 2
  <2>1. mouse' = mouse /\ mouse \in Followed /\ cat \in Place
    BY <1>1, PlacesAssumption DEF Round, TypeOK
  <2>2. /\ mouse \in Place /\ Dist(cat, mouse) \in Nat /\ Dist(cat, cat) = 0
        /\ Speed \in Nat /\ CatRadius \in Nat /\ Speed <= CatRadius
    BY <2>1, PlacesAssumption, NumbersAssumption DEF IsDistance
  <2>3. cat' = MoveCat(cat, mouse) /\ (CheckCaught(cat', mouse') => state' = 2)
    BY <1>1, <2>1 DEF Round, Verdict
  <2>4. CASE cat = mouse
    BY <2>1, <2>2, <2>3, <2>4 DEF MoveCat, CheckCaught
  <2>5. CASE cat # mouse
    <3>1. Dist(Ahead(cat, mouse), mouse)
            = IF Dist(cat, mouse) < Speed THEN Speed - Dist(cat, mouse)
                                          ELSE Dist(cat, mouse) - Speed
      BY <2>1, <2>5, PlacesAssumption DEF IsStep
    <3>2. CASE Dist(cat, mouse) < Speed
      <4>1. Dist(Ahead(cat, mouse), mouse) <= CatRadius
        BY <2>2, <3>1, <3>2
      <4> QED
        BY <2>1, <2>3, <2>5, <4>1 DEF MoveCat, CheckCaught
    <3>3. CASE ~(Dist(cat, mouse) < Speed)
      BY <2>1, <2>3, <2>5, <3>1, <3>3 DEF MoveCat
    <3> QED
      BY <3>2, <3>3
  <2> QED
    BY <2>4, <2>5
<1> QED
  BY <1>1, TypeCorrect, PTL DEF Spec

-----------------------------------------------------------------------------
(* The verdict.                                                            *)

\* The mouse is told that it has won only in the tunnel and out of the cat's
\* reach, and that it has lost only within it, on any plane and whatever keys
\* are pressed or missed.
THEOREM VerdictIsRightCorrect == Spec => []VerdictIsRight
<1> DEFINE Right == TypeOK /\ ShownInv /\ VerdictIsRight
<1>1. Init => Right
  BY PlacesAssumption DEF Init, TypeOK, ShownInv, VerdictIsRight
<1>2. Right /\ [Next]_vars => Right'
  <2> SUFFICES ASSUME TypeOK, ShownInv, VerdictIsRight, [Next]_vars
               PROVE  VerdictIsRight'
    BY TypeNext
  <2>1. CASE Round
    <3>1. CASE CheckCaught(cat', mouse')
      BY <2>1, <3>1 DEF Round, Verdict, VerdictIsRight, keyVars
    <3>2. CASE ~CheckCaught(cat', mouse')
      BY <2>1, <3>2 DEF Round, Verdict, VerdictIsRight, keyVars
    <3> QED
      BY <3>1, <3>2
  <2>2. CASE GameEnd
    <3>1. state \in {1, 2} /\ shown = << >>
      BY <2>2 DEF GameEnd, TypeOK, ShownInv
    <3>2. shown' = <<state>>
      BY <2>2, <3>1, ShownOnce DEF GameEnd
    <3> QED
      BY <2>2, <3>1, <3>2 DEF GameEnd, VerdictIsRight, CheckCaught, CheckTunnel
  <2>3. CASE Fork
    BY <2>3 DEF Fork, VerdictIsRight, CheckCaught, CheckTunnel
  <2>4. CASE UNCHANGED gameVars
    BY <2>4 DEF gameVars, VerdictIsRight, CheckCaught, CheckTunnel
  <2> QED
    BY <2>1, <2>2, <2>3, <2>4
    DEF Next, UserStep, LoopStep, KeyDown, KeyUp, ChangeFocus, vars
<1>3. Right => VerdictIsRight
  OBVIOUS
<1> HIDE DEF Right
<1> QED
  BY <1>1, <1>2, <1>3, PTL DEF Spec
=============================================================================
