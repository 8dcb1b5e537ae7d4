-------------------------- MODULE EiffelGame_proofs --------------------------
(***************************************************************************)
(* Theorems about EiffelGame for every size of the field, length of the    *)
(* game and of the day, and every delay of the clock.                      *)
(***************************************************************************)
EXTENDS EiffelGame, TLAPS

USE FieldAssumption, TimeAssumption

-----------------------------------------------------------------------------
(* The operators.                                                          *)

\* MOUSE.move_left and the others: the borders hold the mouse.
LEMMA KeysStayInField ==
    ASSUME NEW p \in Field
    PROVE  KeyMoves(p) \subseteq Field
BY DEF KeyMoves, MoveLeft, MoveRight, MoveUp, MoveDown, Field

LEMMA Sizes ==
    /\ Width \in 0..Width /\ Height \in 0..Height
    /\ Width \div 2 \in 0..Width /\ Height \div 2 \in 0..Height
OBVIOUS

\* A pseudo-random cell is a cell.
LEMMA DrawsAreInField ==
    ASSUME NEW w \in 0..Width, NEW h \in 0..Height
    PROVE  Draw(w, h) \subseteq Field
BY DEF Draw, Field

\* The times of day stay times of day.
LEMMA AfterIsATime ==
    ASSUME NEW t \in 0..Day-1, NEW d \in 0..Day
    PROVE  After(t, d) \in 0..Day-1 /\ After(t, d) <= t + d
BY DEF After

\* The corner to which a cat on the mouse may be sent.
LEMMA CornerIsInField == [x |-> 0, y |-> 0] \in Field
BY DEF Field

\* What the delays add up to is within a day.
LEMMA DelaysAreShort ==
    /\ 1 \in 0..Day
    /\ \A d \in 0..MaxDelay : d \in 0..Day /\ d + GameTime \in 0..Day
OBVIOUS

Abs(n) == IF n < 0 THEN -n ELSE n

\* The longer of two distances has the longer square.
LEMMA Squares ==
    ASSUME NEW d \in Int, NEW e \in Int, Abs(e) <= Abs(d)
    PROVE  e * e <= d * d /\ 0 <= e * e
<1>1. 0 <= Abs(e) /\ Abs(e) \in Int /\ Abs(d) \in Int
  BY DEF Abs
<1>2. Abs(e) * Abs(e) <= Abs(d) * Abs(d)
  <2> DEFINE a == Abs(e)
             b == Abs(d)
  <2>1. a \in Int /\ b \in Int /\ 0 <= a /\ a <= b
    BY <1>1
  <2> HIDE DEF a, b
  <2>2. a * a <= a * b /\ a * b <= b * b
    BY <2>1
  <2>3. a * a \in Int /\ a * b \in Int /\ b * b \in Int
    BY <2>1
  <2> QED BY <2>2, <2>3 DEF a, b
<1>3. Abs(e) * Abs(e) = e * e /\ Abs(d) * Abs(d) = d * d
  BY DEF Abs
<1>4. 0 <= e * e
  BY <1>1, <1>3
<1> QED BY <1>2, <1>3, <1>4

\* The cat always steps along the longer of the two distances, and never the
\* wrong way.
LEMMA StepsAlongLonger ==
    ASSUME NEW d \in Int, NEW e \in Int
    PROVE  /\ StepAlong(d, e) \in {0, 1, -1}
           /\ StepAlong(d, e) = 1 => d > 0
           /\ StepAlong(d, e) = -1 => d < 0
           /\ d # 0 /\ Abs(e) <= Abs(d) => StepAlong(d, e) # 0
<1>1. CASE d = 0
  BY <1>1 DEF StepAlong
<1>2. CASE d # 0 /\ Abs(e) <= Abs(d)
  <2> DEFINE dd == d * d
             ee == e * e
  <2>1. dd \in Int /\ ee \in Int /\ ee <= dd /\ 0 <= ee
    BY <1>2, Squares
  <2>2. 40 * d * d = 40 * dd /\ 9 * e * e = 9 * ee
    OBVIOUS
  <2>3. ~(40 * d * d < 9 * e * e)
    <3> HIDE DEF dd, ee
    <3> QED BY <2>1, <2>2
  <2> QED BY <1>2, <2>3 DEF StepAlong
<1>3. CASE d # 0 /\ ~(Abs(e) <= Abs(d))
  BY <1>3 DEF StepAlong
<1> QED BY <1>1, <1>2, <1>3

-----------------------------------------------------------------------------
(* The two players.                                                        *)

\* Unless the program has failed the cat is in the field.
TypeInv == TypeOK /\ (pc # "failed" => cat \in Field)

\* Whatever the angle, the cat moves like a king and comes one step closer.
LEMMA KingStep ==
    ASSUME NEW c \in Field, NEW p \in Field, c # p, NEW e \in CatMoves(c, p)
    PROVE  e \in Field /\ Apart(e, p) = Apart(c, p) - 1
<1> DEFINE dx == p.x - c.x
           dy == p.y - c.y
           mx == StepAlong(dx, dy)
           my == StepAlong(dy, dx)
<1>1. /\ dx \in Int /\ dy \in Int
      /\ c.x \in 0..Width-1 /\ p.x \in 0..Width-1
      /\ c.y \in 0..Height-1 /\ p.y \in 0..Height-1
  BY DEF Field
<1>2. dx # 0 \/ dy # 0
  BY DEF Field
<1>3. e = [x |-> c.x + mx, y |-> c.y + my]
  BY DEF CatMoves
<1>4. /\ mx \in {0, 1, -1}
      /\ mx = 1 => dx > 0
      /\ mx = -1 => dx < 0
      /\ dx # 0 /\ Abs(dy) <= Abs(dx) => mx # 0
  BY <1>1, StepsAlongLonger
<1>5. /\ my \in {0, 1, -1}
      /\ my = 1 => dy > 0
      /\ my = -1 => dy < 0
      /\ dy # 0 /\ Abs(dx) <= Abs(dy) => my # 0
  BY <1>1, StepsAlongLonger
<1>6. e.x = c.x + mx /\ e.y = c.y + my
  BY <1>3
<1>7. e \in Field
  <2>1. c.x + mx \in 0..Width-1
    BY <1>1, <1>4
  <2>2. c.y + my \in 0..Height-1
    BY <1>1, <1>5
  <2> QED BY <1>3, <2>1, <2>2 DEF Field
<1>8. p.x - e.x = dx - mx /\ p.y - e.y = dy - my
  BY <1>1, <1>4, <1>5, <1>6
<1> HIDE DEF dx, dy, mx, my
<1>9. Apart(c, p) = IF Abs(dx) < Abs(dy) THEN Abs(dy) ELSE Abs(dx)
  BY DEF Apart, Abs, dx, dy
<1>10. Apart(e, p) = IF Abs(dx - mx) < Abs(dy - my) THEN Abs(dy - my) ELSE Abs(dx - mx)
  BY <1>8 DEF Apart, Abs
<1>11. Apart(e, p) = Apart(c, p) - 1
  BY <1>1, <1>2, <1>4, <1>5, <1>9, <1>10 DEF Abs
<1> QED BY <1>7, <1>11

LEMMA TypeInit == Init => TypeInv
<1> SUFFICES ASSUME Init PROVE TypeInv
  OBVIOUS
<1>2. cat \in Field /\ player \in Field
  BY Sizes, DrawsAreInField DEF Init
<1>3. tunnels \in SUBSET Field
  <2>1. PICK a \in Draw(Width, Height \div 2), b \in Draw(Width \div 2, Height) : tunnels = {a, b}
    BY DEF Init
  <2> QED BY Sizes, <2>1, DrawsAreInField
<1> QED BY <1>2, <1>3 DEF Init, TypeInv, TypeOK

LEMMA TypeNext == TypeInv /\ [Next]_vars => TypeInv'
<1> SUFFICES ASSUME TypeInv, [Next]_vars PROVE TypeInv'
  OBVIOUS
<1> USE DEF TypeInv, TypeOK, cells, times
<1>1. ASSUME NEW d \in (0..MaxDelay) \cup {1}, Pass(d)
      PROVE  clock' \in 0..Day-1 /\ next_day' \in BOOLEAN
  <2>1. clock' = After(clock, d)
    BY <1>1 DEF Pass
  <2>4. d \in 0..Day /\ clock \in 0..Day-1
    <3>1. CASE d = 1
      BY <3>1, DelaysAreShort
    <3>2. CASE d \in 0..MaxDelay
      BY <3>2, DelaysAreShort
    <3> QED BY <3>1, <3>2
  <2>2. clock' \in 0..Day-1
    BY <2>1, <2>4, AfterIsATime
  <2>3. next_day' \in BOOLEAN
    BY <1>1, Zenon DEF Pass
  <2> QED BY <2>2, <2>3
<1>2. CASE SetMaxTime
  <2>1. PICK d \in 0..MaxDelay : Pass(d) /\ time_out' = After(clock, d + GameTime)
    BY <1>2 DEF SetMaxTime
  <2>2. time_out' \in 0..Day-1
    BY <2>1, DelaysAreShort, AfterIsATime
  <2> QED BY <1>1, <1>2, <2>1, <2>2 DEF SetMaxTime, Duration, Fail
<1>3. CASE MovementKey
  <2>1. player' \in Field
    BY <1>3, KeysStayInField DEF MovementKey
  <2>2. cat' \in Field \cup {Off}
    <3>1. CASE cat = player'
      <4>1. cat' \in {[x |-> 0, y |-> 0], Off}
        BY <1>3, <3>1 DEF MovementKey, CatMoves
      <4> QED BY <4>1, CornerIsInField
    <3>2. CASE cat # player'
      BY <1>3, <3>2, <2>1, KingStep DEF MovementKey
    <3> QED BY <3>1, <3>2
  <2> QED BY <1>3, <2>1, <2>2 DEF MovementKey, Fail
<1>4. CASE OtherKey
  BY <1>4 DEF OtherKey
<1>5. CASE CheckTunnel
  BY <1>5 DEF CheckTunnel, IsTunnel
<1>6. CASE CheckTime
  BY <1>1, <1>6 DEF CheckTime, IsTimeOut
<1>7. CASE Caught
  <2>1. Draw(Width, Height) \subseteq Field
    BY Sizes, DrawsAreInField
  <2> QED BY <1>7, <2>1 DEF Caught
<1>8. CASE PrintTimer
  BY <1>1, <1>8 DEF PrintTimer, IsTime, Fail
<1>9. CASE Sleep
  BY <1>1, <1>9 DEF Sleep
<1>10. CASE UNCHANGED vars
  BY <1>10 DEF vars
<1> QED BY <1>2, <1>3, <1>4, <1>5, <1>6, <1>7, <1>8, <1>9, <1>10 DEF Next

\* Every variable keeps its type; the mouse is in the field at all times, and
\* so is the cat as long as no assertion has failed.
THEOREM TypeCorrect == Spec => [](TypeOK /\ (pc # "failed" => cat \in Field))
<1>1. Spec => []TypeInv
  BY TypeInit, TypeNext, PTL DEF Spec
<1> QED BY <1>1, PTL DEF TypeInv

\* CAT.move on a field of any size: the cat comes exactly one step of a king
\* closer, unless the mouse has walked onto it.
THEOREM CatClosesCorrect == Spec => CatCloses
<1>1. TypeInv /\ [Next]_vars =>
        [MovementKey /\ cat # player' => Apart(cat', player') = Apart(cat, player') - 1]_vars
  <2> SUFFICES ASSUME TypeInv, MovementKey, cat # player'
               PROVE  Apart(cat', player') = Apart(cat, player') - 1
    OBVIOUS
  <2>1. player' \in Field /\ cat \in Field
    BY KeysStayInField DEF MovementKey, TypeInv, TypeOK
  <2> QED BY <2>1, KingStep DEF MovementKey
<1> QED BY <1>1, TypeInit, TypeNext, PTL DEF Spec, CatCloses

\* The invariant of CAT fails only when the cat is where the mouse has gone.
THEOREM OnlyZeroLeavesCorrect == Spec => OnlyZeroLeaves
<1>1. TypeInv /\ [Next]_vars => [fault' = "cat" /\ fault # "cat" => cat = player']_vars
  <2> SUFFICES ASSUME TypeInv, Next, fault' = "cat", fault # "cat"
               PROVE  cat = player'
    OBVIOUS
  <2>1. MovementKey
    BY DEF Next, SetMaxTime, OtherKey, CheckTunnel, CheckTime, Caught, PrintTimer,
       Sleep, Fail
  <2>2. cat' \notin Field
    BY <2>1 DEF MovementKey
  <2>3. player' \in Field /\ cat \in Field
    BY <2>1, KeysStayInField DEF MovementKey, TypeInv, TypeOK
  <2> QED BY <2>1, <2>2, <2>3, KingStep DEF MovementKey
<1> QED BY <1>1, TypeInit, TypeNext, PTL DEF Spec, OnlyZeroLeaves

-----------------------------------------------------------------------------
(* What a round notices.                                                   *)

\* What a part of the round has found out about the mouse's cell is still
\* true in the parts that follow.
NoticeInv ==
    /\ pc = "read" /\ ~fresh => player \notin tunnels \cup {cat}
    /\ pc \in {"time", "caught"} => (player \in tunnels => exit)
    /\ pc \in {"print", "sleep"} /\ ~fresh =>
         (player \in tunnels => exit) /\ player # cat
    /\ pc = "create" => fresh

LEMMA NoticeNext == TypeInv /\ NoticeInv /\ [Next]_vars => NoticeInv'
<1> SUFFICES ASSUME TypeInv, NoticeInv, [Next]_vars PROVE NoticeInv'
  OBVIOUS
<1> USE DEF NoticeInv, cells
<1>1. CASE SetMaxTime
  BY <1>1 DEF SetMaxTime, Duration, Fail
<1>2. CASE MovementKey
  BY <1>2 DEF MovementKey, Fail
<1>3. CASE OtherKey
  BY <1>3 DEF OtherKey
<1>4. CASE CheckTunnel
  BY <1>4 DEF CheckTunnel, IsTunnel
<1>5. CASE CheckTime
  BY <1>5 DEF CheckTime, IsTimeOut
<1>6. CASE Caught
  BY <1>6 DEF Caught
<1>7. CASE PrintTimer
  BY <1>7 DEF PrintTimer, IsTime, Fail
<1>8. CASE Sleep
  BY <1>8 DEF Sleep
<1>9. CASE UNCHANGED vars
  BY <1>9 DEF vars
<1> QED BY <1>1, <1>2, <1>3, <1>4, <1>5, <1>6, <1>7, <1>8, <1>9 DEF Next

\* A round leaves neither a tunnel nor a catch unnoticed.
THEOREM NothingUnnoticedCorrect == Spec => []NothingUnnoticed
<1>1. Init => NoticeInv
  BY DEF Init, NoticeInv
<1>2. NoticeInv => NothingUnnoticed
  BY DEF NoticeInv, NothingUnnoticed
<1> QED BY <1>1, <1>2, TypeInit, TypeNext, NoticeNext, PTL DEF Spec

-----------------------------------------------------------------------------
(* The end of the time.                                                    *)

\* How far the clock may be at each part of the round in a game that is over
\* before midnight: after CheckTime the loop goes on only before the time-out.
TimeInv ==
    time_out + Round <= Day /\ ~Ended =>
      /\ ~next_day
      /\ pc \in {"read", "tunnel", "time"} => clock < time_out + 1 + MaxDelay
      /\ pc \in {"caught", "print"} =>
           clock < time_out + 1 + 2 * MaxDelay /\ (exit \/ clock < time_out)
      /\ pc = "sleep" =>
           clock < time_out + 1 + 3 * MaxDelay /\ (exit \/ clock < time_out + MaxDelay)

\* Before the timer is set it is still the day of the start.
StartInv == pc = "create" => ~next_day

\* Without midnight time is added.
LEMMA SameDay ==
    ASSUME NEW d \in Nat, clock \in 0..Day-1, Pass(d), clock + d < Day, ~next_day
    PROVE  clock' = clock + d /\ ~next_day'
<1>1. clock' = clock + d
  BY DEF Pass, After
<1>2. ~(clock + d >= Day)
  OBVIOUS
<1>3. ~next_day'
  BY <1>2, Zenon DEF Pass
<1> QED BY <1>1, <1>3

LEMMA TimeNext == TypeInv /\ StartInv /\ TimeInv /\ [Next]_vars => TimeInv' /\ StartInv'
<1> SUFFICES ASSUME TypeInv, StartInv, TimeInv, [Next]_vars PROVE TimeInv' /\ StartInv'
  OBVIOUS
<1>0. /\ clock \in 0..Day-1 /\ time_out \in 0..Day-1
      /\ exit \in BOOLEAN /\ Round = 1 + 3 * MaxDelay
  BY DEF TypeInv, TypeOK, Round
<1> USE DEF TimeInv, StartInv, Ended
<1>1. CASE SetMaxTime
  <2>1. PICK d \in 0..MaxDelay : Pass(d) /\ time_out' = After(clock, d + GameTime)
    BY <1>1 DEF SetMaxTime
  <2>2. CASE pc' = "read"
    <3>1. time_out' > clock /\ ~next_day
      BY <1>1, <2>2 DEF SetMaxTime, Duration, Fail
    <3>2. clock + d + GameTime < Day /\ time_out' = clock + d + GameTime
      BY <1>0, <2>1, <3>1 DEF After
    <3>3. clock' = clock + d /\ ~next_day'
      BY <1>0, <2>1, <3>1, <3>2, SameDay
    <3> QED BY <1>0, <2>2, <3>2, <3>3
  <2>3. CASE pc' = "failed"
    BY <2>3
  <2> QED BY <1>1, <2>2, <2>3 DEF SetMaxTime, Duration, Fail
<1>2. CASE MovementKey
  BY <1>0, <1>2 DEF MovementKey, Fail, times
<1>3. CASE OtherKey
  BY <1>0, <1>3 DEF OtherKey, times
<1>4. CASE CheckTunnel
  BY <1>0, <1>4 DEF CheckTunnel, times
<1>5. CASE CheckTime
  <2>1. PICK d \in 0..MaxDelay : Pass(d)
    BY <1>5 DEF CheckTime, IsTimeOut
  <2> SUFFICES ASSUME time_out + Round <= Day PROVE TimeInv' /\ StartInv'
    BY <1>0, <1>5 DEF CheckTime, IsTimeOut
  <2>2. ~next_day /\ clock < time_out + 1 + MaxDelay
    BY <1>5 DEF CheckTime, IsTimeOut
  <2>3. clock' = clock + d /\ ~next_day'
    BY <1>0, <2>1, <2>2, SameDay
  <2>4. clock' < time_out + 1 + 2 * MaxDelay /\ clock' \in Int
    BY <1>0, <2>2, <2>3
  <2>5. time_out' = time_out /\ pc' = "caught"
    BY <1>5 DEF CheckTime, IsTimeOut
  <2>6. exit' \/ clock' < time_out
    <3>1. CASE clock' >= time_out
      BY <1>5, <3>1 DEF CheckTime, IsTimeOut
    <3>2. CASE ~(clock' >= time_out)
      BY <1>0, <2>4, <3>2
    <3> QED BY <3>1, <3>2
  <2> QED BY <2>3, <2>4, <2>5, <2>6
<1>6. CASE Caught
  BY <1>0, <1>6 DEF Caught, times
<1>7. CASE PrintTimer
  <2>1. PICK d \in 0..MaxDelay : Pass(d)
    BY <1>7 DEF PrintTimer
  <2> SUFFICES ASSUME time_out + Round <= Day PROVE TimeInv' /\ StartInv'
    BY <1>0, <1>7 DEF PrintTimer, IsTime, Fail
  <2>2. ~next_day /\ clock < time_out + 1 + 2 * MaxDelay /\ (exit \/ clock < time_out)
    BY <1>7 DEF PrintTimer
  <2>3. clock' = clock + d /\ ~next_day'
    BY <1>0, <2>1, <2>2, SameDay
  <2>4. exit' = exit /\ time_out' = time_out /\ pc' \in {"sleep", "failed"}
    BY <1>7 DEF PrintTimer, IsTime, Fail
  <2> QED BY <1>0, <2>1, <2>2, <2>3, <2>4
<1>8. CASE Sleep
  <2> SUFFICES ASSUME time_out + Round <= Day, ~exit PROVE TimeInv' /\ StartInv'
    BY <1>0, <1>8 DEF Sleep
  <2>1. ~next_day /\ clock < time_out + MaxDelay
    BY <1>8 DEF Sleep
  <2>2. clock' = clock + 1 /\ ~next_day'
    BY <1>0, <1>8, <2>1, SameDay DEF Sleep
  <2> QED BY <1>0, <1>8, <2>1, <2>2 DEF Sleep
<1>9. CASE UNCHANGED vars
  BY <1>0, <1>9 DEF vars, times
<1> QED BY <1>1, <1>2, <1>3, <1>4, <1>5, <1>6, <1>7, <1>8, <1>9 DEF Next

\* A game that does not come near midnight is over within a print, a sleep and
\* two readings of the clock after its time.
THEOREM EndsInTimeCorrect == Spec => []EndsInTime
<1>1. Init => TimeInv /\ StartInv
  BY DEF Init, TimeInv, StartInv
<1>2. TypeInv /\ TimeInv => EndsInTime
  <2> SUFFICES ASSUME TypeInv, TimeInv PROVE EndsInTime
    OBVIOUS
  <2>1. clock \in 0..Day-1 /\ time_out \in 0..Day-1
    BY DEF TypeInv, TypeOK
  <2> SUFFICES ASSUME ~Ended, pc # "create", time_out + Round <= Day
               PROVE  ~next_day /\ clock < time_out + Round
    BY DEF EndsInTime
  <2>2. ~next_day /\ clock < time_out + 1 + 3 * MaxDelay
    <3>1. CASE pc \in {"read", "tunnel", "time"}
      BY <2>1, <3>1 DEF TimeInv
    <3>2. CASE pc \in {"caught", "print"}
      BY <2>1, <3>2 DEF TimeInv
    <3>3. CASE pc = "sleep"
      BY <3>3 DEF TimeInv
    <3> QED BY <3>1, <3>2, <3>3 DEF TypeInv, TypeOK, Ended
  <2> QED BY <2>1, <2>2 DEF Round
<1> QED BY <1>1, <1>2, TypeInit, TypeNext, TimeNext, PTL DEF Spec

-----------------------------------------------------------------------------
(* The postcondition of print_timer.                                       *)

\* After CheckTime a clock past the time-out means the last round.
LastRoundInv ==
    /\ pc \in {"caught", "print"} /\ clock >= time_out => exit /\ status = "GAME OVER"
    /\ fault = "seconds" => pc = "failed"
    /\ TimerFailsLast

\* The seconds are negative only when a whole one is over.
LEMMA NoSecondsLeft ==
    ASSUME time_out \in 0..Day-1, NEW t \in 0..Day-1, ~IsTime(SecondsLeft(t))
    PROVE  time_out + 2 <= t
BY DEF SecondsLeft, IsTime

LEMMA ShortDelay ==
    ASSUME NEW c \in 0..Day-1, NEW t \in 0..Day-1, NEW d \in 0..MaxDelay,
           time_out \in 0..Day-1, time_out + 2 <= t, t <= c + d
    PROVE  MaxDelay <= 2 => c >= time_out
OBVIOUS

LEMMA LastRoundNext == TypeInv /\ LastRoundInv /\ [Next]_vars => LastRoundInv'
<1> SUFFICES ASSUME TypeInv, LastRoundInv, [Next]_vars PROVE LastRoundInv'
  OBVIOUS
<1>0. clock \in 0..Day-1 /\ time_out \in 0..Day-1
  BY DEF TypeInv, TypeOK
<1> USE DEF LastRoundInv, TimerFailsLast, cells, times
<1>1. CASE SetMaxTime
  BY <1>1 DEF SetMaxTime, Duration, Fail
<1>2. CASE MovementKey
  BY <1>2 DEF MovementKey, Fail
<1>3. CASE OtherKey
  BY <1>3 DEF OtherKey
<1>4. CASE CheckTunnel
  BY <1>4 DEF CheckTunnel, IsTunnel
<1>5. CASE CheckTime
  BY <1>5 DEF CheckTime, IsTimeOut
<1>6. CASE Caught
  BY <1>6 DEF Caught
<1>7. CASE PrintTimer
  <2>1. PICK d \in 0..MaxDelay : Pass(d)
    BY <1>7 DEF PrintTimer
  <2>2. IF IsTime(SecondsLeft(clock')) THEN pc' = "sleep" /\ UNCHANGED fault
                                       ELSE Fail("seconds")
    BY <1>7 DEF PrintTimer
  <2>3. exit' = exit /\ status' = status /\ time_out' = time_out /\ pc = "print"
    BY <1>7 DEF PrintTimer
  <2>4. CASE IsTime(SecondsLeft(clock'))
    BY <2>2, <2>3, <2>4
  <2>5. CASE ~IsTime(SecondsLeft(clock'))
    <3>1. fault' = "seconds" /\ pc' = "failed"
      BY <2>2, <2>5 DEF Fail
    <3>2. MaxDelay <= 2 => clock >= time_out
      <4>1. d \in 0..Day /\ clock' = After(clock, d)
        BY <2>1, DelaysAreShort DEF Pass
      <4>2. clock' \in 0..Day-1 /\ clock' <= clock + d
        BY <1>0, <4>1, AfterIsATime
      <4>3. time_out + 2 <= clock'
        BY <1>0, <2>3, <2>5, <4>2, NoSecondsLeft DEF SecondsLeft
      <4> QED BY <1>0, <4>2, <4>3, ShortDelay
    <3> QED BY <2>3, <3>1, <3>2
  <2> QED BY <2>4, <2>5
<1>8. CASE Sleep
  BY <1>8 DEF Sleep
<1>9. CASE UNCHANGED vars
  BY <1>9 DEF vars
<1> QED BY <1>1, <1>2, <1>3, <1>4, <1>5, <1>6, <1>7, <1>8, <1>9 DEF Next

\* With no more than a second between two readings of the clock print_timer
\* fails only in the last round of a game that is lost.
THEOREM TimerFailsLastCorrect == Spec => []TimerFailsLast
<1>1. Init => LastRoundInv
  BY DEF Init, LastRoundInv, TimerFailsLast
<1>2. LastRoundInv => TimerFailsLast
  BY DEF LastRoundInv
<1> QED BY <1>1, <1>2, TypeInit, TypeNext, LastRoundNext, PTL DEF Spec

-----------------------------------------------------------------------------
(* Why GameEnds holds: how a game can end, and that it cannot go on.       *)

\* The loop is left because exit was set, unless an assertion failed: the cat's,
\* the timer's where the game would run past midnight, or the timer's in a
\* program that needs more than a second from one reading of the clock to the
\* next (APPLICATION.make, TIMER).
EndsForAReason ==
    Ended => \/ exit
             \/ fault = "cat"
             \/ fault = "duration" /\ (next_day \/ clock + GameTime >= Day)
             \/ fault = "seconds" /\ MaxDelay > 2

\* The parts of the loop that are left in this round.
PartsLeft ==
    CASE pc = "read" -> 6 [] pc = "tunnel" -> 5 [] pc = "time" -> 4
      [] pc = "caught" -> 3 [] pc = "print" -> 2 [] OTHER -> 1

\* No game can run on for more than this many parts of the loop.
Remaining == 6 * ((time_out + Round) - clock) + PartsLeft

\* Every step of a running game that does not come near midnight ends it or
\* brings its end nearer, whatever the keys, the draws and the delays: the loop
\* cannot go round for ever.
NearsItsEnd ==
    [][~Ended /\ pc # "create" /\ time_out + Round <= Day =>
         Remaining \in Nat /\ (Ended' \/ Remaining' \in 0..Remaining - 1)]_vars

ReasonInv ==
    /\ EndsForAReason
    /\ pc # "failed" => fault = "none"

LEMMA ReasonNext ==
    ASSUME TypeInv, LastRoundInv, LastRoundInv', ReasonInv, [Next]_vars
    PROVE  ReasonInv'
<1>0. clock \in 0..Day-1 /\ time_out \in 0..Day-1 /\ MaxDelay \in Nat
  BY DEF TypeInv, TypeOK
<1> USE DEF ReasonInv, EndsForAReason, Ended
<1>1. CASE SetMaxTime
  <2>1. PICK d \in 0..MaxDelay : Pass(d) /\ time_out' = After(clock, d + GameTime)
    BY <1>1 DEF SetMaxTime
  <2>2. CASE pc' = "read"
    BY <1>1, <2>2 DEF SetMaxTime, Fail
  <2>3. CASE Fail("duration") /\ ~(time_out' > clock)
    <3>1. clock + d + GameTime >= Day
      BY <1>0, <2>1, <2>3 DEF After
    <3>2. CASE clock + d >= Day
      BY <2>1, <2>3, <3>2, Zenon DEF Pass, Fail
    <3>3. CASE ~(clock + d >= Day)
      <4>1. clock' = clock + d
        BY <1>0, <2>1, <3>3 DEF Pass, After
      <4>2. clock' + GameTime >= Day
        BY <1>0, <3>1, <4>1
      <4> QED
        BY <2>3, <4>2 DEF Fail
    <3> QED
      BY <3>2, <3>3
  <2> QED
    BY <1>1, <2>2, <2>3 DEF SetMaxTime, Duration
<1>2. CASE MovementKey
  BY <1>2 DEF MovementKey, Fail
<1>3. CASE PrintTimer
  <2>1. CASE pc' = "sleep" /\ UNCHANGED fault
    BY <1>3, <2>1 DEF PrintTimer
  <2>2. CASE Fail("seconds")
    <3>1. MaxDelay <= 2 => exit'
      BY <2>2 DEF Fail, LastRoundInv, TimerFailsLast
    <3> QED
      BY <1>0, <2>2, <3>1 DEF Fail
  <2> QED
    BY <1>3, <2>1, <2>2 DEF PrintTimer
<1>4. CASE OtherKey \/ CheckTunnel \/ CheckTime \/ Caught
  BY <1>4 DEF OtherKey, CheckTunnel, CheckTime, Caught
<1>5. CASE Sleep
  BY <1>5 DEF Sleep
<1>6. CASE UNCHANGED vars
  BY <1>6 DEF vars, times
<1> QED
  BY <1>1, <1>2, <1>3, <1>4, <1>5, <1>6 DEF Next

\* A game ends by the loop's own condition or by one of three assertions, each
\* in its one circumstance, for every field, game time and delay.
THEOREM EndsForAReasonCorrect == Spec => []EndsForAReason
<1>1. Init => LastRoundInv /\ ReasonInv
  BY DEF Init, LastRoundInv, TimerFailsLast, ReasonInv, EndsForAReason, Ended
<1>2. TypeInv /\ LastRoundInv /\ ReasonInv /\ [Next]_vars
      => LastRoundInv' /\ ReasonInv'
  BY LastRoundNext, ReasonNext
<1>3. ReasonInv => EndsForAReason
  BY DEF ReasonInv
<1> QED
  BY <1>1, <1>2, <1>3, TypeInit, TypeNext, PTL DEF Spec

(* With time that has passed and a part of the round less there is less    *)
(* left.                                                                   *)
LEMMA LessRemains ==
    ASSUME NEW e \in Nat, NEW t \in Nat, NEW u \in Nat, t <= u, u < e,
           NEW k \in 1..6, NEW l \in 1..6, l = k - 1 \/ u >= t + 1
    PROVE  /\ 6 * (e - t) + k \in Nat
           /\ 6 * (e - u) + l \in 0..(6 * (e - t) + k) - 1
<1>1. CASE l = k - 1
  BY <1>1
<1>2. CASE u >= t + 1
  <2>1. 6 * (e - u) <= 6 * (e - t) - 6
    BY <1>2
  <2>2. e - u \in Nat /\ e - t \in Nat
    OBVIOUS
  <2> QED
    BY <2>1, <2>2
<1> QED
  BY <1>1, <1>2

\* A game that does not come near midnight makes at most Remaining more steps,
\* also when no key is ever pressed and the cat never comes.
THEOREM NearsItsEndCorrect == Spec => NearsItsEnd
<1> DEFINE Nearing ==
      ~Ended /\ pc # "create" /\ time_out + Round <= Day =>
        Remaining \in Nat /\ (Ended' \/ Remaining' \in 0..Remaining - 1)
<1>1. ASSUME TypeInv, TypeInv', EndsInTime, EndsInTime', TimeInv, Next
      PROVE  Nearing
  <2> SUFFICES ASSUME ~Ended, pc # "create", time_out + Round <= Day
               PROVE  Remaining \in Nat /\ (Ended' \/ Remaining' \in 0..Remaining - 1)
    OBVIOUS
  <2>0. /\ clock \in 0..Day-1 /\ time_out \in 0..Day-1 /\ clock' \in 0..Day-1
        /\ Round \in Nat \ {0} /\ MaxDelay \in Nat
        /\ ~next_day /\ clock < time_out + Round
    <3>1. clock \in 0..Day-1 /\ time_out \in 0..Day-1
      BY <1>1 DEF TypeInv, TypeOK
    <3>2. clock' \in 0..Day-1
      BY <1>1 DEF TypeInv, TypeOK
    <3>3. Round \in Nat \ {0} /\ MaxDelay \in Nat
      BY DEF Round
    <3>4. ~next_day /\ clock < time_out + Round
      BY <1>1, Zenon DEF EndsInTime
    <3> QED
      BY <3>1, <3>2, <3>3, <3>4
  <2>1. time_out' = time_out
    BY <1>1 DEF Next, SetMaxTime, MovementKey, OtherKey, CheckTunnel, CheckTime, Caught,
       PrintTimer, Sleep, times
  <2>2. PartsLeft \in 1..6 /\ PartsLeft' \in 1..6
    BY DEF PartsLeft
  <2>3. Remaining \in Nat
    BY <2>0, <2>2 DEF Remaining
  <2>4. ASSUME ~Ended'
        PROVE  /\ clock' >= clock /\ clock' < time_out + Round
               /\ PartsLeft' = PartsLeft - 1 \/ clock' >= clock + 1
    <3>1. pc' # "create"
      BY <1>1 DEF Next, SetMaxTime, MovementKey, OtherKey, CheckTunnel, CheckTime, Caught,
         PrintTimer, Sleep, Fail
    <3>2. ~next_day' /\ clock' < time_out + Round
      BY <1>1, <2>1, <2>4, <3>1 DEF EndsInTime
    <3>3. ASSUME NEW d \in Nat, Pass(d) PROVE clock' = clock + d
      <4>1. ~(clock + d >= Day)
        BY <3>2, <3>3, Zenon DEF Pass
      <4> QED
        BY <2>0, <3>3, <4>1 DEF Pass, After
    <3>4. CASE MovementKey \/ OtherKey
      BY <2>0, <2>4, <3>2, <3>4 DEF MovementKey, OtherKey, Fail, Ended, PartsLeft, times
    <3>5. CASE CheckTunnel \/ Caught
      BY <2>0, <3>2, <3>5 DEF CheckTunnel, Caught, PartsLeft, times
    <3>6. CASE CheckTime
      <4>1. PICK d \in 0..MaxDelay : Pass(d)
        BY <3>6 DEF CheckTime
      <4>2. clock' >= clock
        BY <2>0, <3>3, <4>1
      <4>3. pc = "time" /\ pc' = "caught"
        BY <3>6 DEF CheckTime
      <4> QED
        BY <3>2, <4>2, <4>3 DEF PartsLeft
    <3>7. CASE PrintTimer
      <4>1. PICK d \in 0..MaxDelay : Pass(d)
        BY <3>7 DEF PrintTimer
      <4>2. clock' >= clock
        BY <2>0, <3>3, <4>1
      <4>3. pc' = "sleep"
        BY <2>4, <3>7 DEF PrintTimer, Fail, Ended
      <4> QED
        BY <3>2, <3>7, <4>2, <4>3 DEF PrintTimer, PartsLeft
    <3>8. CASE Sleep
      BY <2>0, <3>2, <3>3, <3>8 DEF Sleep
    <3>9. CASE SetMaxTime
      BY <3>9 DEF SetMaxTime
    <3> QED
      BY <1>1, <3>4, <3>5, <3>6, <3>7, <3>8, <3>9 DEF Next
  <2>5. ASSUME ~Ended' PROVE Remaining' \in 0..Remaining - 1
    <3>1. time_out + Round \in Nat /\ clock \in Nat /\ clock' \in Nat
      BY <2>0
    <3>2. Round' = Round
      BY DEF Round
    <3>3. PICK e \in Nat : e = time_out + Round
      BY <3>1
    <3>4. /\ Remaining = 6 * (e - clock) + PartsLeft
          /\ Remaining' = 6 * (e - clock') + PartsLeft'
      <4>1. Remaining' = 6 * ((time_out' + Round) - clock') + PartsLeft'
        BY <3>2 DEF Remaining
      <4> QED
        BY <2>1, <3>3, <4>1 DEF Remaining
    <3>5. ASSUME NEW k \in 1..6, NEW l \in 1..6, l = k - 1 \/ clock' >= clock + 1
          PROVE  6 * (e - clock') + l \in 0..(6 * (e - clock) + k) - 1
      <4>1. clock <= clock' /\ clock' < e
        BY <2>4, <2>5, <3>3
      <4> QED
        BY <3>1, <3>5, <4>1, LessRemains
    <3> QED
      BY <2>2, <2>4, <2>5, <3>4, <3>5
  <2> QED
    BY <2>3, <2>5
<1>2. TypeInv /\ TypeInv' /\ EndsInTime /\ EndsInTime' /\ TimeInv /\ [Next]_vars
      => [Nearing]_vars
  BY <1>1
<1>3. Init => TimeInv /\ StartInv
  BY DEF Init, TimeInv, StartInv
<1> HIDE DEF Nearing
<1> QED
  BY <1>2, <1>3, TypeInit, TypeNext, TimeNext, EndsInTimeCorrect, PTL
  DEF Spec, NearsItsEnd, Nearing
=============================================================================
