------------------------------ MODULE EiffelGame ------------------------------
(***************************************************************************)
(* The single-player game of Exercise_3: the loop of APPLICATION.make over *)
(* FIELD, CAT, MOUSE and TIMER, with the assertions that the project has   *)
(* monitored.  One action per part of the loop body; pc is the part that   *)
(* comes next.  The counter of catches is only printed and left out.       *)
(*                                                                         *)
(* Time is the time of day in half seconds: sleep passes one of them, and  *)
(* up to MaxDelay pass before each reading of the clock.                   *)
(***************************************************************************)
EXTENDS Integers

CONSTANTS
    Width, Height,   \* FIELD.width and FIELD.height
    GameTime,        \* the argument of set_max_time
    Day,             \* how long a day is
    Starts,          \* times of day at which the program is started
    MaxDelay         \* bound: time that passes before the clock is read

ASSUME FieldAssumption ==
    /\ Width \in Nat /\ Width >= 4
    /\ Height \in Nat /\ Height >= 4

ASSUME TimeAssumption ==
    /\ GameTime \in Nat \ {0}
    /\ MaxDelay \in Nat
    /\ Day \in Nat /\ GameTime + 3 * MaxDelay + 1 < Day
    /\ Starts \subseteq 0..Day-1

VARIABLES
    pc,         \* the part of the program that comes next
    player,     \* position of the mouse
    cat,        \* position of the cat
    tunnels,    \* positions of the entrances
    exit,       \* the loop is left after this round
    status,     \* the message to be printed at the end
    clock,      \* the time of day
    time_out,   \* TIMER.time_out
    fault,      \* the assertion that ended the program
    next_day,   \* history: midnight has passed since the start
    fresh       \* history: the mouse was put somewhere by chance, and no
                \* key has been read since

cells == <<player, cat, tunnels>>
times == <<clock, time_out, next_day>>
vars == <<pc, cells, exit, status, times, fault, fresh>>

Field == [x : 0..Width-1, y : 0..Height-1]
Off == [x |-> -1, y |-> -1]    \* any position out of the field

\* MOUSE.make, CAT.make, TUNNEL.make: get(n) is r \\ n, and is given n - 1.
Draw(w, h) == [x : 0..w-2, y : 0..h-2]

Init ==
    /\ pc = "create"
    /\ cat \in Draw(Width, Height)
    /\ player \in Draw(Width, Height)
    /\ \E a \in Draw(Width, Height \div 2), b \in Draw(Width \div 2, Height) :
         tunnels = {a, b}
    /\ exit = FALSE
    /\ status = "none"
    /\ clock \in Starts
    /\ time_out = clock
    /\ fault = "none"
    /\ next_day = FALSE
    /\ fresh = TRUE

-----------------------------------------------------------------------------
(* Time.                                                                   *)

After(t, d) == IF t + d < Day THEN t + d ELSE t + d - Day

Pass(d) ==
    /\ clock' = After(clock, d)
    /\ next_day' = (next_day \/ clock + d >= Day)

Fail(assertion) == fault' = assertion /\ pc' = "failed"

\* Mutant: what is asserted is not monitored.
DurationUnasserted(t) == TRUE

\* The postcondition of set_max_time.
Duration(t) == t > clock

\* TIMER.make and set_max_time: t is read before time_out, a minute after
\* midnight is early in the day, and "duration" is asserted.
SetMaxTime ==
    /\ pc = "create"
    /\ \E d \in 0..MaxDelay :
         /\ Pass(d)
         /\ time_out' = After(clock, d + GameTime)
    /\ IF Duration(time_out') THEN pc' = "read" /\ UNCHANGED fault
                                ELSE Fail("duration")
    /\ UNCHANGED <<cells, exit, status, fresh>>

-----------------------------------------------------------------------------
(* The mouse and the cat.                                                  *)

\* Mutant: the boundary is off by one.
MoveDownFar(p) == IF p.y < Height THEN [p EXCEPT !.y = @ + 1] ELSE p

\* MOUSE.move_left and the others check the boundary.
MoveLeft(p)  == IF p.x > 0          THEN [p EXCEPT !.x = @ - 1] ELSE p
MoveRight(p) == IF p.x < Width - 1  THEN [p EXCEPT !.x = @ + 1] ELSE p
MoveUp(p)    == IF p.y > 0          THEN [p EXCEPT !.y = @ - 1] ELSE p
MoveDown(p)  == IF p.y < Height - 1 THEN [p EXCEPT !.y = @ + 1] ELSE p

\* Where the keys a, d, w and s take the mouse.
KeyMoves(p) == {MoveLeft(p), MoveRight(p), MoveUp(p), MoveDown(p)}

\* Mutant: the way is not divided by three.
StepAlongFast(d, e) == 3 * (IF d = 0 \/ 40 * d * d < 9 * e * e THEN 0
                            ELSE IF d > 0 THEN 1 ELSE -1)

\* Mutant: only the longer of the two distances is made shorter.
StepAlongAxis(d, e) ==
    IF d = 0 \/ d * d <= e * e THEN 0 ELSE IF d > 0 THEN 1 ELSE -1

\* The cat's way of 3.5/3 has a part along d (e is the distance across) that
\* is rounded to 1 when 7|d|/6 >= sqrt(d*d + e*e)/2, and never to 2.
StepAlong(d, e) ==
    IF d = 0 \/ 40 * d * d < 9 * e * e THEN 0
    ELSE IF d > 0 THEN 1 ELSE -1

\* CAT.move: when the cat is on the mouse the direction is 0/0, and what is
\* rounded from it is 0 or is no coordinate of the field.
CatMoves(c, p) ==
    IF c = p THEN {[x |-> 0, y |-> 0], Off}
    ELSE {[x |-> c.x + StepAlong(p.x - c.x, p.y - c.y),
           y |-> c.y + StepAlong(p.y - c.y, p.x - c.x)]}

\* A movement key: the mouse moves, or stays at the border, and the cat makes
\* its move; its invariant is asserted at the end of the call.
MovementKey ==
    /\ pc = "read"
    /\ player' \in KeyMoves(player)
    /\ cat' \in CatMoves(cat, player')
    /\ IF cat' \in Field THEN pc' = "tunnel" /\ UNCHANGED fault
                         ELSE Fail("cat")
    /\ fresh' = FALSE
    /\ UNCHANGED <<tunnels, exit, status, times>>

\* The key q, another key, or none: TERMINAL.get_char then returns a variable
\* that it has not set, which can be any of the keys too.
OtherKey ==
    /\ pc = "read"
    /\ exit' \in BOOLEAN
    /\ pc' = "tunnel"
    /\ fresh' = FALSE
    /\ UNCHANGED <<cells, status, times, fault>>

-----------------------------------------------------------------------------
(* The rest of the round.                                                  *)

\* Mutant: the mouse is expected at every entrance.
IsEveryTunnel == \A t \in tunnels : player = t

\* FIELD.is_tunnel.
IsTunnel == \E t \in tunnels : player = t

\* The victory.
CheckTunnel ==
    /\ pc = "tunnel"
    /\ pc' = "time"
    /\ IF IsTunnel THEN status' = "VICTORY" /\ exit' = TRUE
                   ELSE UNCHANGED <<status, exit>>
    /\ UNCHANGED <<cells, times, fault, fresh>>

\* Mutant: the time is out at one moment only.
IsTimeOutNow(t) == t = time_out

\* TIMER.is_time_out.
IsTimeOut(t) == t >= time_out

\* The time is looked at, and the end of the game.
CheckTime ==
    /\ pc = "time"
    /\ pc' = "caught"
    /\ \E d \in 0..MaxDelay : Pass(d)
    /\ IF IsTimeOut(clock') THEN status' = "GAME OVER" /\ exit' = TRUE
                            ELSE UNCHANGED <<status, exit>>
    /\ UNCHANGED <<cells, time_out, fault, fresh>>

\* FIELD.caught: MOUSE.make puts the mouse on another cell, or the same.
Caught ==
    /\ pc = "caught"
    /\ pc' = "print"
    /\ IF player = cat THEN player' \in Draw(Width, Height) /\ fresh' = TRUE
                       ELSE UNCHANGED <<player, fresh>>
    /\ UNCHANGED <<cat, tunnels, exit, status, times, fault>>

\* TIMER.print_timer: half a second is cut off, of what is left and of what is
\* over.
SecondsLeft(t) ==
    IF time_out >= t THEN (time_out - t) \div 2 ELSE -((t - time_out) \div 2)

\* Mutant: no time that is left is no time either.
IsSomeTime(s) == s > 0

\* The precondition of make_by_seconds and the postcondition of print_timer.
IsTime(s) == s >= 0

PrintTimer ==
    /\ pc = "print"
    /\ \E d \in 0..MaxDelay : Pass(d)
    /\ IF IsTime(SecondsLeft(clock')) THEN pc' = "sleep" /\ UNCHANGED fault
                                       ELSE Fail("seconds")
    /\ UNCHANGED <<cells, exit, status, time_out, fresh>>

\* sleep, the test of the loop, and after it the print of status.
Sleep ==
    /\ pc = "sleep"
    /\ Pass(1)
    /\ pc' = IF exit THEN "over" ELSE "read"
    /\ UNCHANGED <<cells, exit, status, time_out, fault, fresh>>

Next ==
    \/ SetMaxTime
    \/ MovementKey \/ OtherKey
    \/ CheckTunnel \/ CheckTime \/ Caught \/ PrintTimer \/ Sleep

\* The program is one thread that never waits for anybody.
Spec == Init /\ [][Next]_vars /\ WF_vars(Next)

-----------------------------------------------------------------------------

Ended == pc \in {"over", "failed"}

TypeOK ==
    /\ pc \in {"create", "read", "tunnel", "time", "caught", "print", "sleep",
               "over", "failed"}
    /\ player \in Field
    /\ cat \in Field \cup {Off}
    /\ tunnels \in SUBSET Field
    /\ exit \in BOOLEAN
    /\ status \in {"none", "VICTORY", "GAME OVER"}
    /\ clock \in 0..Day-1
    /\ time_out \in 0..Day-1
    /\ fault \in {"none", "duration", "cat", "seconds"}
    /\ next_day \in BOOLEAN
    /\ fresh \in BOOLEAN

\* How many steps of a king the cat is away from p.
Apart(c, p) ==
    LET Abs(n) == IF n < 0 THEN -n ELSE n
        dx == Abs(p.x - c.x)
        dy == Abs(p.y - c.y)
    IN  IF dx < dy THEN dy ELSE dx

\* CAT.move: unless the mouse has walked onto it, the cat comes exactly one
\* step closer, whatever the angle and the rounding; so a mouse that ends its
\* move beside the cat is caught in this round.
CatCloses ==
    [][MovementKey /\ cat # player'
         => Apart(cat', player') = Apart(cat, player') - 1]_vars

\* The invariant of CAT (cat.e:82) fails in one case only, when the cat is
\* where the mouse is before its move.
OnlyZeroLeaves == [][fault' = "cat" /\ fault # "cat" => cat = player']_vars

\* The three checks of a round leave nothing unnoticed: when the next key is
\* read the mouse is on a tunnel or on the cat only if it was put there by
\* chance, after the tunnels had been looked at.
NothingUnnoticed == pc = "read" /\ player \in tunnels \cup {cat} => fresh

\* How long after the time-out the program may still run: a print, a sleep
\* and two readings of the clock.
Round == 1 + 3 * MaxDelay

\* A game that does not come near midnight is over soon after its time: the
\* times of day that TIMER compares are then those of one day.
EndsInTime ==
    ~Ended /\ pc # "create" /\ time_out + Round <= Day =>
      ~next_day /\ clock < time_out + Round

\* When no more than a second passes between two readings of the clock,
\* print_timer fails only in the last round, and what is lost is the message
\* that the time is over.
TimerFailsLast == MaxDelay <= 2 /\ fault = "seconds" => exit /\ status = "GAME OVER"

\* Every game that is started far enough from midnight ends, also when no key
\* is ever pressed, and (with delays of no more than a second) because the
\* loop is left: only the cat's assertion can come before that, the timer's cannot.
GameEnds ==
    pc = "read" /\ time_out + Round <= Day ~> Ended /\ (exit \/ fault = "cat")
=============================================================================
