---------------------------- MODULE ChaseGeometry ----------------------------
(***************************************************************************)
(* What a chase needs to know of positions: a distance, and what a step of *)
(* a given length straight at a target does to it.  The points of the      *)
(* plane satisfy it, up to the rounding of doubles, whatever the angle.    *)
(***************************************************************************)
EXTENDS Integers

\* Dist is a metric.
IsDistance(Place, Dist(_, _)) ==
    \A p, q, r \in Place :
      /\ Dist(p, q) \in Nat
      /\ Dist(p, q) = 0 <=> p = q
      /\ Dist(p, q) = Dist(q, p)
      /\ Dist(p, r) <= Dist(p, q) + Dist(q, r)

\* Ahead(p, q) is the step from p to a target q; it may go beyond the target.
IsStep(Place, Target, Dist(_, _), Ahead(_, _), length) ==
    \A p \in Place, q \in Target :
      p # q =>
        /\ Ahead(p, q) \in Place
        /\ Dist(p, Ahead(p, q)) = length
        /\ Dist(Ahead(p, q), q) = IF Dist(p, q) < length THEN length - Dist(p, q)
                                                         ELSE Dist(p, q) - length
=============================================================================
