------------------------------ MODULE MCCatHunt ------------------------------
(* One row of the field: mice that are faster than cats, cats that may go   *)
(* beyond their target, and a border that takes mice back.                  *)
EXTENDS CatHunt

CONSTANTS Length, NaN

MCPlace == -2..Length+2
MCField == -1..Length+1
MCClamp(p) == IF p < 0 THEN 0 ELSE IF p > Length THEN Length ELSE p
MCDist(p, q) == IF p < q THEN q - p ELSE p - q
MCAhead(p, q) == IF p = q THEN NaN ELSE IF p < q THEN p + Step ELSE p - Step
MCDoors == {0, 1, Length}
MCEntrances == {0, Length}
=============================================================================
