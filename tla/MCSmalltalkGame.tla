--------------------------- MODULE MCSmalltalkGame ---------------------------
(* One row of the window with the steps and radii of the code: the mouse   *)
(* can get into the tunnel in front of the cat, or beside it, or run.      *)
EXTENDS SmalltalkGame

CONSTANTS A, D, Last

MCPlace == -10..Last+15
MCFollowed == 0..Last
MCDist(p, q) == IF p < q THEN q - p ELSE p - q
MCWalk(p, keys) == p + (IF D \in keys THEN 6 ELSE 0) - (IF A \in keys THEN 6 ELSE 0)
MCAhead(p, q) == IF p < q THEN p + Speed ELSE p - Speed
=============================================================================
