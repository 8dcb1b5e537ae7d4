---------------------------- MODULE MCEiffelGame ----------------------------
(* A field on which the cat meets every kind of angle, and a day in which   *)
(* one game ends and another reaches midnight, just before its time is out  *)
(* or while its time-out is set.                                            *)
EXTENDS EiffelGame

MCDay == 11
MCStarts == {0, 7}
=============================================================================
