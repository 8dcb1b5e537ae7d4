---------------------------- MODULE MCGameClient ----------------------------
(* One key: all that two threads do to the set of directions is about one   *)
(* key at a time, and the theorems of GameClient_proofs are about any set.  *)
EXTENDS GameClient

CONSTANT north

MCDirection == {north}
=============================================================================
