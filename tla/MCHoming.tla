------------------------------ MODULE MCHoming ------------------------------
(***************************************************************************)
(* For TLC: two homing moves over a link that loses nothing, or one while  *)
(* any report of a controller may be lost.                                 *)
(***************************************************************************)
EXTENDS Homing

VARIABLE losing

MCInit == Init /\ losing \in BOOLEAN

MCNext ==
  /\ losing' = losing
  /\ \/ losing /\ Next /\ round' <= 1
     \/ ~losing /\ Works

MCSpec == MCInit /\ [][MCNext]_<<vars, losing>>

-----------------------------------------------------------------------------
\* What homing reports is what happened, and no move is ended by what an
\* earlier one has left, as long as no report is lost (mcu.py:175-183 and
\* 334-340).  A lost answer may be taken for an older message.
Faithful == ~losing => ResultTrue /\ NothingLeft
=============================================================================
