---------------------------- MODULE MCLeaderDuties ----------------------------
(***************************************************************************)
(* Two mains, and one execution that pauses again and again.               *)
(***************************************************************************)
EXTENDS LeaderDuties

CONSTANTS m1, m2, e1

MCTwoMains == {m1, m2}
MCOneExecution == {e1}
===============================================================================
