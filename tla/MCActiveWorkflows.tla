--------------------------- MODULE MCActiveWorkflows ---------------------------
(***************************************************************************)
(* The constants are given in the configurations.                          *)
(***************************************************************************)
EXTENDS ActiveWorkflows
===============================================================================
