------------------------------ MODULE MCRobots ------------------------------
(***************************************************************************)
(* Small instances of Robots for TLC.                                      *)
(***************************************************************************)
EXTENDS Robots

CONSTANTS w1, w2, w3
=============================================================================
