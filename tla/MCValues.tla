------------------------------ MODULE MCValues ------------------------------
(***************************************************************************)
(* A small instance of Values for TLC.                                     *)
(***************************************************************************)
EXTENDS Values

SomeExponents == -6..3
=============================================================================
