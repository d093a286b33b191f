------------------------------ MODULE MCFetcher ------------------------------
(***************************************************************************)
(* Small instances of Fetcher for TLC.                                     *)
(***************************************************************************)
EXTENDS Fetcher

CONSTANTS w1, w2, w3
=============================================================================
