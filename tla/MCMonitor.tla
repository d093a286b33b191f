------------------------------ MODULE MCMonitor ------------------------------
(***************************************************************************)
(* Small instances of Monitor for TLC.                                     *)
(***************************************************************************)
EXTENDS MonitorProps

CONSTANTS a, b, c   \* quotes

TwoProducts == {1, 2}
OneProduct == {1}
NoProducts == {}
ThreeProducts == {1, 2, 3}
FirstProduct == {1}
SecondProduct == {2}

QuoteSymmetry == Permutations(Quotes)
=============================================================================
