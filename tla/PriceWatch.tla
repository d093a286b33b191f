------------------------------ MODULE PriceWatch ------------------------------
(***************************************************************************)
(* What the tracker promises its reader, without workers, tables, runs or  *)
(* restarts: changes come to be known, each under one id and with one      *)
(* wording, and only a known change is ever reported.  It is the promise   *)
(* of docs/DECISIONS.md step 11: delivery at least once, "at least" being  *)
(* invisible here because told is a set.                                   *)
(***************************************************************************)
EXTENDS Naturals

CONSTANTS Products, Quotes

VARIABLES known,   \* the changes recorded so far
          told     \* the changes the chat has been told of

vars == <<known, told>>

Change == [id : Nat, product : Products, old : Quotes, new : Quotes]

Init == known = {} /\ told = {}

(* A change is recorded.  Its id is new, the wording is fixed with it, and *)
(* it continues from the last change of the product, if there was one.     *)
Record(c) ==
  /\ c \in Change
  /\ c.old # c.new
  /\ \A d \in known : d.id < c.id
  /\ \A d \in known : (/\ d.product = c.product
                       /\ \A e \in known : e.product = c.product => e.id <= d.id)
                        => d.new = c.old
  /\ known' = known \cup {c}
  /\ UNCHANGED told

(* The chat is told of a recorded change.                                  *)
Tell(c) ==
  /\ told' = told \cup {c}
  /\ UNCHANGED known

Next == \/ \E c \in known' \ known : Record(c)
        \/ \E c \in known : Tell(c)

Spec == Init /\ [][Next]_vars
===============================================================================
