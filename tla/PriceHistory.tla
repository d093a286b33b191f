----------------------------- MODULE PriceHistory -----------------------------
(***************************************************************************)
(* The table price_history and the queries of internal/storage/products.go *)
(* that the monitor issues.                                                *)
(*                                                                         *)
(* A table is a function from products to the sequence of that product's   *)
(* rows in the order of checked_at: every query orders the rows of one     *)
(* product by that column and uses it for nothing else, so the position in *)
(* the sequence is all that is kept of it.  Equal stamps are left out: the *)
(* column has microseconds, and two rows of one product are written at     *)
(* least one run apart.                                                    *)
(***************************************************************************)
EXTENDS Domain, Sequences, SequencesExt

CONSTANT Products   \* ids of the rows of table products with is_active = TRUE

ASSUME ProductsAreIds == Products \subseteq Nat

Row == [id : Nat, quote : Quotes, notified : BOOLEAN]

(* What one Telegram message says: "product was old, is now new", and the  *)
(* price_history row it reports.  PendingNotification of domain.go.        *)
Notice == [id : Nat, product : Products, old : Quotes, new : Quotes]

EmptyTable == [p \in Products |-> <<>>]

LastQuoteOldestFirst(h, p) == IF h[p] = <<>> THEN Nil ELSE h[p][1].quote

(* SELECT ... ORDER BY checked_at DESC LIMIT 1; no row is a nil quote.     *)
LastQuote(h, p) == IF h[p] = <<>> THEN Nil ELSE h[p][Len(h[p])].quote

(* INSERT with checked_at = now() when the clock has not gone backwards.   *)
InsertRow(h, p, row) == [h EXCEPT ![p] = Append(@, row)]

(* INSERT when now() is earlier than stamps already in the table: the new  *)
(* row lands at an earlier place k of the checked_at order.                *)
InsertBackdated(h, p, k, row) == [h EXCEPT ![p] = InsertAt(@, k, row)]

(* The notice the window query builds for the k-th row of p: LAG(price)    *)
(* OVER (PARTITION BY product_id ORDER BY checked_at) is row k - 1.        *)
NoticeOf(h, p, k) ==
  [id |-> h[p][k].id, product |-> p,
   old |-> h[p][k-1].quote, new |-> h[p][k].quote]

PendingWithoutFilter(h) ==
  UNION {{NoticeOf(h, p, k) : k \in 2..Len(h[p])} : p \in Products}

PendingLagTwo(h) ==
  UNION {{NoticeOf(h, p, k) : k \in {j \in 3..Len(h[p]) : ~h[p][j].notified}}
           : p \in Products}

(* WHERE notified = FALSE AND prev_price IS NOT NULL: the first row of a   *)
(* product has no LAG and is never returned.                               *)
PendingNotifications(h) ==
  UNION {{NoticeOf(h, p, k) : k \in {j \in 2..Len(h[p]) : ~h[p][j].notified}}
           : p \in Products}

(* UPDATE price_history SET notified = TRUE WHERE id = $1                  *)
MarkNotified(h, id) ==
  [p \in Products |->
    [k \in 1..Len(h[p]) |->
      IF h[p][k].id = id THEN [h[p][k] EXCEPT !.notified = TRUE] ELSE h[p][k]]]
===============================================================================
