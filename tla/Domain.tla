-------------------------------- MODULE Domain --------------------------------
(***************************************************************************)
(* The domain rules of go-price-tracker (internal/domain/domain.go): what  *)
(* a freshly scraped quote means against the last recorded one.            *)
(*                                                                         *)
(* A Quote is an amount together with its currency, and the code compares  *)
(* the two fields at once, as one struct, so a quote is one opaque value   *)
(* here: two quotes that differ in either field are two values.            *)
(***************************************************************************)
EXTENDS Naturals

CONSTANTS Quotes,   \* the quotes a shop page can show
          Nil       \* a nil *Quote: nothing recorded for the product yet

ASSUME NilIsNoQuote == Nil \notin Quotes

Kinds == {"first_seen", "unchanged", "changed"}

ClassifyIgnoringNil(previous, current) ==
  IF previous = current THEN "unchanged" ELSE "changed"

(* Classify decides what to do with a quote just taken from a page.        *)
Classify(previous, current) ==
  IF previous = Nil THEN "first_seen"
  ELSE IF previous = current THEN "unchanged"
  ELSE "changed"

ShouldRecordAlways(kind) == kind \in Kinds

ShouldRecordFirst(kind) == kind = "first_seen"

(* The history is a journal of changes, not of polls.                      *)
ShouldRecord(kind) == kind # "unchanged"

ShouldNotifyAlways(kind) == ShouldRecord(kind)

(* A first sighting is recorded in silence: there is no "was" to report.   *)
ShouldNotify(kind) == kind = "changed"
===============================================================================
