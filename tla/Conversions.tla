----------------------------- MODULE Conversions -----------------------------
(***************************************************************************)
(* The other conversions on which the state of the tracker depends: money  *)
(* and numeric (internal/storage/money.go), the pauses of the fetcher      *)
(* (fetch.go) and the cells of the export (internal/exporter).  What may   *)
(* fail returns the set of its result, which is empty after an error.      *)
(***************************************************************************)
EXTENDS Integers, FiniteSetsExt, Sequences

CONSTANTS
  Bits,       \* width of an int64 and of a time.Duration
  Second,     \* time.Second
  Mantissa    \* bits of the mantissa of a float64

ASSUME WidthIsPositive == {Bits, Second, Mantissa} \subseteq Nat \ {0}

(* 1 << n and pow10(n), as functions one can reason about.                 *)
TwoTo[n \in Nat] == IF n = 0 THEN 1 ELSE 2 * TwoTo[n - 1]

TenTo[n \in Nat] == IF n = 0 THEN 1 ELSE 10 * TenTo[n - 1]

MaxInt == TwoTo[Bits-1] - 1

IsInt(n) == -MaxInt - 1 <= n /\ n <= MaxInt

(* What arithmetic on a time.Duration leaves of n.                         *)
Wrap(n) == ((n + MaxInt + 1) % TwoTo[Bits]) - MaxInt - 1

-----------------------------------------------------------------------------
(* storage/money.go: a numeric is int * 10^exp, a price counts hundredths. *)

MoneyToNumeric(m) == [kind |-> "finite", int |-> m, exp |-> -2]

DivideRounding(v, d) == {v \div d}

(* QuoRem: a rest means fractions of a kopek.                              *)
Divide(v, d) == IF v % d = 0 THEN {v \div d} ELSE {}

NumericToMoney(n) ==
  LET shift == n.exp + 2
      exact == IF shift >= 0 THEN {n.int * TenTo[shift]} ELSE Divide(n.int, TenTo[-shift])
  IN IF n.kind # "finite" THEN {} ELSE {m \in exact : IsInt(m)}

-----------------------------------------------------------------------------
(* fetch.go                                                                *)

(* A Retry-After is absent, junk, a number of seconds or a date.           *)
ParseRetryAfter(header, now) ==
  CASE header.kind = "seconds" /\ IsInt(header.value) /\ header.value >= 0 ->
         {Wrap(header.value * Second)}
    [] header.kind = "date" -> {IF header.value < now THEN 0 ELSE header.value - now}
    [] OTHER -> {}

DoubledUnguarded(base, max, attempt) ==
  LET d == Wrap(base * TwoTo[attempt - 1]) IN IF d > max THEN max ELSE d

(* base << (attempt-1), with the guard against its overflow.               *)
Doubled(base, max, attempt) ==
  LET d == Wrap(base * TwoTo[attempt - 1]) IN IF d > max \/ d <= 0 THEN max ELSE d

(* Half for certain, the other half by lot.                                *)
Backoff(base, max, attempt) ==
  LET half == Doubled(base, max, attempt) \div 2 IN half..2*half

-----------------------------------------------------------------------------
(* exporter.go: cells are <<column, row>>, row 1 is the header.            *)

(* v / d for a positive d, to the nearest integer and to the even one of   *)
(* two.                                                                    *)
Rounded(v, d) ==
  LET q == v \div d
      up == 2 * (v % d) > d \/ (2 * (v % d) = d /\ q % 2 = 1)
  IN IF up THEN q + 1 ELSE q

(* A float32 has not even half the bits, and none behind the point of a    *)
(* large price.                                                            *)
NarrowScale(minor) ==
  Max({0} \cup {k \in 0..Mantissa + 6 : minor <= (100 * TwoTo[Mantissa \div 2] - 1) \div TwoTo[k]})

(* How many bits of minor/100 stand behind the point in a float64: as many *)
(* as the mantissa has room for, minor/100 * 2^k < 2^Mantissa.             *)
Scale(minor) ==
  Max({k \in 0..Mantissa + 6 : minor <= (100 * TwoTo[Mantissa] - 1) \div TwoTo[k]})

(* float64(minor)/100: the fraction digits/unit.                           *)
InRubles(minor) ==
  LET unit == TwoTo[Scale(minor)]
  IN [digits |-> Rounded(minor * unit, 100), unit |-> unit]

Headers == <<"product", "price", "currency", "date">>

Cells(rows) ==
  [cell \in (1..4) \X (1..Len(rows)+1) |->
     LET value == rows[cell[2] - 1][Headers[cell[1]]]
     IN IF cell[2] = 1 THEN Headers[cell[1]]
        ELSE IF cell[1] = 2 THEN InRubles(value) ELSE value]

LastRow(rows) == Len(rows) + 1

(* The cells with a number format, B2 and D2 down to the last row.         *)
Formats(rows) ==
  [cell \in (IF rows = <<>> THEN {} ELSE {2, 4} \X (2..LastRow(rows))) |->
     IF cell[1] = 2 THEN "#,##0.00" ELSE "yyyy-mm-dd hh:mm"]
=============================================================================
