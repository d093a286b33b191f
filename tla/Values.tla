------------------------------- MODULE Values -------------------------------
(***************************************************************************)
(* The pure functions of PriceText and Conversions against what they are   *)
(* for.  The behaviour only enumerates inputs: a text that grows by one    *)
(* character, or a number that is counted up.                              *)
(***************************************************************************)
EXTENDS PriceText, Conversions

CONSTANTS
  Characters, MaxLength, MaxNumber,   \* bounds of the enumeration
  Exponents                           \* of the numerics

(* PostgreSQL has 131072 digits before the point of a numeric and 16383    *)
(* after it, so the int32 of an exponent is never near its end.            *)
ASSUME ExponentsOfNumeric ==
  \A exp \in Exponents : exp \in Int /\ -16383 <= exp /\ exp <= 131072

(* A float64 has room for a price up to the ceiling and seven bits behind  *)
(* its point.                                                              *)
ASSUME CeilingFitsFloat == MaxPriceMinor * TwoTo[7] < 100 * TwoTo[Mantissa]

VARIABLES text, number

vars == <<text, number>>

Init == text = <<>> /\ number = 0

Extend(c) == /\ number = 0 /\ Len(text) < MaxLength
             /\ text' = Append(text, c)
             /\ UNCHANGED number

Count == /\ text = <<>> /\ number < MaxNumber
         /\ number' = number + 1
         /\ UNCHANGED text

Next == (\E c \in Characters : Extend(c)) \/ Count

Spec == Init /\ [][Next]_vars

(* Amounts in minor units around zero, whole units and the ceiling.        *)
Amounts == {number, 100 * number, MaxPriceMinor - number, MaxPriceMinor + 1 + number, -1 - number}

-----------------------------------------------------------------------------
(* The price read from a text is the number its digits make, counted in    *)
(* hundredths from the last separator that has one or two digits after it. *)
(* A text with a sign, with nothing before a fraction, with more than      *)
(* three digits after the last separator, or above the ceiling has none    *)
(* (price.go:80-82, 93-95, 106-107, 131-137).                              *)
ReadsWhatIsShown ==
  LET digits == Keep(text, DigitSet)
      DigitsIn(positions) == {i \in positions \cap DOMAIN text : IsDigit(text[i])}
      point == Max({0} \cup {i \in DOMAIN text : IsSeparator(text[i])
                                                 /\ DigitsIn(i..Len(text)) # {}})
      decimals == IF point = 0 THEN 0 ELSE Cardinality(DigitsIn(point..Len(text)))
      minor == Number(digits) * (IF decimals = 3 THEN 100 ELSE 10^(2 - decimals))
      isPrice == /\ digits # <<>> /\ {"-", "minus"} \cap ToSet(text) = {}
                 /\ decimals \in {0, 3} \/ (decimals < 3 /\ DigitsIn(1..point) # {})
                 /\ minor <= MaxPriceMinor
  IN ExtractPrice(<<text, <<"5">>>>) =
       IF isPrice THEN {[price |-> minor, currency |-> DetectCurrency(text)]} ELSE {}

(* A price as the tracker writes it into its messages is read back as the  *)
(* same price in the same currency, thousands and kopeks included, and is  *)
(* refused when it is negative or above the ceiling.                       *)
FormatIsReadBack == text = <<>> =>
  \A m \in Amounts, currency \in ToSet(CurrencyMarkers) :
    ParsePrice(Format(m, currency)) =
      IF 0 <= m /\ m <= MaxPriceMinor THEN {[price |-> m, currency |-> currency]} ELSE {}

(* A price comes back from the table as it went in, and a finite numeric   *)
(* in any other normal form is converted exactly or not at all: no kopek   *)
(* is rounded away and nothing wraps round (storage/money.go:12-14,        *)
(* 32-33).                                                                 *)
MoneyIsExact == text = <<>> =>
  \A n \in {number, -number} :
    /\ IsInt(n) => NumericToMoney(MoneyToNumeric(n)) = {n}
    /\ \A exp \in Exponents :
         NumericToMoney([kind |-> "finite", int |-> n, exp |-> exp]) =
           {m \in -MaxInt-1..MaxInt :
              m * TenTo[Max({0, -exp - 2})] = n * TenTo[Max({0, exp + 2})]}

(* A pause ends when the site wanted it to: after the seconds of a         *)
(* Retry-After that fit into a duration (more of them wrap round, and      *)
(* nothing is said of those), at its date or at once when that is past,    *)
(* and without a header after the doubled pause up to its ceiling.  The    *)
(* guard of the shift is enough for the first doubling that overflows      *)
(* (fetch.go:156, 159-166, 174-177).                                       *)
PausesAreExact == text = <<>> =>
  /\ \A header \in [kind : {"seconds"}, value : {number, -number}] :
       header.value * Second <= MaxInt =>
         ParseRetryAfter(header, 0) = {s \in {header.value * Second} : s >= 0}
  /\ \A now \in {0, number, 2 * number} :
       \E d \in ParseRetryAfter([kind |-> "date", value |-> number], now) :
         d >= 0 /\ now + d = Max({now, number})
  /\ \A base \in {number} \cap 1..MaxInt, max \in {number, 2 * number, MaxInt} \cap 1..MaxInt :
       \A attempt \in 1..Bits :
         LET half == Min({base * TwoTo[attempt - 1], max}) \div 2
         IN base * TwoTo[attempt - 1] < TwoTo[Bits] => Backoff(base, max, attempt) = half..2*half

(* The format #,##0.00 shows n kopeks just when the value is nearer to     *)
(* n/100 than half a kopek.                                                *)
Shows(cell, n) ==
  LET off == 2 * (100 * cell.digits - n * cell.unit) IN -cell.unit < off /\ off < cell.unit

(* The sheet shows the history: on the line below the one before it stands *)
(* each row with its product, its currency, its date and its price, to the *)
(* kopek although the cell holds a binary fraction ("the precision to two  *)
(* places does not suffer", exporter.go:65-66), and just the prices and    *)
(* dates are formatted, the last row and an empty history included.        *)
SheetIsTheHistory == text = <<>> =>
  \A price \in Amounts \cap 0..MaxPriceMinor, length \in 0..3 :
    LET rows == [i \in 1..length |-> [product |-> i, price |-> price \div i,
                                     currency |-> "RUB", date |-> number + i]]
        cells == Cells(rows)
        formats == Formats(rows)
    IN /\ DOMAIN formats = {c \in DOMAIN cells : c[2] > 1 /\ Headers[c[1]] \in {"price", "date"}}
       /\ \A i \in DOMAIN rows :
            /\ cells[<<1, i + 1>>] = rows[i].product
            /\ Shows(cells[<<2, i + 1>>], rows[i].price) /\ formats[<<2, i + 1>>] = "#,##0.00"
            /\ cells[<<3, i + 1>>] = rows[i].currency
            /\ cells[<<4, i + 1>>] = rows[i].date
=============================================================================
