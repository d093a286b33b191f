------------------------------ MODULE PriceText ------------------------------
(***************************************************************************)
(* From the text of a page to a price and back: internal/scraper/price.go  *)
(* and internal/domain/money.go.                                           *)
(*                                                                         *)
(* A text is a sequence of characters.  "minus" is U+2212, " " stands for  *)
(* everything that means nothing to the parser, and a currency code for    *)
(* its sign and for its names in letters.  What may fail returns the set   *)
(* of its result, which is empty after an error.                           *)
(***************************************************************************)
EXTENDS Integers, FiniteSetsExt, SequencesExt

CONSTANT MaxPriceMinor   \* maxPriceMinor: the ceiling of numeric(12,2)

ASSUME CeilingIsNat == MaxPriceMinor \in Nat

Digits == <<"0", "1", "2", "3", "4", "5", "6", "7", "8", "9">>
DigitSet == ToSet(Digits)
IsDigit(c) == c \in DigitSet
Separators == {".", ","}
IsSeparator(c) == c \in Separators

(* The characters of s that are in kept.                                   *)
Keep(s, kept) ==
  FoldLeft(LAMBDA out, c : IF c \in kept THEN Append(out, c) ELSE out, <<>>, s)

DigitValue(c) == SelectInSeq(Digits, LAMBDA d : d = c) - 1

(* strconv.ParseInt of digits that fit into an int64; longer ones are far  *)
(* above the ceiling and refused there.                                    *)
Number(s) == FoldLeft(LAMBDA n, c : 10 * n + DigitValue(c), 0, s)

-----------------------------------------------------------------------------
(* price.go                                                                *)

CurrencyMarkers == <<"RUB", "USD", "EUR", "GBP">>
DefaultCurrency == "RUB"

(* The first marker of the list that occurs anywhere in the text wins.     *)
DetectCurrency(raw) ==
  LET k == SelectInSeq(CurrencyMarkers, LAMBDA m : Contains(raw, m))
  IN IF k = 0 THEN DefaultCurrency ELSE CurrencyMarkers[k]

StripSeparators(s) == Keep(s, ToSet(s) \ Separators)

TrimNothing(s) == s

(* strings.TrimRight(s, ".,")                                              *)
TrimRight(s) == SubSeq(s, 1, SelectLastInSeq(s, LAMBDA c : ~IsSeparator(c)))

(* The digits before and the minor units after the last separator.  One    *)
(* or two digits after it are a fraction, three are thousands.             *)
SplitDecimal(s) ==
  LET last == SelectLastInSeq(s, IsSeparator)
      before == StripSeparators(SubSeq(s, 1, last - 1))
      after == SubSeq(s, last + 1, Len(s))
      result ==
        CASE last = 0 -> [whole |-> s, frac |-> 0]
          [] last > 0 /\ Len(after) = 1 -> [whole |-> before, frac |-> 10 * Number(after)]
          [] last > 0 /\ Len(after) = 2 -> [whole |-> before, frac |-> Number(after)]
          [] last > 0 /\ Len(after) = 3 -> [whole |-> StripSeparators(s), frac |-> 0]
          [] OTHER -> [whole |-> <<>>, frac |-> 0]
  IN IF result.whole = <<>> THEN {} ELSE {result}

(* numeric(12,2) without computing a number above its ceiling.             *)
Exceeds(rubles, kopeks) == rubles > (MaxPriceMinor - kopeks) \div 100

ParseAmount(raw) ==
  LET kept == DigitSet \cup Separators \cup {"-"}
      s == TrimRight(Keep(ReplaceAll(raw, "minus", "-"), kept))
  IN IF Contains(s, "-") \/ ~\E c \in ToSet(s) : IsDigit(c) THEN {}
     ELSE {100 * Number(p.whole) + p.frac :
             p \in {q \in SplitDecimal(s) : ~Exceeds(Number(q.whole), q.frac)}}

ParsePrice(raw) == {[price |-> m, currency |-> DetectCurrency(raw)] : m \in ParseAmount(raw)}

(* The text of the first element the selector matches.                     *)
ExtractPrice(matches) == IF matches = <<>> THEN {} ELSE ParsePrice(Head(matches))

-----------------------------------------------------------------------------
(* money.go                                                                *)

(* %d                                                                      *)
DigitsOf[n \in Nat] ==
  IF n < 10 THEN <<Digits[n + 1]>> ELSE Append(DigitsOf[n \div 10], Digits[(n % 10) + 1])

GroupThousands(n) ==
  LET d == DigitsOf[n]
  IN FlattenSeq([i \in DOMAIN d |->
       IF i > 1 /\ (Len(d) - i + 1) % 3 = 0 THEN <<" ", d[i]>> ELSE <<d[i]>>])

UnpaddedDigits(n) == DigitsOf[n]

(* %02d                                                                    *)
TwoDigits(n) == IF n < 10 THEN <<"0">> \o DigitsOf[n] ELSE DigitsOf[n]

MoneyString(m) ==
  LET abs == IF m < 0 THEN -m ELSE m
      frac == abs % 100
  IN (IF m < 0 THEN <<"-">> ELSE <<>>)
       \o GroupThousands(abs \div 100)
       \o (IF frac # 0 THEN <<",">> \o TwoDigits(frac) ELSE <<>>)

(* CurrencySymbol maps a code to its sign or leaves it as it is.           *)
Format(m, currency) == MoneyString(m) \o <<" ", currency>>
=============================================================================
