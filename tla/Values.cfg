SPECIFICATION Spec
CONSTANTS
  Characters = {"0", "5", ".", ",", "-", "minus", " ", "USD"}
  MaxLength = 6
  MaxNumber = 600
  MaxPriceMinor = 499999
  Bits = 8
  Second = 10
  Mantissa = 24
  Exponents <- SomeExponents
INVARIANTS
  ReadsWhatIsShown
  FormatIsReadBack
  MoneyIsExact
  
  SheetIsTheHistory
CHECK_DEADLOCK FALSE
