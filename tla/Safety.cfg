SPECIFICATION Spec
CONSTANTS
  a = a
  b = b
  c = c
  Quotes = {a, b, c}
  Nil = Nil
  Products <- TwoProducts
  Concurrency = 2
  Broken <- NoProducts
  Muted <- NoProducts
  MaxMoves = 2
  MaxFaults = 2
  MaxStops = 1
  MaxBackdated = 0
SYMMETRY QuoteSymmetry
INVARIANTS
  TypeOK
  ChatIsTrue
  PendingFindsAll
  MarkedWasTold
  JournalOfChanges
  RepeatsAreAccountedFor
  ChatKeepsOrder
  BaselineIsFresh
  IInv
PROPERTIES
  NoRepeatAfterMark
  ImplementsPriceWatch
