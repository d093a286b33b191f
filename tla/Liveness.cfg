SPECIFICATION FairSpec
CONSTANTS
  a = a
  b = b
  c = c
  Quotes = {a, b}
  Nil = Nil
  Products <- ThreeProducts
  Concurrency = 1
  Broken <- SecondProduct
  Muted <- FirstProduct
  MaxMoves = 2
  MaxFaults = 1
  MaxStops = 1
  MaxBackdated = 1
INVARIANT RepeatsAreAccountedFor
PROPERTIES
  NoRepeatAfterMark
  EveryChangeIsTold
  JournalCatchesUp
  SignalEndsProcess
