SPECIFICATION Spec
CONSTANTS
  a = a
  b = b
  c = c
  Quotes = {a, b}
  Nil = Nil
  Products <- OneProduct
  Concurrency = 1
  Broken <- NoProducts
  Muted <- NoProducts
  MaxMoves = 2
  MaxFaults = 1
  MaxStops = 1
  MaxBackdated = 1
INVARIANT PendingFindsAll
