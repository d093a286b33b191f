SPECIFICATION FairSpec
CONSTANTS
  w1 = w1
  w2 = w2
  w3 = w3
  Workers = {w1, w2, w3}
  TTL = 2
  Timeout = 2
INVARIANTS
  TypeOK
  DelayIsKnown
  WaitIsBounded
PROPERTIES
  VerdictIsFresh
  EveryoneGetsOn
