SPECIFICATION FairSpec
CONSTANTS
  w1 = w1
  w2 = w2
  w3 = w3
  Workers = {w1, w2, w3}
  HostConcurrency = 2
  HostDelay = 2
  Timeout = 1
  MaxAttempts = 2
  BaseBackoff = 2
  MaxBackoff = 4
  MaxRetryWait = 4
  RetryAfters = {0, 3, 6}
  CrawlDelay = 3
  Lag = 1
INVARIANTS
  TypeOK
  SlotsAreReturned
PROPERTIES
  RequestsAreSpaced
  OnlyStragglersIgnoreBan
  EveryRunEnds
