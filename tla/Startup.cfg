SPECIFICATION FairSpec
CONSTANTS
  Attempts = 2
  Migrations = 2
  Seeds <- TwoSeeds
  MaxLaunches = 2
  MaxOutages = 2
  MaxFaults = 1
  MaxStops = 2
  MaxEdits = 1
INVARIANTS
  TypeOK
  NothingLeftOpen
  StartedIsReady
  ExportIsHonest
PROPERTIES
  SeedKeepsEdits
  EventuallyServes
CHECK_DEADLOCK FALSE
