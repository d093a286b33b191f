SPECIFICATION Spec
CONSTANTS
  Attempts = 2
  Migrations = 2
  Seeds <- TwoSeeds
  MaxLaunches = 1
  MaxOutages = 1
  MaxFaults = 1
  MaxStops = 1
  MaxEdits = 1
INVARIANT
  FirstConnectionsAreRetried
