SPECIFICATION FairSpec
CONSTANTS
  Files <- TwoFiles
  Sweeps <- TwoSweeps
  MaxFaults = 1
  MaxCrashes = 1
INVARIANTS
  TypeOK
  KeptUntilExpiry
  OrphansAreRefusals
PROPERTY ExpiredRowsGo
