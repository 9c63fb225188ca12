\* One NDJSON run at a time, killed at any point and started again.
SPECIFICATION FairSpec
CONSTANTS
  r1 = r1
  Runs = {r1}
  Sinks = {"file"}
  PAGE_LIMIT = 2
  COLD_START_WINDOW = 9
  Retention = 9
  ScanLimit = 9
  Bad = Bad
  MaxLedger = 5
  MaxEvents = 4
  MaxPerLedger = 2
  MaxCrashes = 2
INVARIANTS
  TypeOK
  OutputFollowsChain
  FinishedRunCaughtUp
PROPERTIES
  EveryEventIngested
