\* A claim of the indexer: a resumed run skips only what the node has dropped.
SPECIFICATION Spec
CONSTANTS
  r1 = r1
  Runs = {r1}
  Sinks = {"file"}
  PAGE_LIMIT = 2
  COLD_START_WINDOW = 2
  Retention = 4
  ScanLimit = 9
  Bad = Bad
  MaxLedger = 7
  MaxEvents = 3
  MaxPerLedger = 1
  MaxCrashes = 0
INVARIANTS
  SkipsOnlyDropped
