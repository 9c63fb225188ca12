\* A claim of the indexer's README: a run is idempotent, so a kill is made good by the next run.
SPECIFICATION Spec
CONSTANTS
  r1 = r1
  Runs = {r1}
  Sinks = {"file"}
  PAGE_LIMIT = 2
  COLD_START_WINDOW = 9
  Retention = 9
  ScanLimit = 9
  Bad = Bad
  MaxLedger = 5
  MaxEvents = 4
  MaxPerLedger = 2
  MaxCrashes = 1
INVARIANTS
  KilledRunIsMadeGood
