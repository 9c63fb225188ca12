\* Overlapping runs into the file or the table, one of them killed, from a node
\* that drops events, with a cold-start window shorter than the chain.
SPECIFICATION Spec
CONSTANTS
  r1 = r1
  r2 = r2
  Runs = {r1, r2}
  Sinks = {"file", "table"}
  PAGE_LIMIT = 1
  COLD_START_WINDOW = 1
  Retention = 3
  ScanLimit = 3
  Bad = Bad
  MaxLedger = 5
  MaxEvents = 2
  MaxPerLedger = 2
  MaxCrashes = 1
SYMMETRY MCSymmetry
INVARIANTS
  GapsOnlyBeforeWindow
  CopiesBounded
