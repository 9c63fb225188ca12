\* One authorization id over several episodes, with partial, over- and zero
\* clearings, overflow, pauses and admin handovers.
SPECIFICATION Spec
CONSTANTS
  a = a
  b = b
  c1 = c1
  Accounts = {a, b}
  NoAccount = NoAccount
  NoTransfer = NoTransfer
  U32_MAX = 8
  MinTempTtl = 1
  MaxTtl = 3
  MaxSeq = 2
  AdminWindows = {0, 2}
  AuthIds = {c1}
  NoLock = NoLock
  I128_MAX = 5
  Reserves <- MCReserves
  Finals <- MCFinals
  MaxEvents = 6
INVARIANTS
  TypeOK
  EpisodesWellFormed
  ReleaseReturnsUnspent
  ShortfallTellsDebt
PROPERTIES
  NoClearingForgotten
  PausedOnlyWindsDown
  ImplementsCollateralBook
