\* Settlements over registries that change, with overflow, missing, frozen
\* and unfunded parties, and partners listed twice.
SPECIFICATION Spec
CONSTANTS
  a = a
  p1 = p1
  p2 = p2
  w = w
  t = t
  Accounts = {a}
  NoAccount = NoAccount
  NoTransfer = NoTransfer
  U32_MAX = 8
  MinTempTtl = 1
  MaxTtl = 3
  MaxSeq = 2
  AdminWindows = {1}
  Partners = {p1, p2}
  Holders = {w, t}
  Wrapper = w
  Issuer = Issuer
  NoPartner = NoPartner
  NoCall = NoCall
  MAX_BPS = 4
  I128_MAX = 12
  BpsArgs = {1, 3}
  Amounts = {3, 5}
  MaxList = 2
  MaxSupply = 4
  InitFunds <- MCFunded
SYMMETRY MCSymmetry
INVARIANTS
  PaidWithinAmount
  RefusedOnlyIfRepeated
  DebitIsReturned
  EventsExplainBalances
PROPERTIES
  ImplementsAtomicSplit
  OrphanedRegistryFrozen
