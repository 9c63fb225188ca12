\* A claim of the contract's header: a quote cannot be double-settled.
SPECIFICATION Spec
CONSTANTS
  q1 = q1
  a = a
  QuoteIds = {q1}
  tx1 = tx1
  TxIds = {tx1}
  Accounts = {a}
  NoAccount = NoAccount
  NoTransfer = NoTransfer
  NoRow = NoRow
  U32_MAX = 9
  MinTempTtl = 2
  MaxTtl = 5
  MaxSeq = 8
  AdminWindows = {0, 4}
  I128_MAX = 7
  PRICE_SCALE = 2
  EXPIRY_GRACE_LEDGERS = 2
  Terms <- MCGoodTerms
  Ttls = {2}
  MaxLocks = 2
INVARIANTS
  SettledAtMostOnce
