\* Every interleaving of locks, consumes, admin calls and ledger closes, up to
\* the largest ledger number.
SPECIFICATION FairSpec
CONSTANTS
  q1 = q1
  a = a
  b = b
  QuoteIds = {q1}
  tx1 = tx1
  TxIds = {tx1}
  Accounts = {a, b}
  NoAccount = NoAccount
  NoTransfer = NoTransfer
  NoRow = NoRow
  U32_MAX = 8
  MinTempTtl = 2
  MaxTtl = 8
  MaxSeq = 8
  AdminWindows = {0, 4}
  I128_MAX = 7
  PRICE_SCALE = 2
  EXPIRY_GRACE_LEDGERS = 2
  Terms <- MCTerms
  Ttls = {0, 1, 2, 5, 6}
  MaxLocks = 2
INVARIANTS
  StorageMatchesHistory
  OneUsePerLock
  UseHonoursLock
  PreciseAnswerThroughGrace
  StoredQuoteSound
  AcceptsExactlyPriceRelation
PROPERTIES
  OrphanedBookFrozen
  ImplementsBook
  EveryQuoteCloses
