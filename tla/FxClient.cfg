\* One user of the generated client, who assembles, signs and sends calls and
\* reads quotes or enumerates a role, while others call the contract.
SPECIFICATION ClientSpec
CONSTANTS
  a = a
  b = b
  c = c
  q1 = q1
  tx1 = tx1
  QuoteIds = {q1}
  TxIds = {tx1}
  Accounts = {a, b, c}
  NoAccount = NoAccount
  NoTransfer = NoTransfer
  NoRow = NoRow
  NoTx = NoTx
  NoRole = NoRole
  RoleNames = {"r", "m"}
  MAX_ROLES = 1
  Grantees <- MCGrantees
  U32_MAX = 8
  MinTempTtl = 1
  MaxTtl = 6
  MaxSeq = 3
  AdminWindows = {2}
  I128_MAX = 7
  PRICE_SCALE = 2
  EXPIRY_GRACE_LEDGERS = 1
  Terms <- MCTerms
  Ttls = {2}
  MaxLocks = 2
SYMMETRY MCSymmetry
INVARIANTS
  ClientTypeOK
  EnumerationMissesOnlyRevoked
  SettlesAtTermsShown
PROPERTIES
  ShownExpiryIsSafe
