\* A claim of a comment in settle_split: a partner listed twice is refused.
SPECIFICATION Spec
CONSTANTS
  a = a
  p1 = p1
  p2 = p2
  w = w
  t = t
  Accounts = {a}
  NoAccount = NoAccount
  NoTransfer = NoTransfer
  U32_MAX = 8
  MinTempTtl = 1
  MaxTtl = 3
  MaxSeq = 1
  AdminWindows = {}
  Partners = {p1, p2}
  Holders = {w, t}
  Wrapper = w
  Issuer = Issuer
  NoPartner = NoPartner
  NoCall = NoCall
  MAX_BPS = 4
  I128_MAX = 12
  BpsArgs = {1, 3}
  Amounts = {3, 5}
  MaxList = 2
  MaxSupply = 6
  InitFunds <- MCFunded
SYMMETRY MCSymmetry
INVARIANTS
  NobodyPaidTwice
