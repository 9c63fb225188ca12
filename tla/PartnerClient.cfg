\* One user of the generated client over a registry and a token that others
\* change: fees below, at and above 100%, and settlements simulated, then sent.
SPECIFICATION ClientSpec
CONSTANTS
  a = a
  b = b
  p1 = p1
  p2 = p2
  w = w
  t = t
  Accounts = {a, b}
  NoAccount = NoAccount
  NoTransfer = NoTransfer
  U32_MAX = 12
  MinTempTtl = 1
  MaxTtl = 3
  MaxSeq = 2
  AdminWindows = {2}
  Partners = {p1, p2}
  Holders = {w, t}
  Wrapper = w
  Issuer = Issuer
  NoPartner = NoPartner
  NoCall = NoCall
  NoTx = NoTx
  Sac = Sac
  MAX_BPS = 5
  I128_MAX = 14
  BpsArgs = {0, 2, 3, 5, 6, 12}
  SplitBps = {2, 3}
  Amounts = {3, 5}
  MaxList = 2
  MaxSupply = 5
  InitFunds <- MCFunds
SYMMETRY MCSymmetry
INVARIANTS
  ClientTypeOK
  TotalMatchesRegistry
  TotalNeverDrifts
  ShownSplitHolds
  RefusalTellsChange
