\* Deployments that abort and are repeated, and a reader of the record and of
\* the contract it names.
SPECIFICATION Spec
CONSTANTS
  a = a
  s1 = s1
  s2 = s2
  Accounts = {a}
  NoAccount = NoAccount
  Sacs = {s1, s2}
  NoSac = NoSac
  Bps = {0, 1}
  MaxContracts = 7
SYMMETRY MCSymmetry
INVARIANTS
  ParsedRecordComplete
  ReportMatchesRecord
  TornOnlyByTwoChanges
