\* A vendor whose account is entered four times, two finance users, a run of two invoices.
CONSTANTS
  v1 = v1
  i1 = i1
  i2 = i2
  a1 = a1
  a2 = a2
  u1 = u1
  u2 = u2
  Nobody = Nobody
  NoAccount = NoAccount
  NoRun = NoRun
  Vendor = {v1}
  Invoice = {i1, i2}
  VendorOf <- Vendors
  Run = {1}
  User = {u1, u2}
  Account = {a1, a2}
  MaxEntries = 4
  MaxRenames = 1
SPECIFICATION Spec
SYMMETRY Users
CHECK_DEADLOCK FALSE
INVARIANTS
  FilesPayConfirmed
  OneJournalPerRun
  RecordMatchesLedger
  FrozenManifest
