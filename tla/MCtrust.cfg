SPECIFICATION Spec
CONSTANTS
  Certs = {c1, c2}
  RandomPasswords = {r1, r2}
  DefaultPassword = changeit
  Settings = {a, b}
  None = None
  c1 = c1
  c2 = c2
  r1 = r1
  r2 = r2
  changeit = changeit
  a = a
  b = b
  Edits = {"ca", "object_storage_ca", "settings", "storage"}
  Faults = {"late_import_error", "import_error", "raise", "churn"}
  MaxChain = 2
  MaxEdits = 2
  MaxFaults = 1
SYMMETRY Symmetry
INVARIANT TypeOK
INVARIANT StoreOpens
INVARIANT StoreFollowsRelations
INVARIANT RunningTrustsStore
INVARIANT StoreComplete
