SPECIFICATION Spec
CONSTANTS
  Units = {u1}
  UserPasswords = {p1}
  RandomPasswords = {r1, r2}
  RandomKeys = {k1}
  Databases = {d1}
  None = None
  Inaccessible = Inaccessible
  Invalid = Invalid
  u1 = u1
  p1 = p1
  r1 = r1
  r2 = r2
  k1 = k1
  d1 = d1
  Events = {"update", "metastore_broken", "pebble_ready", "database_changed", "oauth_changed", "secret_changed"}
  PeersFromStart = FALSE
  Faults = {"churn", "schema_error"}
  MaxFaults = 1
  MaxEdits = 1
SYMMETRY Symmetry
INVARIANT TypeOK
INVARIANT RunsOnRelatedDatabase
