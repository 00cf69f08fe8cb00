SPECIFICATION FairSpec
CONSTANTS
  Units = {u1}
  UserPasswords = {}
  RandomPasswords = {r1, r2}
  RandomKeys = {k1}
  Databases = {d1}
  None = None
  Inaccessible = Inaccessible
  Invalid = Invalid
  u1 = u1
  r1 = r1
  r2 = r2
  k1 = k1
  d1 = d1
  Events = {"update", "pebble_ready"}
  PeersFromStart = TRUE
  Faults = {"churn"}
  MaxFaults = 1
  MaxEdits = 0
PROPERTY AdminHasCommittedPassword
