SPECIFICATION FairSpec
CONSTANTS
  Units = {u1, u2}
  UserPasswords = {p1}
  RandomPasswords = {r1}
  RandomKeys = {k1}
  Databases = {d1}
  None = None
  Inaccessible = Inaccessible
  Invalid = Invalid
  u1 = u1
  u2 = u2
  p1 = p1
  r1 = r1
  k1 = k1
  d1 = d1
  Events = {"update", "metastore_broken"}
  PeersFromStart = TRUE
  Faults = {"refused"}
  MaxFaults = 1
  MaxEdits = 1
PROPERTY EventuallyServing
