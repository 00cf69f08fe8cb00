SPECIFICATION Spec
CONSTANTS
  Units = {u1, u2}
  UserPasswords = {p1}
  RandomPasswords = {r1, r2}
  RandomKeys = {k1, k2}
  Databases = {d1}
  None = None
  Inaccessible = Inaccessible
  Invalid = Invalid
  u1 = u1
  u2 = u2
  p1 = p1
  r1 = r1
  r2 = r2
  k1 = k1
  k2 = k2
  d1 = d1
  Events = {"update", "metastore_broken"}
  PeersFromStart = TRUE
  Faults = {"election", "refused"}
  MaxFaults = 1
  MaxEdits = 3
SYMMETRY Symmetry
INVARIANT NotLockedOut
INVARIANT RunningMatchesFile
INVARIANT ActiveMeansServing
