SPECIFICATION Spec
CONSTANTS
  Units = {u1, u2}
  UserPasswords = {p1}
  RandomPasswords = {r1, r2}
  RandomKeys = {k1, k2}
  Databases = {d1, d2}
  None = None
  Inaccessible = Inaccessible
  Invalid = Invalid
  u1 = u1
  u2 = u2
  p1 = p1
  r1 = r1
  r2 = r2
  k1 = k1
  k2 = k2
  d1 = d1
  d2 = d2
  Events = {"update", "metastore_broken"}
  PeersFromStart = TRUE
  Faults = {"raise", "exec_error"}
  MaxFaults = 1
  MaxEdits = 2
SYMMETRY Symmetry
INVARIANT BrokenClearsBootstrap
INVARIANT ServingImpliesBootstrapped
INVARIANT TokensAgree
