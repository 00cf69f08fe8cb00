SPECIFICATION Spec
CONSTANTS
  Units = {u1, u2}
  Servers = {s1, s2}
  Addresses = {a1, a2}
  Passwords = {p1}
  Codes = {c1}
  User = User
  None = None
  u1 = u1
  u2 = u2
  s1 = s1
  s2 = s2
  a1 = a1
  a2 = a2
  p1 = p1
  c1 = c1
  Edits = {"credentials", "endpoints", "status", "subordinate"}
  Faults = {"raise", "churn", "election", "depose", "failover"}
  MaxEdits = 4
  MaxFaults = 1
SYMMETRY Symmetry
INVARIANT TypeOK
INVARIANT CredentialsStaySecret
INVARIANT SettingsFollowEndpoints
INVARIANT StatusesTold
INVARIANT RequestReachesProvider
