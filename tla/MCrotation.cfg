SPECIFICATION FairSpec
CONSTANTS
  Units = {u1}
  Servers = {s1}
  Addresses = {a1, a2}
  Passwords = {p1, p2}
  Codes = {c1}
  User = User
  None = None
  u1 = u1
  s1 = s1
  a1 = a1
  a2 = a2
  p1 = p1
  p2 = p2
  c1 = c1
  Edits = {"credentials", "endpoints", "replicas", "tls"}
  Faults = {"raise", "churn"}
  MaxEdits = 4
  MaxFaults = 1
PROPERTY SettingsReachPolaris
