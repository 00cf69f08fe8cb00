SPECIFICATION Spec
CONSTANTS
  Units = {u1, u2}
  Certs = {c1}
  HttpUrls = {}
  HttpsUrls = {s1}
  Deployments = {{"tls", "ingress"}, {"ingress"}}
  Late = {}
  None = None
  Blank = Blank
  u1 = u1
  u2 = u2
  c1 = c1
  s1 = s1
  Edits = {"relations", "wipe", "departure"}
  Faults = {"election", "depose"}
  MaxEdits = 1
  MaxFaults = 2
  PeersFromStart = TRUE
SYMMETRY Alike
INVARIANT BackendMatchesPorts
