SPECIFICATION Spec
CONSTANTS
  Units = {u1}
  Certs = {c1, c2}
  HttpUrls = {h1}
  HttpsUrls = {s1, s2}
  Deployments = {{"tls", "ingress", "oauth"}}
  Late = {u1}
  None = None
  Blank = Blank
  u1 = u1
  c1 = c1
  c2 = c2
  h1 = h1
  s1 = s1
  s2 = s2
  Edits = {"relations", "renewal", "url", "wipe", "secret"}
  Faults = {"raise", "churn", "move"}
  MaxEdits = 1
  MaxFaults = 1
  PeersFromStart = FALSE
SYMMETRY Symmetry
INVARIANT TypeOK
INVARIANT RunsWhatIsOnDisk
INVARIANT PortFollowsCertificate
INVARIANT ActiveMeansLoginWorks
INVARIANT IngressKnowsPods
