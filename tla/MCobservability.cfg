SPECIFICATION Spec
CONSTANTS
  Units = {u1, u2}
  Containers = {polaris}
  Lokis = {{l1, l2}, {l3}}
  Urls = {custom}
  Addresses = {a1, a2}
  Scrapers = {p1}
  Grafanas = {g1, g2}
  Relations = {"logging", "metrics-endpoint", "grafana-dashboard"}
  MaxEdits <- MCMaxEdits
  Revisions <- MCRevisions
  None = None
  u1 = u1
  u2 = u2
  polaris = polaris
  l1 = l1
  l2 = l2
  l3 = l3
  custom = custom
  a1 = a1
  a2 = a2
  p1 = p1
  g1 = g1
  g2 = g2
SYMMETRY Symmetry
INVARIANT TypeOK
INVARIANT ForwardsToEndpoints
INVARIANT RulesPublished
INVARIANT ScrapesTheUnits
INVARIANT PublishesRevision
INVARIANT JobNamesUnique
INVARIANT ErrorsReported
INVARIANT PublishesDashboards
INVARIANT ShowsDashboards
INVARIANT ShownResolve
CHECK_DEADLOCK FALSE
