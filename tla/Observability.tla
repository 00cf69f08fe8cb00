---------------------------- MODULE Observability ----------------------------
(***************************************************************************)
(* The three observability relations of the charm together: what they share *)
(* are the units, the lease, the revision a unit runs and the charm events   *)
(* that more than one library observes.                                      *)
(***************************************************************************)
EXTENDS Naturals, FiniteSets

CONSTANTS
  Units,       \* units of the charm
  Containers,  \* its containers
  Lokis,       \* logging relations, each the set of Loki units that may be in it
  Urls,        \* custom URLs a Loki unit may be given
  Addresses,   \* IP addresses of pods
  Scrapers,    \* units of Prometheus
  Grafanas,    \* units of Grafana
  Relations,   \* the relations that are made, one in each behaviour
  Revisions,   \* revisions of the charm (jobs, rules, dashboards), for each relation
  MaxEdits,    \* bound on what the operator or Kubernetes changes, for each relation
  None         \* no value

VARIABLES
  leader,    \* the unit with the lease
  here,      \* the units there are
  revision,  \* the revision each unit runs
  wanted,    \* the revision the operator asked for last
  due,       \* charm events each unit has to handle
  moved,     \* whether the lease has moved
  focus,     \* the relation that is made
  edits,     \* edits left
  \* LogForwarding
  loki, endpoint, asked, seen, loggingEvents, reach, ready, targets, rules,
  \* Scrape
  related, ip, address, metricsApp, metricsEvents, behind, members, prometheusEvents,
  config, alerts, errors,
  \* Dashboards
  relation, stored, dashboardsApp, dashboardsEvents, grafanaEvents, rendered,
  dashboardsError, shown

Logging == INSTANCE LogForwarding
Metrics == INSTANCE Scrape WITH Lead <- CHOOSE p \in Scrapers : TRUE
Boards == INSTANCE Dashboards WITH Lead <- CHOOSE g \in Grafanas : TRUE

\* A unit of Loki is in one relation; the other charms have a unit that leads.
ASSUME OthersAssumption ==
  /\ \A r, s \in Lokis : r = s \/ r \cap s = {}
  /\ Scrapers # {} /\ Grafanas # {}

\* Nothing that a unit, an address, a databag or a rule may be is taken for no value.
ASSUME NoneAssumption ==
  /\ None \notin Units /\ None # "good"
  /\ None \notin [address: Addresses \cup Units, fqdn: Units]
  /\ \A r \in Relations : \A v \in Revisions[r] : None # [jobs |-> v.jobs, rules |-> v.rules]

\* The revisions of the charm ship jobs with targets, one by default, and well-formed
\* dashboards.
ASSUME RevisionsAssumption ==
  \A r \in Relations :
    /\ MaxEdits[r] \in Nat
    /\ \A v \in Revisions[r] :
         /\ v.jobs # {} /\ v.rules \in {"none", "good", "bad"}
         /\ \A job \in v.jobs :
              job \in [name: {job.name}, ok: BOOLEAN, static: {job.static}] /\ {} \notin job.static
         /\ \A d \in v.dashboards : d \in Boards!Files /\ Boards!WellFormed(d.content)

charm == <<leader, here, revision, wanted, due, moved, focus, edits>>
logging == <<loki, endpoint, asked, seen, loggingEvents, reach, ready, targets, rules>>
metrics == <<related, ip, address, metricsApp, metricsEvents, behind, members,
             prometheusEvents, config, alerts, errors>>
boards == <<relation, stored, dashboardsApp, dashboardsEvents, grafanaEvents, rendered,
            dashboardsError, shown>>

vars == <<charm, logging, metrics, boards>>

CharmEvents == {"leader_elected", "config_changed", "upgrade_charm"}

-------------------------------------------------------------------------------
(* Hooks *)

Idle(u) ==
  due[u] = {} /\ loggingEvents[u] = {} /\ metricsEvents[u] = {} /\ dashboardsEvents[u] = {}

\* A charm event, or update-status, which comes when the unit has nothing else to do.
CharmHook(u, e) ==
  /\ e \in due[u] \/ (e = "update_status" /\ Idle(u))
  /\ due' = [due EXCEPT ![u] = @ \ {e}]
  /\ Metrics!CharmEvent(u, e)
  /\ Boards!CharmEvent(u, e)
  /\ UNCHANGED <<leader, here, revision, wanted, moved, focus, edits, logging>>

RelationHook ==
  /\ \/ Logging!Hooks /\ UNCHANGED <<metrics, boards>>
     \/ Metrics!Hooks /\ UNCHANGED <<logging, boards>>
     \/ Boards!Hooks /\ UNCHANGED <<logging, metrics>>
  /\ UNCHANGED charm

-------------------------------------------------------------------------------
(* Operators, Kubernetes and Juju *)

Integrate ==
  /\ \/ focus = "logging" /\ Logging!Joins /\ UNCHANGED <<metrics, boards>>
     \/ focus = "metrics-endpoint" /\ Metrics!Relate /\ UNCHANGED <<logging, boards>>
     \/ focus = "grafana-dashboard" /\ Boards!Relate /\ UNCHANGED <<logging, metrics>>
  /\ UNCHANGED charm

Edit == edits > 0 /\ edits' = edits - 1

RelationEdit ==
  /\ Edit
  /\ \/ Logging!Edits /\ UNCHANGED <<metrics, boards>>
     \/ Boards!Remove /\ UNCHANGED <<logging, metrics>>
  /\ UNCHANGED <<leader, here, revision, wanted, due, moved, focus>>

Elect(u) ==
  /\ u \in here \ {leader}
  /\ Edit
  /\ leader' = u /\ moved' = TRUE
  /\ due' = [due EXCEPT ![u] = @ \cup {"leader_elected"}]
  /\ UNCHANGED <<here, revision, wanted, focus, logging, metrics, boards>>

Refresh(r) ==
  /\ r # wanted
  /\ Edit
  /\ wanted' = r
  /\ UNCHANGED <<leader, here, revision, due, moved, focus, logging, metrics, boards>>

\* A pod is replaced: by a refresh, one unit after another, or by Kubernetes.  What
\* config-changed does after upgrade-charm is the same again.
PodReplaced(u) ==
  /\ u \in here
  /\ IF revision[u] = wanted
       THEN Edit /\ UNCHANGED revision
       ELSE revision' = [revision EXCEPT ![u] = wanted] /\ UNCHANGED edits
  /\ due' = [due EXCEPT ![u] = @ \cup
               {IF revision[u] = wanted THEN "config_changed" ELSE "upgrade_charm"}]
  /\ Logging!PodMoves(u) /\ Metrics!PodMoves(u) /\ Boards!PodMoves(u)
  /\ UNCHANGED <<leader, here, wanted, moved, focus>>

UnitArrives(u) ==
  /\ u \notin here
  /\ Edit
  /\ here' = here \cup {u}
  /\ revision' = [revision EXCEPT ![u] = wanted]
  /\ due' = [due EXCEPT ![u] = {"config_changed"}]
  /\ Logging!UnitArrives(u) /\ Metrics!UnitArrives(u) /\ Boards!UnitArrives(u)
  /\ UNCHANGED <<leader, wanted, moved, focus>>

UnitDeparts(u) ==
  /\ u \in here \ {leader}
  /\ Edit
  /\ here' = here \ {u}
  /\ due' = [due EXCEPT ![u] = {}]
  /\ Logging!UnitDeparts(u) /\ Metrics!UnitDeparts(u) /\ Boards!UnitDeparts(u)
  /\ UNCHANGED <<leader, revision, wanted, moved, focus>>

-------------------------------------------------------------------------------

\* A new deployment has handled its first events.
Init ==
  /\ here \in SUBSET Units \ {{}}
  /\ leader \in here
  /\ due = [u \in Units |-> {}]
  /\ moved = FALSE
  /\ focus \in Relations
  /\ \E r \in Revisions[focus] : wanted = r /\ revision = [u \in Units |-> r]
  /\ edits = MaxEdits[focus]
  /\ Logging!Init /\ Metrics!Init /\ Boards!Init

Next ==
  \/ \E u \in here, e \in CharmEvents \cup {"update_status"} : CharmHook(u, e)
  \/ RelationHook \/ Integrate \/ RelationEdit
  \/ \E u \in Units : Elect(u) \/ PodReplaced(u) \/ UnitArrives(u) \/ UnitDeparts(u)
  \/ \E r \in Revisions[focus] : Refresh(r)

Spec == Init /\ [][Next]_vars

-------------------------------------------------------------------------------
(* Properties; each is stated in the module of its component *)

TypeOK ==
  /\ here \subseteq Units /\ leader \in here
  /\ wanted \in Revisions[focus] /\ revision \in [Units -> Revisions[focus]]
  /\ due \in [Units -> SUBSET CharmEvents]
  /\ moved \in BOOLEAN
  /\ focus \in Relations
  /\ edits \in 0..MaxEdits[focus]
  /\ Logging!TypeOK /\ Metrics!TypeOK /\ Boards!TypeOK

\* Logs go from each container to exactly the endpoints its unit knows.
ForwardsToEndpoints == Logging!ForwardsToEndpoints

\* Alert rules reach each logging relation that counts.
RulesPublished == Logging!RulesPublished

\* Prometheus scrapes the units at the addresses they have.
ScrapesTheUnits == Metrics!ScrapesTheUnits

\* The jobs and rules published are those of the revision of the leader.
PublishesRevision == Metrics!PublishesRevision

\* Prometheus gets no two jobs of one name.
JobNamesUnique == Metrics!JobNamesUnique

\* Prometheus reports an error of the jobs or of the rules published exactly when they
\* have one.
ErrorsReported == Metrics!ErrorsReported

\* The dashboards published are those of the revision of the leader.
PublishesDashboards == Boards!PublishesDashboards

\* Every unit of Grafana shows what is published.
ShowsDashboards == Boards!ShowsDashboards

\* The panels shown are on data sources, and their queries on variables, that are declared.
ShownResolve == Boards!ShownResolve

===============================================================================
