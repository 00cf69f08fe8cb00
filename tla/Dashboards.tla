------------------------------ MODULE Dashboards ------------------------------
(***************************************************************************)
(* The dashboards relation of the charm: every unit keeps the dashboards of *)
(* its revision in its stored state and the leader publishes them           *)
(* (GrafanaDashboardProvider); the leader of Grafana renders them into the  *)
(* databag of its peers, from which every unit of Grafana loads them        *)
(* (GrafanaDashboardConsumer).  A step is a hook; the lease of the charm,   *)
(* its units and the revision they run belong to the module that composes   *)
(* this one.                                                                *)
(***************************************************************************)
EXTENDS Naturals, Templates

CONSTANTS
  Units,     \* units of the charm
  Grafanas,  \* units of Grafana
  Lead       \* the one of them that leads throughout

VARIABLES
  leader,            \* the unit of the charm with the lease
  here,              \* the units there are
  revision,          \* jobs, rules and dashboards in the charm each unit runs
  due,               \* charm events each unit has to handle
  relation,          \* "none", "made" or "broken"
  stored,            \* dashboards in the stored state of each unit
  dashboardsApp,     \* dashboards in the application databag
  dashboardsEvents,  \* relation events each unit of the charm has to handle
  grafanaEvents,     \* events each unit of Grafana has to handle
  rendered,          \* rendered dashboards in the peer databag of Grafana
  dashboardsError,   \* whether Grafana reports an invalid dashboard
  shown              \* dashboards each unit of Grafana loaded last

vars == <<leader, here, revision, due, relation, stored, dashboardsApp, dashboardsEvents,
          grafanaEvents, rendered, dashboardsError, shown>>

\* A dashboard is the name of its file, the uid in it, which is "" unless it was made
\* by this library, its version, whether it can be rendered, and its content.

Files == [file : STRING, uid : STRING, version : Nat, ok : BOOLEAN, content : Contents]

\* A file of a uid that is not this library's is given one of its own name.
WithUid(d) == [d EXCEPT !.uid = IF @ = "" THEN d.file ELSE @]

\* Mutant: the topology is always that of the leader.
LoadDashboardsOfLeader(u) ==
  {[dashboard |-> WithUid(d), unit |-> leader] : d \in revision[u].dashboards}

\* A template carries the topology of the unit that loaded it.
LoadDashboards(u) == {[dashboard |-> WithUid(d), unit |-> u] : d \in revision[u].dashboards}

-------------------------------------------------------------------------------
(* GrafanaDashboardProvider *)

\* _upset_dashboards_on_relation: what has not changed is not written again.
Upset(u) ==
  IF u = leader /\ relation = "made" /\ dashboardsApp # stored'[u]
    THEN dashboardsApp' = stored'[u] /\ grafanaEvents' = [g \in Grafanas |-> grafanaEvents[g] \cup {"changed"}]
    ELSE UNCHANGED <<dashboardsApp, grafanaEvents>>

UpdateAllDashboards(u) ==
  /\ stored' = [stored EXCEPT ![u] = LoadDashboards(u)]
  /\ Upset(u)

\* relation-created: only the leader loads the dashboards.
RelationCreated(u) ==
  /\ "created" \in dashboardsEvents[u]
  /\ dashboardsEvents' = [dashboardsEvents EXCEPT ![u] = @ \ {"created"}]
  /\ IF u = leader THEN UpdateAllDashboards(u) ELSE UNCHANGED <<stored, dashboardsApp, grafanaEvents>>
  /\ UNCHANGED <<relation, rendered, dashboardsError, shown>>

\* Mutant: leader-elected is not observed.
CharmEventOfRevision(u, e) ==
  /\ IF e \in {"upgrade_charm", "config_changed"}
       THEN UpdateAllDashboards(u)
       ELSE UNCHANGED <<stored, dashboardsApp, grafanaEvents>>
  /\ UNCHANGED <<relation, dashboardsEvents, rendered, dashboardsError, shown>>

\* leader-elected, upgrade-charm and config-changed: every unit does.
CharmEvent(u, e) ==
  /\ IF e \in {"leader_elected", "upgrade_charm", "config_changed"}
       THEN UpdateAllDashboards(u)
       ELSE UNCHANGED <<stored, dashboardsApp, grafanaEvents>>
  /\ UNCHANGED <<relation, dashboardsEvents, rendered, dashboardsError, shown>>

-------------------------------------------------------------------------------
(* GrafanaDashboardConsumer *)

\* Of the dashboards with one uid the one of the highest version is shown.
Newest(dashboards) ==
  CHOOSE t \in dashboards : \A s \in dashboards : s.dashboard.version <= t.dashboard.version

Deduplicated(dashboards) ==
  {Newest({t \in dashboards : t.dashboard.uid = uid}) :
     uid \in {t.dashboard.uid : t \in dashboards}}

\* Mutant: the other units of Grafana are not told.
LoadAlone(g) ==
  /\ shown' = [shown EXCEPT ![g] = Deduplicated(rendered')]
  /\ grafanaEvents' = [grafanaEvents EXCEPT ![g] = @ \ {"changed", "broken"}]

\* The unit g loads the dashboards, and its peers are told when the databag changed.
Load(g) ==
  /\ shown' = [shown EXCEPT ![g] = Deduplicated(rendered')]
  /\ grafanaEvents' = [h \in Grafanas |->
                (IF h = g THEN grafanaEvents[h] \ {"changed", "broken"} ELSE grafanaEvents[h])
                \cup (IF h # g /\ rendered' # rendered THEN {"peer_changed"} ELSE {})]

Renders(dashboards) == \A t \in dashboards : t.dashboard.ok

Rendering(t) == [t EXCEPT !.dashboard.content = Rendered(@)]

\* _render_dashboards_and_signal_changed: one invalid dashboard removes them all, and a
\* databag that is right already is not written and not loaded again.
GrafanaChanged(g) ==
  /\ "changed" \in grafanaEvents[g] /\ relation = "made"
  /\ IF g # Lead
       THEN grafanaEvents' = [grafanaEvents EXCEPT ![g] = @ \ {"changed"}] /\ UNCHANGED <<rendered, dashboardsError, shown>>
       ELSE /\ dashboardsError' = ~Renders(dashboardsApp)
            /\ rendered' = IF Renders(dashboardsApp) THEN {Rendering(t) : t \in dashboardsApp} ELSE {}
            /\ IF rendered' = rendered /\ Renders(dashboardsApp)
                 THEN grafanaEvents' = [grafanaEvents EXCEPT ![g] = @ \ {"changed"}] /\ UNCHANGED shown
                 ELSE Load(g)
  /\ UNCHANGED <<relation, stored, dashboardsApp, dashboardsEvents>>

\* The leader has loaded what it wrote.
GrafanaPeerChanged(g) ==
  /\ "peer_changed" \in grafanaEvents[g]
  /\ grafanaEvents' = [grafanaEvents EXCEPT ![g] = @ \ {"peer_changed"}]
  /\ shown' = IF g = Lead THEN shown ELSE [shown EXCEPT ![g] = Deduplicated(rendered)]
  /\ UNCHANGED <<relation, stored, dashboardsApp, dashboardsEvents, rendered, dashboardsError>>

GrafanaBroken(g) ==
  /\ "broken" \in grafanaEvents[g]
  /\ IF g = Lead /\ rendered # {}
       THEN rendered' = {} /\ Load(g)
       ELSE grafanaEvents' = [grafanaEvents EXCEPT ![g] = @ \ {"broken"}] /\ UNCHANGED <<rendered, shown>>
  /\ UNCHANGED <<relation, stored, dashboardsApp, dashboardsEvents, dashboardsError>>

-------------------------------------------------------------------------------
(* The environment *)

Relate ==
  /\ relation = "none" /\ relation' = "made"
  /\ dashboardsEvents' = [u \in Units |-> IF u \in here THEN {"created"} ELSE {}]
  /\ UNCHANGED <<stored, dashboardsApp, grafanaEvents, rendered, dashboardsError, shown>>

\* The databags of a relation, with the errors reported there, go with it.
Remove ==
  /\ relation = "made" /\ relation' = "broken"
  /\ dashboardsEvents' = [u \in Units |-> {}]
  /\ dashboardsApp' = {} /\ dashboardsError' = FALSE
  /\ grafanaEvents' = [g \in Grafanas |-> (grafanaEvents[g] \ {"changed"}) \cup {"broken"}]
  /\ UNCHANGED <<stored, rendered, shown>>

\* The stored state may be lost with the pod.
PodMoves(u) ==
  /\ \/ UNCHANGED stored
     \/ stored' = [stored EXCEPT ![u] = {}]
  /\ UNCHANGED <<relation, dashboardsApp, dashboardsEvents, grafanaEvents, rendered, dashboardsError, shown>>

UnitArrives(u) ==
  /\ stored' = [stored EXCEPT ![u] = {}]
  /\ dashboardsEvents' = [dashboardsEvents EXCEPT ![u] = IF relation = "made" THEN {"created"} ELSE {}]
  /\ UNCHANGED <<relation, dashboardsApp, grafanaEvents, rendered, dashboardsError, shown>>

UnitDeparts(u) ==
  /\ dashboardsEvents' = [dashboardsEvents EXCEPT ![u] = {}]
  /\ UNCHANGED <<relation, stored, dashboardsApp, grafanaEvents, rendered, dashboardsError, shown>>

-------------------------------------------------------------------------------

Init ==
  /\ relation = "none"
  /\ stored = [u \in Units |-> {}]
  /\ dashboardsApp = {}
  /\ dashboardsEvents = [u \in Units |-> {}]
  /\ grafanaEvents = [g \in Grafanas |-> {}]
  /\ rendered = {}
  /\ dashboardsError = FALSE
  /\ shown = [g \in Grafanas |-> {}]

Hooks ==
  \/ \E u \in here : RelationCreated(u)
  \/ \E g \in Grafanas : GrafanaChanged(g) \/ GrafanaPeerChanged(g) \/ GrafanaBroken(g)

-------------------------------------------------------------------------------
(* Properties *)

TypeOK ==
  /\ relation \in {"none", "made", "broken"}
  /\ \A u \in Units : stored[u] = {} \/ {t.unit : t \in stored[u]} = {u}
  /\ {t.unit : t \in dashboardsApp} \subseteq Units
  /\ dashboardsEvents \in [Units -> SUBSET {"created"}]
  /\ grafanaEvents \in [Grafanas -> SUBSET {"changed", "peer_changed", "broken"}]
  /\ dashboardsError \in BOOLEAN

\* Every event of the relation is handled.
Settled == (\A u \in here : dashboardsEvents[u] = {} /\ due[u] = {}) /\ (\A g \in Grafanas : grafanaEvents[g] = {})

\* Then what is published are the dashboards of the revision the leader runs, with the
\* leader as the unit they come from, whoever led when they changed
\* (_update_all_dashboards_from_dir, on every unit).
PublishesDashboards ==
  Settled /\ relation = "made" => dashboardsApp = LoadDashboards(leader)

\* Then every unit of Grafana shows what is published, for each uid the dashboard of the
\* highest version; none when one of them is invalid, which is then reported, and none
\* of a relation that was removed (dashboards, _render_dashboards_and_signal_changed).
ShowsDashboards ==
  Settled =>
    /\ dashboardsError <=> ~Renders(dashboardsApp)
    /\ \A g \in Grafanas :
         IF ~Renders(dashboardsApp) THEN shown[g] = {}
         ELSE /\ shown[g] \subseteq {Rendering(t) : t \in dashboardsApp}
              /\ \A t \in dashboardsApp : \E s \in shown[g] :
                   s.dashboard.uid = t.dashboard.uid /\ s.dashboard.version >= t.dashboard.version
              /\ \A s, t \in shown[g] : s.dashboard.uid = t.dashboard.uid => s = t

\* What a unit of Grafana shows is sound: every panel is on a data source the dashboard
\* declares, and every variable its queries were narrowed by is there, after variables
\* were added, replaced and removed (_convert_dashboard_fields, _inject_labels).
ShownResolve == \A g \in Grafanas : \A t \in shown[g] : Sound(t.dashboard.content)

===============================================================================
