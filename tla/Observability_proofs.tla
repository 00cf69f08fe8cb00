------------------------- MODULE Observability_proofs -------------------------
(***************************************************************************)
(* Dashboards reach Grafana and can be drawn, jobs and rules reach           *)
(* Prometheus, for any revisions, units, relations and edits: where one side *)
(* does not have what the other published, something is left to handle.      *)
(* That logs reach Loki is proved in LogForwarding_proofs.                   *)
(***************************************************************************)
EXTENDS LogForwarding_proofs, WellFoundedInduction

-------------------------------------------------------------------------------
(* The charm: who is there, who leads and what each unit runs *)

CharmInv ==
  /\ here \subseteq Units /\ leader \in here
  /\ focus \in Relations
  /\ wanted \in Revisions[focus]
  /\ revision \in [Units -> Revisions[focus]]
  /\ due \in [Units -> SUBSET CharmEvents]
  /\ moved \in BOOLEAN
  /\ edits \in 0..MaxEdits[focus]

LEMMA CharmInit == Init => CharmInv
<1> SUFFICES ASSUME Init
             PROVE  CharmInv
  OBVIOUS
<1>1. edits = MaxEdits[focus] /\ MaxEdits[focus] \in Nat
  BY RevisionsAssumption DEF Init
<1>2. wanted \in Revisions[focus] /\ revision \in [Units -> Revisions[focus]]
  BY DEF Init
<1>3. edits \in 0..MaxEdits[focus]
  BY <1>1
<1>4. here \subseteq Units /\ leader \in here /\ focus \in Relations /\ moved \in BOOLEAN
  BY DEF Init
<1>5. due \in [Units -> SUBSET CharmEvents]
  BY DEF Init
<1> QED
  BY <1>2, <1>3, <1>4, <1>5 DEF CharmInv

LEMMA CharmStep == CharmInv /\ [Next]_vars => CharmInv'
<1> SUFFICES ASSUME CharmInv, [Next]_vars
             PROVE  CharmInv'
  OBVIOUS
<1>1. MaxEdits[focus] \in Nat
  BY RevisionsAssumption DEF CharmInv
<1>2. CASE UNCHANGED charm
  BY <1>2 DEF charm, CharmInv
<1>3. ASSUME NEW u \in here, NEW e \in CharmEvents \cup {"update_status"}, CharmHook(u, e)
      PROVE  CharmInv'
  BY <1>3 DEF CharmHook, CharmInv
<1>4. CASE RelationEdit
  BY <1>1, <1>4 DEF RelationEdit, Edit, CharmInv
<1>5. ASSUME NEW u \in Units, Elect(u)
      PROVE  CharmInv'
  BY <1>1, <1>5 DEF Elect, Edit, CharmInv, CharmEvents
<1>6. ASSUME NEW u \in Units, PodReplaced(u)
      PROVE  CharmInv'
  <2>1. edits' \in 0..MaxEdits[focus] /\ UNCHANGED <<leader, here, wanted, moved, focus>>
    BY <1>1, <1>6 DEF PodReplaced, Edit, CharmInv
  <2>2. revision' \in [Units -> Revisions[focus]]
    BY <1>6 DEF PodReplaced, CharmInv
  <2>3. due' \in [Units -> SUBSET CharmEvents]
    BY <1>6 DEF PodReplaced, CharmInv, CharmEvents
  <2> QED
    BY <2>1, <2>2, <2>3 DEF CharmInv
<1>7. ASSUME NEW u \in Units, UnitArrives(u) \/ UnitDeparts(u)
      PROVE  CharmInv'
  BY <1>1, <1>7 DEF UnitArrives, UnitDeparts, Edit, CharmInv, CharmEvents
<1>8. ASSUME NEW r \in Revisions[focus], Refresh(r)
      PROVE  CharmInv'
  BY <1>1, <1>8 DEF Refresh, Edit, CharmInv
<1> QED
  BY <1>2, <1>3, <1>4, <1>5, <1>6, <1>7, <1>8 DEF Next, vars, RelationHook, Integrate

-------------------------------------------------------------------------------
(* The dashboards *)

Theory == INSTANCE Templates_proofs

\* What Grafana makes of a well-formed dashboard is sound.
LEMMA RenderedSound ==
  ASSUME NEW d \in Boards!Contents, Boards!WellFormed(d)
  PROVE  Boards!Sound(Boards!Rendered(d))
<1>1. d \in Theory!Contents
  BY DEF Boards!Contents, Boards!Variables, Boards!Panels, Boards!Kinds,
         Boards!SourceKinds, Theory!Contents, Theory!Variables, Theory!Panels,
         Theory!Kinds, Theory!SourceKinds
<1>2. Theory!WellFormed(d)
  BY DEF Boards!WellFormed, Boards!Names, Boards!Known, Boards!BuiltIn,
         Boards!Recognized, Boards!TopologyDropdowns, Boards!Ours, Boards!Datasources,
         Boards!DatasourceVars, Theory!WellFormed, Theory!Names, Theory!Known,
         Theory!BuiltIn, Theory!Recognized, Theory!TopologyDropdowns, Theory!Ours,
         Theory!Datasources, Theory!DatasourceVars
<1>3. Theory!Rendered(d) = Boards!Rendered(d)
  <2>1. Theory!Datasources(d) = Boards!Datasources(d)
    BY DEF Theory!Datasources, Boards!Datasources, Theory!DatasourceVars,
           Boards!DatasourceVars, Theory!Names, Boards!Names
  <2>2. \A s : Theory!Declarations(d, s) = Boards!Declarations(d, s)
    BY <2>1 DEF Theory!Declarations, Boards!Declarations
  <2>3. \A s : Theory!IsKnown(s) <=> Boards!IsKnown(s)
    BY DEF Theory!IsKnown, Boards!IsKnown, Theory!Known, Boards!Known
  <2>4. \A s : Theory!Replaces(d, s) <=> Boards!Replaces(d, s)
    BY <2>2, <2>3 DEF Theory!Replaces, Boards!Replaces, Theory!Recognized, Boards!Recognized
  <2>5. \A s : Theory!KindFor(d, s) = Boards!KindFor(d, s)
    <3>1. \A D : Theory!KindOf(D) = Boards!KindOf(D)
      BY DEF Theory!KindOf, Boards!KindOf
    <3> QED
      BY <2>2, <3>1 DEF Theory!KindFor, Boards!KindFor
  <2>6. \A s : Theory!TemplatedSource(d, s) = Boards!TemplatedSource(d, s)
    <3>1. \A k : Theory!Replacement(k) = Boards!Replacement(k)
      BY DEF Theory!Replacement, Boards!Replacement
    <3>2. \A s, n : Theory!On(s, n) = Boards!On(s, n)
      BY DEF Theory!On, Boards!On
    <3> QED
      BY <2>4, <2>5, <3>1, <3>2 DEF Theory!TemplatedSource, Boards!TemplatedSource
  <2>7. \A p : Theory!TemplatedPanel(d, p) = Boards!TemplatedPanel(d, p)
    BY <2>6 DEF Theory!TemplatedPanel, Boards!TemplatedPanel
  <2>8. Theory!Used(d) = Boards!Used(d)
    BY <2>4 DEF Theory!Used, Boards!Used
  <2>9. Theory!Kept(d, Theory!Stubbed(d)) = Boards!Kept(d, Boards!Stubbed(d))
    BY <2>8 DEF Theory!Kept, Boards!Kept, Theory!Stubbed, Boards!Stubbed, Theory!Ours, Boards!Ours,
       Theory!DatasourceDropdowns, Boards!DatasourceDropdowns, Theory!TopologyDropdowns,
       Boards!TopologyDropdowns, Theory!Names, Boards!Names
  <2>10. {Theory!TemplatedPanel(d, p) : p \in d.panels} = {Boards!TemplatedPanel(d, p) : p \in d.panels}
    BY <2>7
  <2>11. Theory!Converted(d) = Boards!Converted(d)
    BY <2>9, <2>10 DEF Theory!Converted, Boards!Converted
  <2> QED
    BY <2>3, <2>11, Zenon DEF Theory!Rendered, Boards!Rendered, Theory!Injected, Boards!Injected
<1>4. Theory!Sound(Boards!Rendered(d)) <=> Boards!Sound(Boards!Rendered(d))
  BY DEF Boards!Sound, Boards!Names, Boards!BuiltIn, Boards!TopologyDropdowns,
         Boards!Ours, Theory!Sound, Theory!Names, Theory!BuiltIn,
         Theory!TopologyDropdowns, Theory!Ours
<1> QED
  BY <1>1, <1>2, <1>3, <1>4, Theory!RenderedIsSound

-------------------------------------------------------------------------------

\* The dashboards a unit of the charm may publish, of versions up to top, and what
\* Grafana makes of them.
Goods(top) ==
  {t \in [dashboard : Boards!Files, unit : Units] :
     Boards!WellFormed(t.dashboard.content) /\ t.dashboard.version <= top}
Renderings(top) == {Boards!Rendering(t) : t \in Goods(top)}

\* What is stored and published is well-formed, because every revision is, and what is
\* rendered and shown was made from that.
DashboardsInv(top) ==
  /\ focus \in Relations
  /\ wanted \in Revisions[focus]
  /\ revision \in [Units -> Revisions[focus]]
  /\ here \subseteq Units
  /\ stored \in [Units -> SUBSET Goods(top)]
  /\ dashboardsApp \subseteq Goods(top)
  /\ rendered \subseteq Renderings(top)
  /\ shown \in [Grafanas -> SUBSET Renderings(top)]

Bounded(top) ==
  \A r \in Relations : \A v \in Revisions[r] : \A d \in v.dashboards : d.version <= top

LEMMA RenderingFields ==
  ASSUME NEW top \in Nat, NEW t \in Goods(top)
  PROVE  /\ Boards!Rendering(t).dashboard.content = Boards!Rendered(t.dashboard.content)
         /\ Boards!Rendering(t).dashboard.version = t.dashboard.version
BY DEF Goods, Boards!Rendering, Boards!Files

\* Of the dashboards of one uid the one shown is one of them, of the highest version.
LEMMA NewestIs ==
  ASSUME NEW top \in Nat, NEW T \in SUBSET Renderings(top), T # {}
  PROVE  /\ Boards!Newest(T) \in T
         /\ \A s \in T : s.dashboard.version <= Boards!Newest(T).dashboard.version
<1> DEFINE Version(t) == t.dashboard.version
           D == {top - Version(t) : t \in T}
<1>1. \A t \in T : Version(t) \in Nat /\ Version(t) <= top
  <2> SUFFICES ASSUME NEW t \in T
               PROVE  Version(t) \in Nat /\ Version(t) <= top
    OBVIOUS
  <2>1. PICK g \in Goods(top) : t = Boards!Rendering(g)
    BY DEF Renderings
  <2>2. g.dashboard.version \in Nat /\ g.dashboard.version <= top
    BY DEF Goods, Boards!Files
  <2> QED
    BY <2>1, <2>2, RenderingFields
<1>2. D \in SUBSET Nat /\ D # {}
  BY <1>1
<1>3. PICK n \in D : \A m \in D : n <= m
  <2> HIDE DEF D
  <2> DEFINE Less == OpToRel(<, Nat)
  <2>1. IsWellFoundedOn(Less, Nat)
    BY NatLessThanWellFounded
  <2>2. \A m, n \in Nat : <<m, n>> \in Less <=> m < n
    BY DEF OpToRel
  <2> HIDE DEF Less
  <2>3. PICK n \in D : \A m \in D : <<m, n>> \notin Less
    BY <1>2, <2>1, WFMin
  <2>4. \A m \in D : ~(m < n)
    BY <1>2, <2>2, <2>3
  <2> QED
    BY <1>2, <2>4
<1>4. PICK t \in T : n = top - Version(t)
  OBVIOUS
<1>5. ASSUME NEW s \in T
      PROVE  Version(s) <= Version(t)
  <2>1. top - Version(s) \in D
    OBVIOUS
  <2>2. n <= top - Version(s)
    BY <1>3, <2>1
  <2> HIDE DEF Version, D
  <2> QED
    BY <1>1, <1>4, <2>2
<1> QED
  BY <1>5 DEF Boards!Newest

\* A unit of Grafana shows a part of what is rendered.
LEMMA DeduplicatedPart ==
  ASSUME NEW top \in Nat, NEW S \in SUBSET Renderings(top)
  PROVE  Boards!Deduplicated(S) \subseteq S
<1> SUFFICES ASSUME NEW s \in S
             PROVE  Boards!Newest({t \in S : t.dashboard.uid = s.dashboard.uid}) \in S
  BY DEF Boards!Deduplicated
<1> DEFINE T == {t \in S : t.dashboard.uid = s.dashboard.uid}
<1>1. T \in SUBSET Renderings(top) /\ T # {} /\ T \subseteq S
  OBVIOUS
<1> HIDE DEF T
<1>2. Boards!Newest(T) \in T
  BY <1>1, NewestIs
<1> QED
  BY <1>1, <1>2 DEF T

LEMMA LoadedAreGood ==
  ASSUME NEW top \in Nat, Bounded(top), DashboardsInv(top), NEW u \in Units
  PROVE  Boards!LoadDashboards(u) \subseteq Goods(top)
<1>1. revision[u] \in Revisions[focus] /\ focus \in Relations
  BY DEF DashboardsInv
<1> SUFFICES ASSUME NEW d \in revision[u].dashboards
             PROVE  [dashboard |-> Boards!WithUid(d), unit |-> u] \in Goods(top)
  BY DEF Boards!LoadDashboards
<1>2. d \in Boards!Files /\ Boards!WellFormed(d.content) /\ d.version <= top
  BY <1>1, RevisionsAssumption DEF Bounded
<1>3. /\ Boards!WithUid(d) \in Boards!Files
      /\ Boards!WithUid(d).content = d.content
      /\ Boards!WithUid(d).version = d.version
  BY <1>2 DEF Boards!WithUid, Boards!Files
<1> QED
  BY <1>2, <1>3 DEF Goods

-------------------------------------------------------------------------------

LEMMA DashboardsInit ==
  ASSUME NEW top \in Nat, Init
  PROVE  DashboardsInv(top)
BY DEF Init, Boards!Init, DashboardsInv

LEMMA BoardsUnchanged ==
  ASSUME NEW top \in Nat, DashboardsInv(top), UNCHANGED boards,
         UNCHANGED <<focus, wanted, revision, here>>
  PROVE  DashboardsInv(top)'
BY DEF boards, DashboardsInv

\* A hook of a unit of the charm: it stores and publishes what its revision ships.
LEMMA UpdateStep ==
  ASSUME NEW top \in Nat, Bounded(top), DashboardsInv(top), NEW u \in Units,
         Boards!UpdateAllDashboards(u)
  PROVE  /\ stored' \in [Units -> SUBSET Goods(top)]
         /\ dashboardsApp' \subseteq Goods(top)
<1>1. stored' \in [Units -> SUBSET Goods(top)]
  BY LoadedAreGood DEF Boards!UpdateAllDashboards, DashboardsInv
<1>2. dashboardsApp' \subseteq Goods(top)
  BY <1>1 DEF Boards!UpdateAllDashboards, Boards!Upset, DashboardsInv
<1> QED
  BY <1>1, <1>2

\* Grafana shows a part of what it rendered.
LEMMA LoadStep ==
  ASSUME NEW top \in Nat, DashboardsInv(top), NEW g \in Grafanas,
         rendered' \subseteq Renderings(top), Boards!Load(g)
  PROVE  shown' \in [Grafanas -> SUBSET Renderings(top)]
BY DeduplicatedPart DEF Boards!Load, DashboardsInv

LEMMA DashboardsHook ==
  ASSUME NEW top \in Nat, Bounded(top), DashboardsInv(top), Boards!Hooks,
         UNCHANGED <<focus, wanted, revision, here>>
  PROVE  DashboardsInv(top)'
<1>1. CASE \E u \in here : Boards!RelationCreated(u)
  <2>1. PICK u \in here : Boards!RelationCreated(u)
    BY <1>1
  <2>2. u \in Units
    BY DEF DashboardsInv
  <2>3. stored' \in [Units -> SUBSET Goods(top)] /\ dashboardsApp' \subseteq Goods(top)
    BY <2>1, <2>2, UpdateStep DEF Boards!RelationCreated, DashboardsInv
  <2> QED
    BY <2>1, <2>3 DEF Boards!RelationCreated, DashboardsInv
<1>2. ASSUME NEW g \in Grafanas, Boards!GrafanaChanged(g)
      PROVE  DashboardsInv(top)'
  <2>1. rendered' \subseteq Renderings(top)
    BY <1>2 DEF Boards!GrafanaChanged, DashboardsInv, Renderings
  <2>2. shown' \in [Grafanas -> SUBSET Renderings(top)]
    BY <1>2, <2>1, LoadStep DEF Boards!GrafanaChanged, DashboardsInv
  <2> QED
    BY <1>2, <2>1, <2>2 DEF Boards!GrafanaChanged, DashboardsInv
<1>3. ASSUME NEW g \in Grafanas, Boards!GrafanaPeerChanged(g)
      PROVE  DashboardsInv(top)'
  <2>1. Boards!Deduplicated(rendered) \subseteq Renderings(top)
    BY DeduplicatedPart DEF DashboardsInv
  <2>2. shown' \in [Grafanas -> SUBSET Renderings(top)]
    BY <1>3, <2>1 DEF Boards!GrafanaPeerChanged, DashboardsInv
  <2> QED
    BY <1>3, <2>2 DEF Boards!GrafanaPeerChanged, DashboardsInv
<1>4. ASSUME NEW g \in Grafanas, Boards!GrafanaBroken(g)
      PROVE  DashboardsInv(top)'
  <2>1. rendered' \subseteq Renderings(top)
    BY <1>4 DEF Boards!GrafanaBroken, DashboardsInv
  <2>2. shown' \in [Grafanas -> SUBSET Renderings(top)]
    BY <1>4, <2>1, LoadStep DEF Boards!GrafanaBroken, DashboardsInv
  <2> QED
    BY <1>4, <2>1, <2>2 DEF Boards!GrafanaBroken, DashboardsInv
<1> QED
  BY <1>1, <1>2, <1>3, <1>4 DEF Boards!Hooks

\* The units of the charm and what they run change.
LEMMA DashboardsUnits ==
  ASSUME NEW top \in Nat, DashboardsInv(top), NEW u \in Units, UNCHANGED <<focus, wanted>>,
         PodReplaced(u) \/ UnitArrives(u) \/ UnitDeparts(u)
  PROVE  DashboardsInv(top)'
<1>1. revision' \in [Units -> Revisions[focus]] /\ here' \subseteq Units
  BY DEF PodReplaced, UnitArrives, UnitDeparts, DashboardsInv
<1>2. stored' \in [Units -> SUBSET Goods(top)]
  BY DEF PodReplaced, UnitArrives, UnitDeparts, Boards!PodMoves, Boards!UnitArrives,
         Boards!UnitDeparts, DashboardsInv
<1>3. UNCHANGED <<dashboardsApp, rendered, shown>>
  BY DEF PodReplaced, UnitArrives, UnitDeparts, Boards!PodMoves, Boards!UnitArrives,
         Boards!UnitDeparts
<1> QED
  BY <1>1, <1>2, <1>3 DEF DashboardsInv

LEMMA DashboardsStep ==
  ASSUME NEW top \in Nat, Bounded(top), DashboardsInv(top), [Next]_vars
  PROVE  DashboardsInv(top)'
<1>1. ASSUME NEW u \in here, NEW e \in CharmEvents \cup {"update_status"}, CharmHook(u, e)
      PROVE  DashboardsInv(top)'
  <2>1. Boards!CharmEvent(u, e) /\ UNCHANGED <<focus, wanted, revision, here>>
    BY <1>1 DEF CharmHook
  <2>2. u \in Units
    BY DEF DashboardsInv
  <2>3. stored' \in [Units -> SUBSET Goods(top)] /\ dashboardsApp' \subseteq Goods(top)
    BY <2>1, <2>2, UpdateStep DEF Boards!CharmEvent, DashboardsInv
  <2> QED
    BY <2>1, <2>3 DEF Boards!CharmEvent, DashboardsInv
<1>2. CASE RelationHook
  <2>1. UNCHANGED <<focus, wanted, revision, here>>
    BY <1>2 DEF RelationHook, charm
  <2> QED
    BY <1>2, <2>1, DashboardsHook, BoardsUnchanged DEF RelationHook
<1>3. CASE Integrate
  BY <1>3, BoardsUnchanged DEF Integrate, charm, Boards!Relate, DashboardsInv
<1>4. CASE RelationEdit
  BY <1>4, BoardsUnchanged DEF RelationEdit, Boards!Remove, DashboardsInv
<1>5. ASSUME NEW u \in Units, Elect(u)
      PROVE  DashboardsInv(top)'
  BY <1>5, BoardsUnchanged DEF Elect
<1>6. ASSUME NEW u \in Units, PodReplaced(u) \/ UnitArrives(u) \/ UnitDeparts(u)
      PROVE  DashboardsInv(top)'
  BY <1>6, DashboardsUnits DEF PodReplaced, UnitArrives, UnitDeparts
<1>7. ASSUME NEW r \in Revisions[focus], Refresh(r)
      PROVE  DashboardsInv(top)'
  BY <1>7 DEF Refresh, boards, DashboardsInv
<1>8. CASE UNCHANGED vars
  BY <1>8, BoardsUnchanged DEF vars, charm
<1> QED
  BY <1>1, <1>2, <1>3, <1>4, <1>5, <1>6, <1>7, <1>8 DEF Next

LEMMA ShownSound ==
  ASSUME NEW top \in Nat, DashboardsInv(top)
  PROVE  ShownResolve
<1> SUFFICES ASSUME NEW g \in Grafanas, NEW t \in shown[g]
             PROVE  Boards!Sound(t.dashboard.content)
  BY DEF ShownResolve, Boards!ShownResolve
<1>1. PICK s \in Goods(top) : t = Boards!Rendering(s)
  BY DEF DashboardsInv, Renderings
<1>2. s.dashboard.content \in Boards!Contents /\ Boards!WellFormed(s.dashboard.content)
  BY DEF Goods, Boards!Files
<1> QED
  BY <1>1, <1>2, RenderingFields, RenderedSound

\* Whatever the charm publishes and whoever leads on either side, a unit of Grafana only
\* shows dashboards whose panels and queries resolve
\* (_render_dashboards_and_signal_changed, dashboards), if versions have a bound.
THEOREM DashboardsResolve ==
  ASSUME NEW top \in Nat, Bounded(top)
  PROVE  Spec => []ShownResolve
<1>1. Init => DashboardsInv(top)
  BY DashboardsInit
<1>2. DashboardsInv(top) /\ [Next]_vars => DashboardsInv(top)'
  BY DashboardsStep
<1>3. DashboardsInv(top) => ShownResolve
  BY ShownSound
<1> QED
  BY <1>1, <1>2, <1>3, PTL DEF Spec

-------------------------------------------------------------------------------

\* The unit of Grafana that leads.
LeadG == CHOOSE g \in Grafanas : TRUE

BoardsTyped ==
  /\ Boards!TypeOK
  /\ DOMAIN stored = Units /\ DOMAIN shown = Grafanas

\* What the leader ships is published, or a hook of the leader is to come that does.
Sent ==
  \/ dashboardsApp = Boards!LoadDashboards(leader)
  \/ due[leader] # {}
  \/ "created" \in dashboardsEvents[leader]

RenderedFrom(dashboards) ==
  IF Boards!Renders(dashboards) THEN {Boards!Rendering(t) : t \in dashboards} ELSE {}

\* The leader of Grafana has rendered what is published, or is to hear of it.
Drawn ==
  /\ relation = "made" =>
       \/ "changed" \in grafanaEvents[LeadG]
       \/ /\ dashboardsError <=> ~Boards!Renders(dashboardsApp)
          /\ rendered = RenderedFrom(dashboardsApp)
  /\ relation # "made" => rendered = {} \/ "broken" \in grafanaEvents[LeadG]

\* Nothing is left of a relation that is not there but what Grafana has rendered.
Gone ==
  /\ relation # "made" =>
       /\ dashboardsApp = {} /\ dashboardsError = FALSE
       /\ \A u \in Units : dashboardsEvents[u] = {}
       /\ \A g \in Grafanas : "changed" \notin grafanaEvents[g]
  /\ \A g \in Grafanas : "broken" \in grafanaEvents[g] => relation = "broken"

Loaded(g) ==
  (g # LeadG /\ "peer_changed" \in grafanaEvents[g]) \/ shown[g] = Boards!Deduplicated(rendered)

BoardsInv ==
  /\ BoardsTyped
  /\ relation = "made" => Sent
  /\ Drawn
  /\ Gone
  /\ \A g \in Grafanas : Loaded(g)

LEMMA BoardsInit == Init => BoardsInv
<1> SUFFICES ASSUME Init
             PROVE  BoardsInv
  OBVIOUS
<1>1. Boards!Init
  BY DEF Init
<1>2. Boards!Deduplicated({}) = {}
  BY DEF Boards!Deduplicated
<1>3. BoardsTyped
  BY <1>1 DEF BoardsTyped, Boards!Init, Boards!TypeOK
<1>4. Drawn /\ Gone
  BY <1>1 DEF Drawn, Gone, Boards!Init
<1>5. \A g \in Grafanas : Loaded(g)
  BY <1>1, <1>2 DEF Loaded, Boards!Init
<1> QED
  BY <1>1, <1>3, <1>4, <1>5 DEF BoardsInv, Boards!Init

\* What a hook does that stores what the revision of u ships.
LEMMA Updates ==
  ASSUME CharmInv, BoardsInv, NEW u \in here, Boards!UpdateAllDashboards(u)
  PROVE  /\ stored' = [stored EXCEPT ![u] = Boards!LoadDashboards(u)]
         /\ u = leader /\ relation = "made" => dashboardsApp' = Boards!LoadDashboards(leader)
         /\ u # leader \/ relation # "made" => UNCHANGED <<dashboardsApp, grafanaEvents>>
         /\ \/ UNCHANGED <<dashboardsApp, grafanaEvents>>
            \/ grafanaEvents' = [g \in Grafanas |-> grafanaEvents[g] \cup {"changed"}]
<1>1. stored' = [stored EXCEPT ![u] = Boards!LoadDashboards(u)]
  BY DEF Boards!UpdateAllDashboards
<1>2. stored'[u] = Boards!LoadDashboards(u)
  BY <1>1 DEF BoardsInv, BoardsTyped, CharmInv
<1> QED
  BY <1>1, <1>2 DEF Boards!UpdateAllDashboards, Boards!Upset

LEMMA LoadedUnits ==
  ASSUME NEW u
  PROVE  Boards!LoadDashboards(u) = {} \/ {t.unit : t \in Boards!LoadDashboards(u)} = {u}
BY DEF Boards!LoadDashboards

LEMMA ProviderStep ==
  ASSUME CharmInv, BoardsInv, NEW u \in here,
         UNCHANGED <<leader, revision, relation, rendered, dashboardsError, shown>>,
         Boards!UpdateAllDashboards(u) \/ UNCHANGED <<stored, dashboardsApp, grafanaEvents>>,
         dashboardsEvents' \in [Units -> SUBSET {"created"}],
         \A v \in Units : dashboardsEvents'[v] \subseteq dashboardsEvents[v],
         relation = "made" =>
           \/ u = leader /\ Boards!UpdateAllDashboards(u)
           \/ due'[leader] # {}
           \/ due'[leader] = due[leader] /\ dashboardsEvents'[leader] = dashboardsEvents[leader]
              /\ UNCHANGED dashboardsApp
  PROVE  BoardsInv'
<1>1. u \in Units /\ leader \in Units
  BY DEF CharmInv
<1> DEFINE Load == Boards!LoadDashboards(u)
<1>2. \/ UNCHANGED <<stored, dashboardsApp, grafanaEvents>>
      \/ /\ stored' = [stored EXCEPT ![u] = Load]
         /\ \/ UNCHANGED <<dashboardsApp, grafanaEvents>>
            \/ /\ dashboardsApp' = Load
               /\ grafanaEvents' = [g \in Grafanas |-> grafanaEvents[g] \cup {"changed"}]
               /\ relation = "made"
  BY Updates
<1>3. Load = {} \/ {t.unit : t \in Load} = {u}
  BY LoadedUnits
<1> HIDE DEF Load
<1>4. BoardsTyped'
  <2>1. DOMAIN stored' = Units
    BY <1>2 DEF BoardsInv, BoardsTyped
  <2>2. \A v \in Units : stored'[v] = {} \/ {t.unit : t \in stored'[v]} = {v}
    <3> SUFFICES ASSUME NEW v \in Units
                 PROVE  stored'[v] = {} \/ {t.unit : t \in stored'[v]} = {v}
      OBVIOUS
    <3>1. stored'[v] = stored[v] \/ (v = u /\ stored'[v] = Load)
      BY <1>2 DEF BoardsInv, BoardsTyped
    <3>2. stored[v] = {} \/ {t.unit : t \in stored[v]} = {v}
      BY DEF BoardsInv, BoardsTyped, Boards!TypeOK
    <3> QED
      BY <1>3, <3>1, <3>2
  <2>3. {t.unit : t \in dashboardsApp'} \subseteq Units
    <3>1. dashboardsApp' = dashboardsApp \/ dashboardsApp' = Load
      BY <1>2
    <3>2. {t.unit : t \in dashboardsApp} \subseteq Units
      BY DEF BoardsInv, BoardsTyped, Boards!TypeOK
    <3>3. {t.unit : t \in Load} \subseteq Units
      BY <1>1, <1>3
    <3> QED
      BY <3>1, <3>2, <3>3
  <2>4. grafanaEvents' \in [Grafanas -> SUBSET {"changed", "peer_changed", "broken"}]
    BY <1>2 DEF BoardsInv, BoardsTyped, Boards!TypeOK
  <2> QED
    BY <2>1, <2>2, <2>3, <2>4 DEF BoardsInv, BoardsTyped, Boards!TypeOK
<1>5. relation = "made" => Sent'
  <2>1. \A v : Boards!LoadDashboards(v)' = Boards!LoadDashboards(v)
    BY DEF Boards!LoadDashboards
  <2>2. u = leader /\ relation = "made" /\ Boards!UpdateAllDashboards(u) =>
          dashboardsApp' = Boards!LoadDashboards(leader)
    BY Updates
  <2> QED
    BY <2>1, <2>2 DEF BoardsInv, Sent
<1>6. Drawn' /\ Gone'
  <2>1. LeadG' = LeadG /\ LeadG \in Grafanas
    BY OthersAssumption DEF LeadG
  <2>2. CASE UNCHANGED <<dashboardsApp, grafanaEvents>>
    BY <2>1, <2>2, <1>1 DEF BoardsInv, Drawn, Gone, RenderedFrom, Boards!Renders, Boards!Rendering,
       Boards!Rendered
  <2>3. CASE relation = "made" /\ grafanaEvents' = [g \in Grafanas |-> grafanaEvents[g] \cup {"changed"}]
    BY <2>1, <2>3 DEF BoardsInv, Drawn, Gone
  <2> QED
    BY <1>2, <2>2, <2>3
<1>7. \A g \in Grafanas : Loaded(g)'
  <2>1. \A g \in Grafanas : grafanaEvents[g] \subseteq grafanaEvents'[g]
    BY <1>2
  <2> QED
    BY <2>1 DEF BoardsInv, Loaded, LeadG
<1> QED
  BY <1>4, <1>5, <1>6, <1>7 DEF BoardsInv

-------------------------------------------------------------------------------

\* A unit of Grafana that has nothing but events to strike out.
LEMMA StruckStep ==
  ASSUME CharmInv, BoardsInv, UNCHANGED charm,
         UNCHANGED <<relation, stored, dashboardsApp, dashboardsEvents, rendered>>, NEW g \in Grafanas, NEW done \in SUBSET {"changed", "peer_changed", "broken"},
         grafanaEvents' = [grafanaEvents EXCEPT ![g] = @ \ done],
         \/ UNCHANGED shown /\ (g = LeadG \/ "peer_changed" \notin done)
         \/ g # LeadG /\ shown' = [shown EXCEPT ![g] = Boards!Deduplicated(rendered)],
         dashboardsError' \in BOOLEAN,
         UNCHANGED dashboardsError \/ (g = LeadG /\ "changed" \in done /\ relation = "made"),
         g = LeadG /\ "changed" \in done /\ relation = "made" =>
           /\ dashboardsError' <=> ~Boards!Renders(dashboardsApp)
           /\ rendered = RenderedFrom(dashboardsApp),
         g = LeadG /\ "broken" \in done => rendered = {} \/ relation = "made"
  PROVE  BoardsInv'
<1>1. \A h \in Grafanas : grafanaEvents'[h] = IF h = g THEN grafanaEvents[h] \ done ELSE grafanaEvents[h]
  BY DEF BoardsInv, BoardsTyped, Boards!TypeOK
<1>2. LeadG' = LeadG /\ LeadG \in Grafanas
  BY OthersAssumption DEF LeadG
<1>3. BoardsTyped'
  BY DEF BoardsInv, BoardsTyped, Boards!TypeOK
<1>4. relation = "made" => Sent'
  BY DEF charm, BoardsInv, Sent, Boards!LoadDashboards
<1>5. Drawn'
  BY <1>1, <1>2 DEF BoardsInv, Drawn, RenderedFrom, Boards!Renders, Boards!Rendering, Boards!Rendered
<1>6. Gone'
  BY <1>1 DEF BoardsInv, Gone
<1>7. \A h \in Grafanas : Loaded(h)'
  <2> SUFFICES ASSUME NEW h \in Grafanas
               PROVE  Loaded(h)'
    OBVIOUS
  <2>1. CASE h = g
    BY <1>1, <1>2, <2>1 DEF BoardsInv, BoardsTyped, Loaded
  <2>2. CASE h # g
    BY <1>1, <1>2, <2>2 DEF BoardsInv, BoardsTyped, Loaded
  <2> QED
    BY <2>1, <2>2
<1> QED
  BY <1>3, <1>4, <1>5, <1>6, <1>7 DEF BoardsInv

\* The leader of Grafana has rendered anew and its peers are told.
LEMMA RerenderedStep ==
  ASSUME CharmInv, BoardsInv, UNCHANGED charm,
         UNCHANGED <<relation, stored, dashboardsApp, dashboardsEvents>>,
         Boards!Load(LeadG), dashboardsError' \in BOOLEAN,
         relation = "made" =>
           /\ dashboardsError' <=> ~Boards!Renders(dashboardsApp)
           /\ rendered' = RenderedFrom(dashboardsApp),
         relation # "made" => rendered' = {} /\ UNCHANGED dashboardsError
  PROVE  BoardsInv'
<1>1. LeadG' = LeadG /\ LeadG \in Grafanas
  BY OthersAssumption DEF LeadG
<1>2. /\ grafanaEvents' \in [Grafanas -> SUBSET {"changed", "peer_changed", "broken"}]
      /\ \A h \in Grafanas : grafanaEvents'[h] =
           (IF h = LeadG THEN grafanaEvents[h] \ {"changed", "broken"} ELSE grafanaEvents[h])
           \cup (IF h # LeadG /\ rendered' # rendered THEN {"peer_changed"} ELSE {})
  BY DEF Boards!Load, BoardsInv, BoardsTyped, Boards!TypeOK
<1>3. shown' = [shown EXCEPT ![LeadG] = Boards!Deduplicated(rendered')]
  BY DEF Boards!Load
<1>4. BoardsTyped'
  BY <1>2, <1>3 DEF BoardsInv, BoardsTyped, Boards!TypeOK
<1>5. relation = "made" => Sent'
  BY DEF charm, BoardsInv, Sent, Boards!LoadDashboards
<1>6. Drawn'
  BY <1>1 DEF Drawn, RenderedFrom, Boards!Renders, Boards!Rendering, Boards!Rendered
<1>7. Gone'
  BY <1>2 DEF BoardsInv, Gone
<1>8. \A h \in Grafanas : Loaded(h)'
  <2> SUFFICES ASSUME NEW h \in Grafanas
               PROVE  Loaded(h)'
    OBVIOUS
  <2>1. CASE h = LeadG
    BY <1>1, <1>3, <2>1 DEF BoardsInv, BoardsTyped, Loaded
  <2>2. CASE h # LeadG
    BY <1>1, <1>2, <1>3, <2>2 DEF BoardsInv, BoardsTyped, Loaded
  <2> QED
    BY <2>1, <2>2
<1> QED
  BY <1>4, <1>5, <1>6, <1>7, <1>8 DEF BoardsInv

LEMMA GrafanaStep ==
  ASSUME CharmInv, BoardsInv, UNCHANGED charm, NEW g \in Grafanas,
         Boards!GrafanaChanged(g) \/ Boards!GrafanaPeerChanged(g) \/ Boards!GrafanaBroken(g)
  PROVE  BoardsInv'
<1>1. CASE Boards!GrafanaChanged(g)
  <2>1. /\ relation = "made"
        /\ UNCHANGED <<relation, stored, dashboardsApp, dashboardsEvents>>
    BY <1>1 DEF Boards!GrafanaChanged
  <2>2. CASE g # LeadG
    <3>1. grafanaEvents' = [grafanaEvents EXCEPT ![g] = @ \ {"changed"}]
          /\ UNCHANGED <<rendered, dashboardsError, shown>>
      BY <1>1, <2>2 DEF Boards!GrafanaChanged, LeadG
    <3>2. dashboardsError' \in BOOLEAN
      BY <3>1 DEF BoardsInv, BoardsTyped, Boards!TypeOK
    <3> QED
      BY <2>1, <2>2, <3>1, <3>2, StruckStep
  <2>3. CASE g = LeadG
    <3>1. /\ dashboardsError' = ~Boards!Renders(dashboardsApp)
          /\ rendered' = RenderedFrom(dashboardsApp)
      BY <1>1, <2>3 DEF Boards!GrafanaChanged, LeadG, RenderedFrom
    <3>2. CASE rendered' = rendered /\ Boards!Renders(dashboardsApp)
      <4>1. /\ grafanaEvents' = [grafanaEvents EXCEPT ![g] = @ \ {"changed"}]
            /\ UNCHANGED shown
        BY <1>1, <2>3, <3>2 DEF Boards!GrafanaChanged, LeadG
      <4>2. dashboardsError' \in BOOLEAN
        BY <3>1, <3>2
      <4>3. rendered = RenderedFrom(dashboardsApp) /\ UNCHANGED rendered
        BY <3>1, <3>2
      <4> QED
        BY <2>1, <2>3, <3>1, <4>1, <4>2, <4>3, StruckStep
    <3>3. CASE ~(rendered' = rendered /\ Boards!Renders(dashboardsApp))
      <4>1. Boards!Load(LeadG)
        BY <1>1, <2>3, <3>3 DEF Boards!GrafanaChanged, LeadG
      <4>2. dashboardsError' \in BOOLEAN
        BY <3>1 DEF Boards!Renders
      <4> QED
        BY <2>1, <3>1, <4>1, <4>2, RerenderedStep
    <3> QED
      BY <3>2, <3>3
  <2> QED
    BY <2>2, <2>3
<1>2. CASE Boards!GrafanaPeerChanged(g)
  <2>1. /\ grafanaEvents' = [grafanaEvents EXCEPT ![g] = @ \ {"peer_changed"}]
        /\ shown' = IF g = LeadG THEN shown ELSE [shown EXCEPT ![g] = Boards!Deduplicated(rendered)]
        /\ UNCHANGED <<relation, stored, dashboardsApp, dashboardsEvents, rendered, dashboardsError>>
    BY <1>2 DEF Boards!GrafanaPeerChanged, LeadG
  <2>2. dashboardsError' \in BOOLEAN
    BY <2>1 DEF BoardsInv, BoardsTyped, Boards!TypeOK
  <2> QED
    BY <2>1, <2>2, StruckStep
<1>3. CASE Boards!GrafanaBroken(g)
  <2>1. /\ relation = "broken"
        /\ UNCHANGED <<relation, stored, dashboardsApp, dashboardsEvents, dashboardsError>>
    BY <1>3 DEF Boards!GrafanaBroken, BoardsInv, Gone
  <2>2. CASE g = LeadG /\ rendered # {}
    <3>1. rendered' = {} /\ Boards!Load(LeadG)
      BY <1>3, <2>2 DEF Boards!GrafanaBroken, LeadG
    <3>2. dashboardsError' \in BOOLEAN
      BY <2>1 DEF BoardsInv, BoardsTyped, Boards!TypeOK
    <3> QED
      BY <2>1, <3>1, <3>2, RerenderedStep
  <2>3. CASE ~(g = LeadG /\ rendered # {})
    <3>1. /\ grafanaEvents' = [grafanaEvents EXCEPT ![g] = @ \ {"broken"}]
          /\ UNCHANGED <<rendered, shown>>
      BY <1>3, <2>3 DEF Boards!GrafanaBroken, LeadG
    <3>2. dashboardsError' \in BOOLEAN
      BY <2>1 DEF BoardsInv, BoardsTyped, Boards!TypeOK
    <3> QED
      BY <2>1, <2>3, <3>1, <3>2, StruckStep
  <2> QED
    BY <2>2, <2>3
<1> QED
  BY <1>1, <1>2, <1>3

\* The relation is made or removed.
LEMMA RelationStep ==
  ASSUME CharmInv, BoardsInv, UNCHANGED <<leader, here, revision, due>>,
         Boards!Relate \/ Boards!Remove
  PROVE  BoardsInv'
<1>1. LeadG' = LeadG /\ LeadG \in Grafanas /\ leader \in here
  BY OthersAssumption DEF LeadG, CharmInv
<1>2. CASE Boards!Relate
  <2>1. UNCHANGED <<stored, dashboardsApp, grafanaEvents, rendered, dashboardsError, shown>>
        /\ relation = "none" /\ relation' = "made"
        /\ dashboardsEvents' = [u \in Units |-> IF u \in here THEN {"created"} ELSE {}]
    BY <1>2 DEF Boards!Relate
  <2>2. BoardsTyped'
    BY <2>1 DEF BoardsInv, BoardsTyped, Boards!TypeOK
  <2>3. Sent'
    BY <1>1, <2>1 DEF Sent, CharmInv
  <2>4. dashboardsApp = {} /\ dashboardsError = FALSE /\ rendered = {}
    BY <1>1, <2>1 DEF BoardsInv, Drawn, Gone
  <2>5. Drawn'
    BY <2>1, <2>4 DEF Drawn, RenderedFrom, Boards!Renders
  <2>6. Gone'
    BY <2>1 DEF BoardsInv, Gone
  <2>7. \A g \in Grafanas : Loaded(g)'
    BY <1>1, <2>1 DEF BoardsInv, Loaded
  <2> QED
    BY <2>2, <2>3, <2>5, <2>6, <2>7 DEF BoardsInv
<1>3. CASE Boards!Remove
  <2>1. /\ UNCHANGED <<stored, rendered, shown>>
        /\ relation = "made" /\ relation' = "broken"
        /\ dashboardsEvents' = [u \in Units |-> {}]
        /\ dashboardsApp' = {} /\ dashboardsError' = FALSE
        /\ grafanaEvents' = [g \in Grafanas |-> (grafanaEvents[g] \ {"changed"}) \cup {"broken"}]
    BY <1>3 DEF Boards!Remove
  <2>2. BoardsTyped'
    BY <2>1 DEF BoardsInv, BoardsTyped, Boards!TypeOK
  <2>3. Drawn' /\ Gone'
    BY <1>1, <2>1 DEF Drawn, Gone
  <2>4. \A g \in Grafanas : Loaded(g)'
    BY <1>1, <2>1 DEF BoardsInv, Loaded
  <2> QED
    BY <2>1, <2>2, <2>3, <2>4 DEF BoardsInv
<1> QED
  BY <1>2, <1>3

\* The lease moves, a pod is replaced, or a unit arrives or departs.
LEMMA UnitsStep ==
  ASSUME CharmInv, BoardsInv,
         UNCHANGED <<relation, dashboardsApp, grafanaEvents, rendered, dashboardsError, shown>>,
         NEW u \in Units,
         UNCHANGED stored \/ stored' = [stored EXCEPT ![u] = {}],
         dashboardsEvents' \in [Units -> SUBSET {"created"}],
         relation # "made" => \A v \in Units : dashboardsEvents'[v] \subseteq dashboardsEvents[v],
         relation = "made" => Sent'
  PROVE  BoardsInv'
<1>1. BoardsTyped'
  <2>1. DOMAIN stored' = Units /\ \A v \in Units : stored'[v] = {} \/ stored'[v] = stored[v]
    BY DEF BoardsInv, BoardsTyped
  <2> QED
    BY <2>1 DEF BoardsInv, BoardsTyped, Boards!TypeOK
<1>2. Drawn'
  BY DEF BoardsInv, Drawn, RenderedFrom, Boards!Renders, Boards!Rendering, Boards!Rendered, LeadG
<1>3. Gone'
  BY DEF BoardsInv, Gone
<1>4. \A g \in Grafanas : Loaded(g)'
  BY DEF BoardsInv, Loaded, LeadG
<1> QED
  BY <1>1, <1>2, <1>3, <1>4 DEF BoardsInv

LEMMA SameLoad ==
  ASSUME NEW u, revision'[u] = revision[u]
  PROVE  Boards!LoadDashboards(u)' = Boards!LoadDashboards(u)
BY DEF Boards!LoadDashboards

LEMMA BoardsStep == CharmInv /\ BoardsInv /\ [Next]_vars => BoardsInv'
<1> SUFFICES ASSUME CharmInv, BoardsInv, [Next]_vars
             PROVE  BoardsInv'
  OBVIOUS
<1>1. leader \in here /\ here \subseteq Units
  BY DEF CharmInv
<1>2. dashboardsEvents \in [Units -> SUBSET {"created"}]
  BY DEF BoardsInv, BoardsTyped, Boards!TypeOK
<1>3. ASSUME UNCHANGED <<leader, due, revision, boards>>
      PROVE  BoardsInv'
  <2>1. relation = "made" => Sent'
    BY <1>3, SameLoad DEF boards, BoardsInv, Sent
  <2> QED
    BY <1>1, <1>2, <1>3, <2>1, UnitsStep DEF boards
<1>4. ASSUME NEW u \in here, NEW e \in CharmEvents \cup {"update_status"}, CharmHook(u, e)
      PROVE  BoardsInv'
  <2>1. /\ Boards!CharmEvent(u, e) /\ UNCHANGED <<leader, here, revision>>
        /\ due' = [due EXCEPT ![u] = @ \ {e}]
    BY <1>4 DEF CharmHook
  <2>2. UNCHANGED <<relation, dashboardsEvents, rendered, dashboardsError, shown>>
        /\ IF e \in CharmEvents THEN Boards!UpdateAllDashboards(u)
           ELSE UNCHANGED <<stored, dashboardsApp, grafanaEvents>>
    BY <2>1 DEF Boards!CharmEvent, CharmEvents
  <2>3. CASE u = leader /\ e \in CharmEvents
    BY <1>2, <2>1, <2>2, <2>3, ProviderStep
  <2>4. CASE u # leader \/ e \notin CharmEvents
    <3>1. due'[leader] = due[leader]
      <4>1. due \in [Units -> SUBSET CharmEvents]
        BY DEF CharmInv
      <4> QED
        BY <1>1, <2>1, <2>4, <4>1
    <3>2. UNCHANGED dashboardsApp
      BY <2>2, <2>4, Updates
    <3> QED
      BY <1>2, <2>1, <2>2, <3>1, <3>2, ProviderStep
  <2> QED
    BY <2>3, <2>4
<1>5. CASE RelationHook
  <2>1. UNCHANGED charm /\ (Boards!Hooks \/ UNCHANGED boards)
    BY <1>5 DEF RelationHook
  <2>2. ASSUME NEW u \in here, Boards!RelationCreated(u)
        PROVE  BoardsInv'
    <3>1. /\ dashboardsEvents' = [dashboardsEvents EXCEPT ![u] = @ \ {"created"}]
          /\ IF u = leader THEN Boards!UpdateAllDashboards(u)
             ELSE UNCHANGED <<stored, dashboardsApp, grafanaEvents>>
          /\ UNCHANGED <<relation, rendered, dashboardsError, shown>>
      BY <2>2 DEF Boards!RelationCreated
    <3>2. dashboardsEvents' \in [Units -> SUBSET {"created"}]
          /\ \A v \in Units : dashboardsEvents'[v] \subseteq dashboardsEvents[v]
      BY <1>2, <3>1
    <3>3. u # leader => dashboardsEvents'[leader] = dashboardsEvents[leader]
      BY <1>1, <1>2, <3>1
    <3> QED
      BY <2>1, <3>1, <3>2, <3>3, ProviderStep DEF charm
  <2> QED
    BY <1>3, <2>1, <2>2, GrafanaStep DEF Boards!Hooks, charm
<1>6. CASE Integrate
  <2>1. UNCHANGED charm /\ (Boards!Relate \/ UNCHANGED boards)
    BY <1>6 DEF Integrate
  <2> QED
    BY <1>3, <2>1, RelationStep DEF charm
<1>7. CASE RelationEdit
  <2>1. UNCHANGED <<leader, here, revision, due>> /\ (Boards!Remove \/ UNCHANGED boards)
    BY <1>7 DEF RelationEdit
  <2> QED
    BY <1>3, <2>1, RelationStep
<1>8. ASSUME NEW u \in Units, Elect(u)
      PROVE  BoardsInv'
  <2>1. leader' = u /\ UNCHANGED boards /\ due' = [due EXCEPT ![u] = @ \cup {"leader_elected"}]
    BY <1>8 DEF Elect
  <2>2. due'[leader'] # {}
    BY <2>1 DEF CharmInv
  <2> QED
    BY <1>2, <2>1, <2>2, UnitsStep DEF boards, Sent
<1>9. ASSUME NEW u \in Units, PodReplaced(u)
      PROVE  BoardsInv'
  <2> DEFINE event == IF revision[u] = wanted THEN "config_changed" ELSE "upgrade_charm"
  <2>1. /\ Boards!PodMoves(u) /\ UNCHANGED leader
        /\ due' = [due EXCEPT ![u] = @ \cup {event}]
        /\ revision' = revision \/ revision' = [revision EXCEPT ![u] = wanted]
    BY <1>9 DEF PodReplaced
  <2> HIDE DEF event
  <2>2. relation = "made" => Sent'
    <3>1. CASE u = leader
      <4>1. due'[leader] # {}
        BY <2>1, <3>1 DEF CharmInv
      <4> QED
        BY <2>1, <4>1 DEF Sent
    <3>2. CASE u # leader
      <4>1. due'[leader] = due[leader] /\ revision'[leader] = revision[leader]
        BY <1>1, <2>1, <3>2 DEF CharmInv
      <4> QED
        BY <2>1, <4>1, SameLoad DEF Sent, Boards!PodMoves, BoardsInv
    <3> QED
      BY <3>1, <3>2
  <2> QED
    BY <1>2, <2>1, <2>2, UnitsStep DEF Boards!PodMoves
<1>10. ASSUME NEW u \in Units, UnitArrives(u)
       PROVE  BoardsInv'
  <2>1. /\ Boards!UnitArrives(u) /\ UNCHANGED leader /\ u # leader
        /\ due' = [due EXCEPT ![u] = {"config_changed"}]
        /\ revision' = [revision EXCEPT ![u] = wanted]
    BY <1>1, <1>10 DEF UnitArrives
  <2>2. due'[leader] = due[leader] /\ revision'[leader] = revision[leader]
    BY <1>1, <2>1 DEF CharmInv
  <2>3. /\ stored' = [stored EXCEPT ![u] = {}]
        /\ dashboardsEvents' = [dashboardsEvents EXCEPT ![u] = IF relation = "made" THEN {"created"} ELSE {}]
        /\ UNCHANGED <<relation, dashboardsApp, grafanaEvents, rendered, dashboardsError, shown>>
    BY <2>1 DEF Boards!UnitArrives
  <2>4. dashboardsEvents'[leader] = dashboardsEvents[leader]
    BY <1>1, <1>2, <2>1, <2>3
  <2>5. relation = "made" => Sent'
    BY <2>1, <2>2, <2>3, <2>4, SameLoad DEF Sent, BoardsInv
  <2>6. dashboardsEvents' \in [Units -> SUBSET {"created"}]
    BY <1>2, <2>3
  <2>7. relation # "made" => \A v \in Units : dashboardsEvents'[v] \subseteq dashboardsEvents[v]
    BY <1>2, <2>3
  <2> QED
    BY <2>3, <2>5, <2>6, <2>7, UnitsStep
<1>11. ASSUME NEW u \in Units, UnitDeparts(u)
       PROVE  BoardsInv'
  <2>1. /\ Boards!UnitDeparts(u) /\ UNCHANGED <<leader, revision>> /\ u # leader
        /\ due' = [due EXCEPT ![u] = {}]
    BY <1>11 DEF UnitDeparts
  <2>2. due'[leader] = due[leader]
    BY <1>1, <2>1 DEF CharmInv
  <2>3. /\ dashboardsEvents' = [dashboardsEvents EXCEPT ![u] = {}]
        /\ UNCHANGED <<relation, stored, dashboardsApp, grafanaEvents, rendered, dashboardsError, shown>>
    BY <2>1 DEF Boards!UnitDeparts
  <2>4. dashboardsEvents'[leader] = dashboardsEvents[leader]
    BY <1>1, <1>2, <2>1, <2>3
  <2>5. relation = "made" => Sent'
    BY <2>1, <2>2, <2>3, <2>4, SameLoad DEF Sent, BoardsInv
  <2>6. dashboardsEvents' \in [Units -> SUBSET {"created"}]
        /\ \A v \in Units : dashboardsEvents'[v] \subseteq dashboardsEvents[v]
    BY <1>2, <2>3
  <2> QED
    BY <2>3, <2>5, <2>6, UnitsStep
<1>12. ASSUME NEW r \in Revisions[focus], Refresh(r)
       PROVE  BoardsInv'
  BY <1>3, <1>12 DEF Refresh
<1>13. CASE UNCHANGED vars
  BY <1>3, <1>13 DEF vars, charm
<1> QED
  BY <1>4, <1>5, <1>6, <1>7, <1>8, <1>9, <1>10, <1>11, <1>12, <1>13 DEF Next

\* When everything is handled, what is published are the dashboards of the revision the
\* leader runs, whoever led when they changed
\* (GrafanaDashboardProvider._update_all_dashboards_from_dir).
THEOREM DashboardsPublished == Spec => []PublishesDashboards
<1>1. CharmInv /\ BoardsInv => PublishesDashboards
  BY DEF CharmInv, BoardsInv, Sent, PublishesDashboards, Boards!PublishesDashboards, Boards!Settled
<1> QED
  BY <1>1, CharmInit, CharmStep, BoardsInit, BoardsStep, PTL DEF Spec

LEMMA RenderingUid ==
  ASSUME NEW top \in Nat, NEW t \in Goods(top)
  PROVE  Boards!Rendering(t).dashboard.uid = t.dashboard.uid
BY DEF Goods, Boards!Rendering, Boards!Files

\* What a unit of Grafana loads from what is rendered.
LEMMA ShownIs ==
  ASSUME NEW top \in Nat, NEW app \in SUBSET Goods(top), NEW set,
         set = Boards!Deduplicated({Boards!Rendering(t) : t \in app})
  PROVE  /\ set \subseteq {Boards!Rendering(t) : t \in app}
         /\ \A t \in app : \E s \in set :
              s.dashboard.uid = t.dashboard.uid /\ s.dashboard.version >= t.dashboard.version
         /\ \A s, t \in set : s.dashboard.uid = t.dashboard.uid => s = t
<1> DEFINE R == {Boards!Rendering(t) : t \in app}
           Of(uid) == {t \in R : t.dashboard.uid = uid}
<1>1. R \subseteq Renderings(top)
  BY DEF Renderings
<1>2. set = {Boards!Newest(Of(uid)) : uid \in {t.dashboard.uid : t \in R}}
  BY DEF Boards!Deduplicated
<1>3. ASSUME NEW r \in R
      PROVE  /\ Boards!Newest(Of(r.dashboard.uid)) \in Of(r.dashboard.uid)
             /\ r.dashboard.version <= Boards!Newest(Of(r.dashboard.uid)).dashboard.version
  <2>1. r \in Of(r.dashboard.uid)
    OBVIOUS
  <2>2. Of(r.dashboard.uid) \in SUBSET Renderings(top)
    BY <1>1
  <2> HIDE DEF R, Of
  <2> QED
    BY <2>1, <2>2, NewestIs
<1>4. \A s \in set : \E r \in R : s = Boards!Newest(Of(r.dashboard.uid))
  BY <1>2
<1>5. \A r \in R : Boards!Newest(Of(r.dashboard.uid)) \in set
  BY <1>2
<1>6. \A r \in R : \A s \in Of(r.dashboard.uid) : s \in R /\ s.dashboard.uid = r.dashboard.uid
  OBVIOUS
<1>7. ASSUME NEW t \in app
      PROVE  /\ Boards!Rendering(t) \in R
             /\ Boards!Rendering(t).dashboard.uid = t.dashboard.uid
             /\ Boards!Rendering(t).dashboard.version = t.dashboard.version
             /\ t.dashboard.version \in Nat
  <2>1. t.dashboard.version \in Nat
    BY DEF Goods, Boards!Files
  <2> QED
    BY <2>1, RenderingUid, RenderingFields
<1>8. set \subseteq R
  <2> HIDE DEF R, Of
  <2> QED
    BY <1>3, <1>4, <1>6
<1>9. ASSUME NEW t \in app
      PROVE  \E s \in set :
              s.dashboard.uid = t.dashboard.uid /\ s.dashboard.version >= t.dashboard.version
  <2> DEFINE s == Boards!Newest(Of(Boards!Rendering(t).dashboard.uid))
  <2>1. s \in set /\ s \in R /\ s.dashboard.uid = t.dashboard.uid
    <3> HIDE DEF R, Of
    <3> QED
      BY <1>3, <1>5, <1>6, <1>7
  <2>2. t.dashboard.version <= s.dashboard.version
    <3> HIDE DEF R, Of
    <3> QED
      BY <1>3, <1>7
  <2>3. s.dashboard.version \in Nat
    <3>1. PICK g \in app : s = Boards!Rendering(g)
      BY <2>1
    <3> HIDE DEF s
    <3> QED
      BY <1>7, <3>1
  <2> HIDE DEF s
  <2> QED
    BY <1>7, <2>1, <2>2, <2>3
<1>10. ASSUME NEW s \in set, NEW t \in set, s.dashboard.uid = t.dashboard.uid
       PROVE  s = t
  <2> HIDE DEF R, Of
  <2>1. PICK r \in R : s = Boards!Newest(Of(r.dashboard.uid))
    BY <1>4
  <2>2. PICK q \in R : t = Boards!Newest(Of(q.dashboard.uid))
    BY <1>4
  <2>3. s.dashboard.uid = r.dashboard.uid /\ t.dashboard.uid = q.dashboard.uid
    BY <1>3, <1>6, <2>1, <2>2
  <2> QED
    BY <1>10, <2>1, <2>2, <2>3
<1> QED
  BY <1>8, <1>9, <1>10

\* When everything is handled, every unit of Grafana shows what is published, for each
\* uid the dashboard of the highest version; none when one of them is invalid, which is
\* then reported, and none of a relation that was removed
\* (GrafanaDashboardConsumer._render_dashboards_and_signal_changed, dashboards).
THEOREM DashboardsShown ==
  ASSUME NEW top \in Nat, Bounded(top)
  PROVE  Spec => []ShowsDashboards
<1>1. ASSUME CharmInv, BoardsInv, DashboardsInv(top)
      PROVE  ShowsDashboards
  <2> SUFFICES ASSUME Boards!Settled
               PROVE  /\ dashboardsError <=> ~Boards!Renders(dashboardsApp)
                      /\ \A g \in Grafanas :
                           IF ~Boards!Renders(dashboardsApp) THEN shown[g] = {}
                           ELSE /\ shown[g] \subseteq {Boards!Rendering(t) : t \in dashboardsApp}
                                /\ \A t \in dashboardsApp : \E s \in shown[g] :
                                     s.dashboard.uid = t.dashboard.uid
                                     /\ s.dashboard.version >= t.dashboard.version
                                /\ \A s, t \in shown[g] : s.dashboard.uid = t.dashboard.uid => s = t
    BY DEF ShowsDashboards, Boards!ShowsDashboards
  <2>1. LeadG \in Grafanas /\ \A g \in Grafanas : grafanaEvents[g] = {}
    BY OthersAssumption DEF LeadG, Boards!Settled
  <2>2. /\ dashboardsError <=> ~Boards!Renders(dashboardsApp)
        /\ rendered = RenderedFrom(dashboardsApp)
    <3>1. CASE relation = "made"
      BY <1>1, <2>1, <3>1 DEF BoardsInv, Drawn
    <3>2. CASE relation # "made"
      <4>1. dashboardsApp = {} /\ dashboardsError = FALSE /\ rendered = {}
        BY <1>1, <2>1, <3>2 DEF BoardsInv, Drawn, Gone
      <4> QED
        BY <4>1 DEF RenderedFrom, Boards!Renders
    <3> QED
      BY <3>1, <3>2
  <2>3. \A g \in Grafanas : shown[g] = Boards!Deduplicated(rendered)
    BY <1>1, <2>1 DEF BoardsInv, Loaded
  <2>4. dashboardsApp \in SUBSET Goods(top)
    BY <1>1 DEF DashboardsInv
  <2>5. CASE ~Boards!Renders(dashboardsApp)
    <3>1. Boards!Deduplicated({}) = {}
      BY DEF Boards!Deduplicated
    <3> QED
      BY <2>2, <2>3, <2>5, <3>1 DEF RenderedFrom
  <2>6. CASE Boards!Renders(dashboardsApp)
    BY <2>2, <2>3, <2>4, <2>6, ShownIs DEF RenderedFrom
  <2> QED
    BY <2>2, <2>5, <2>6
<1>2. Init => DashboardsInv(top)
  BY DashboardsInit
<1>3. DashboardsInv(top) /\ [Next]_vars => DashboardsInv(top)'
  BY DashboardsStep
<1> QED
  BY <1>1, <1>2, <1>3, CharmInit, CharmStep, BoardsInit, BoardsStep, PTL DEF Spec

-------------------------------------------------------------------------------
(* The scrape jobs and the alert rules *)

\* A job before it is told from another of its name.
JobsOf(name, unit, ok, static) ==
  [name: [job: {name}, unit: {unit}, hash: {{}}], ok: {ok}, static: {static}]
Plainly(job) == job \in JobsOf(job.name.job, job.name.unit, job.ok, job.static)

\* A job as a revision ships it.
Shipped(job) == job \in [name: {job.name}, ok: BOOLEAN, static: {job.static}]

LEMMA PrefixedIs ==
  ASSUME NEW job, Shipped(job)
  PROVE  LET prefixed == Metrics!Prefixed(Metrics!Sanitized(job)) IN
         /\ Plainly(prefixed) /\ prefixed.ok = job.ok
         /\ prefixed.static = Metrics!Sanitized(job).static
         /\ prefixed.static = IF job.static = {} THEN {{"*"}} ELSE job.static
<1> DEFINE n == job.name
           k == job.ok
           s == job.static
           t == IF s = {} THEN {{"*"}} ELSE s
<1>1. job \in [name: {n}, ok: {k}, static: {s}]
  BY DEF Shipped
<1> HIDE DEF n, k, s, t
<1>2. job.static = s
  BY DEF s
<1>3. Metrics!Sanitized(job) \in [name: {n}, ok: {k}, static: {t}]
  BY <1>1, <1>2 DEF Metrics!Sanitized, Metrics!Wildcard, t
<1>4. Metrics!Prefixed(Metrics!Sanitized(job)) \in JobsOf(n, None, k, t)
  BY <1>3 DEF Metrics!Prefixed, JobsOf
<1> QED
  BY <1>3, <1>4 DEF Plainly, JobsOf, n, k, s, t

\* An entry of a job is about a unit, at one of the hosts it is known by, or about none.
About(e, hosts) ==
  \/ e.unit = None
  \/ e.unit \in DOMAIN hosts /\ e.targets \subseteq {hosts[e.unit].address, hosts[e.unit].fqdn}

LEMMA PerUnitIs ==
  ASSUME NEW job, Plainly(job), NEW ts, NEW u
  PROVE  /\ Plainly(Metrics!PerUnit(job, ts, u))
         /\ Metrics!PerUnit(job, ts, u).ok = job.ok
         /\ Metrics!PerUnit(job, ts, u).static = {[targets |-> ts, unit |-> u]}
<1> DEFINE n == job.name.job
           k == job.ok
           s == job.static
           q == job.name.unit
           entries == {[targets |-> ts, unit |-> u]}
<1>1. job \in JobsOf(n, q, k, s)
  BY DEF Plainly
<1> HIDE DEF n, k, s, q, entries
<1>2. Metrics!PerUnit(job, ts, u) \in JobsOf(n, u, k, entries)
  BY <1>1 DEF Metrics!PerUnit, JobsOf, entries
<1> QED
  BY <1>2 DEF Plainly, JobsOf, k, entries

LEMMA HostsOf ==
  ASSUME NEW hosts, NEW t, NEW u, u = Metrics!UnitAt(t, hosts), Metrics!UnitsAt(t, hosts) # {}
  PROVE  u \in DOMAIN hosts /\ t \in {hosts[u].address, hosts[u].fqdn}
<1>1. u \in Metrics!UnitsAt(t, hosts)
  BY DEF Metrics!UnitAt
<1> QED
  BY <1>1 DEF Metrics!UnitsAt

LEMMA PerUnitJobsAre ==
  ASSUME NEW job, Plainly(job), NEW ts, NEW hosts, NEW j \in Metrics!PerUnitJobs(job, ts, hosts)
  PROVE  Plainly(j) /\ j.ok = job.ok /\ \A e \in j.static : About(e, hosts)
<1> DEFINE At(u) == {t \in Metrics!Matched(ts, hosts) : Metrics!UnitAt(t, hosts) = u}
<1>1. \/ \E u \in {Metrics!UnitAt(t, hosts) : t \in Metrics!Matched(ts, hosts)} :
           j = Metrics!PerUnit(job, At(u), u)
      \/ \E u \in DOMAIN hosts : j = Metrics!PerUnit(job, {hosts[u].address}, u)
  BY DEF Metrics!PerUnitJobs
<1>2. ASSUME NEW u \in {Metrics!UnitAt(t, hosts) : t \in Metrics!Matched(ts, hosts)},
             j = Metrics!PerUnit(job, At(u), u)
      PROVE  Plainly(j) /\ j.ok = job.ok /\ \A e \in j.static : About(e, hosts)
  <2>1. \A t \in Metrics!Matched(ts, hosts) : Metrics!UnitsAt(t, hosts) # {}
    BY DEF Metrics!Matched
  <2>2. u \in DOMAIN hosts
    BY <2>1, HostsOf
  <2>3. At(u) \subseteq {hosts[u].address, hosts[u].fqdn}
    BY <2>1, HostsOf
  <2> HIDE DEF At
  <2>4. j.static = {[targets |-> At(u), unit |-> u]} /\ Plainly(j) /\ j.ok = job.ok
    BY <1>2, PerUnitIs
  <2> QED
    BY <2>2, <2>3, <2>4 DEF About
<1>3. ASSUME NEW u \in DOMAIN hosts, j = Metrics!PerUnit(job, {hosts[u].address}, u)
      PROVE  Plainly(j) /\ j.ok = job.ok /\ \A e \in j.static : About(e, hosts)
  <2> DEFINE at == {hosts[u].address}
  <2> HIDE DEF at
  <2>1. j = Metrics!PerUnit(job, at, u)
    BY <1>3 DEF at
  <2>2. j.static = {[targets |-> at, unit |-> u]} /\ Plainly(j) /\ j.ok = job.ok
    BY <2>1, PerUnitIs
  <2> QED
    BY <2>2 DEF About, at
<1> QED
  BY <1>1, <1>2, <1>3

LEMMA RestIs ==
  ASSUME NEW job, Plainly(job), NEW hosts, NEW j \in Metrics!Rest(job, hosts)
  PROVE  Plainly(j) /\ j.ok = job.ok /\ \A e \in j.static : About(e, hosts)
<1> DEFINE left == {Metrics!Unmatched(ts, hosts) : ts \in job.static} \ {{}}
           entries == {[targets |-> t, unit |-> None] : t \in left}
           n == job.name.job
           k == job.ok
           s == job.static
           q == job.name.unit
<1>1. j = [job EXCEPT !.static = entries]
  BY DEF Metrics!Rest
<1>2. job \in JobsOf(n, q, k, s)
  BY DEF Plainly
<1>3. \A e \in entries : e.unit = None
  OBVIOUS
<1> HIDE DEF n, k, s, q, entries
<1>4. j \in JobsOf(n, q, k, entries)
  BY <1>1, <1>2 DEF JobsOf
<1> QED
  BY <1>3, <1>4 DEF Plainly, JobsOf, About, k

\* What becomes of one job.
LEMMA ExpandedAre ==
  ASSUME NEW job, Shipped(job), NEW hosts,
         NEW j \in Metrics!Expanded(Metrics!Prefixed(Metrics!Sanitized(job)), hosts)
  PROVE  Plainly(j) /\ j.ok = job.ok /\ \A e \in j.static : About(e, hosts)
<1> DEFINE prefixed == Metrics!Prefixed(Metrics!Sanitized(job))
<1>1. Plainly(prefixed) /\ prefixed.ok = job.ok
  BY PrefixedIs
<1> HIDE DEF prefixed
<1>2. j \in Metrics!Rest(prefixed, hosts) \/
      \E ts \in prefixed.static : j \in Metrics!PerUnitJobs(prefixed, ts, hosts)
  BY DEF Metrics!Expanded, prefixed
<1> QED
  BY <1>1, <1>2, PerUnitJobsAre, RestIs

\* A job for every unit has one for each.
LEMMA ExpandedCovers ==
  ASSUME NEW job, Shipped(job), NEW hosts, NEW u \in DOMAIN hosts,
         NEW ts \in Metrics!Sanitized(job).static, "*" \in ts
  PROVE  \E j \in Metrics!Expanded(Metrics!Prefixed(Metrics!Sanitized(job)), hosts) :
           \E e \in j.static : e.unit = u
<1> DEFINE prefixed == Metrics!Prefixed(Metrics!Sanitized(job))
           at == {hosts[u].address}
           j == Metrics!PerUnit(prefixed, at, u)
<1>1. Plainly(prefixed) /\ ts \in prefixed.static
  BY PrefixedIs
<1> HIDE DEF prefixed
<1>2. j \in Metrics!PerUnitJobs(prefixed, ts, hosts)
  <2>1. j \in {Metrics!PerUnit(prefixed, {hosts[v].address}, v) :
                  v \in IF Metrics!Wildcard \in ts THEN DOMAIN hosts ELSE {}}
    BY Zenon DEF Metrics!Wildcard
  <2> QED
    BY <2>1 DEF Metrics!PerUnitJobs
<1> HIDE DEF at
<1>3. j.static = {[targets |-> at, unit |-> u]}
  BY <1>1, PerUnitIs
<1>4. j \in Metrics!Expanded(prefixed, hosts)
  BY <1>1, <1>2 DEF Metrics!Expanded
<1>5. \E e \in j.static : e.unit = u
  BY <1>3
<1> HIDE DEF j
<1> QED
  BY <1>4, <1>5 DEF prefixed

\* A job with targets does not vanish where there are hosts.
LEMMA ExpandedSome ==
  ASSUME NEW job, Shipped(job), {} \notin job.static, NEW hosts, DOMAIN hosts # {}
  PROVE  Metrics!Expanded(Metrics!Prefixed(Metrics!Sanitized(job)), hosts) # {}
<1> DEFINE prefixed == Metrics!Prefixed(Metrics!Sanitized(job))
<1>1. prefixed.static = IF job.static = {} THEN {{"*"}} ELSE job.static
  BY PrefixedIs
<1>2. prefixed.static # {} /\ {} \notin prefixed.static
  BY <1>1
<1> HIDE DEF prefixed
<1>3. PICK ts \in prefixed.static : ts # {}
  BY <1>2
<1>4. PICK t \in ts : TRUE
  BY <1>3
<1>5. CASE t = "*"
  <2>1. Metrics!PerUnitJobs(prefixed, ts, hosts) # {}
    BY <1>5 DEF Metrics!PerUnitJobs, Metrics!Wildcard
  <2> QED
    BY <2>1 DEF Metrics!Expanded, prefixed
<1>6. CASE t # "*" /\ Metrics!UnitsAt(t, hosts) # {}
  <2>1. t \in Metrics!Matched(ts, hosts)
    BY <1>6 DEF Metrics!Matched, Metrics!Wildcard
  <2>2. Metrics!PerUnitJobs(prefixed, ts, hosts) # {}
    BY <2>1 DEF Metrics!PerUnitJobs
  <2> QED
    BY <2>2 DEF Metrics!Expanded, prefixed
<1>7. CASE t # "*" /\ Metrics!UnitsAt(t, hosts) = {}
  <2>1. t \in Metrics!Unmatched(ts, hosts)
    BY <1>7 DEF Metrics!Unmatched, Metrics!Matched, Metrics!Wildcard
  <2>2. Metrics!Rest(prefixed, hosts) # {}
    BY <2>1 DEF Metrics!Rest
  <2> QED
    BY <2>2 DEF Metrics!Expanded, prefixed
<1> QED
  BY <1>5, <1>6, <1>7

\* No two jobs keep one name; what they scrape stays as it was.
LEMMA DedupedAre ==
  ASSUME NEW jobs, \A j \in jobs : Plainly(j)
  PROVE  /\ \A d \in Metrics!DedupeJobNames(jobs) :
              \E j \in jobs : d.ok = j.ok /\ d.static = j.static
         /\ \A j \in jobs : \E d \in Metrics!DedupeJobNames(jobs) :
              d.ok = j.ok /\ d.static = j.static
         /\ \A d, c \in Metrics!DedupeJobNames(jobs) : d.name = c.name => d = c
<1> DEFINE Twin(j) == \E other \in jobs \ {j} : other.name = j.name
           Hash(j) == [ok |-> j.ok, static |-> j.static]
           Told(j) == [name |-> [job |-> j.name.job, unit |-> j.name.unit, hash |-> {Hash(j)}],
                       ok |-> j.ok, static |-> j.static]
           D(j) == IF Twin(j) THEN [j EXCEPT !.name.hash = {Hash(j)}] ELSE j
<1>1. ASSUME NEW j \in jobs
      PROVE  [j EXCEPT !.name.hash = {Hash(j)}] = Told(j)
  <2> DEFINE n == j.name.job
             q == j.name.unit
             k == j.ok
             s == j.static
             h == {Hash(j)}
  <2>1. j \in JobsOf(n, q, k, s)
    BY DEF Plainly
  <2> HIDE DEF n, q, k, s, h
  <2>2. [j EXCEPT !.name.hash = h] \in [name: [job: {n}, unit: {q}, hash: {h}], ok: {k}, static: {s}]
    BY <2>1 DEF JobsOf
  <2>3. [j EXCEPT !.name.hash = h] = [name |-> [job |-> n, unit |-> q, hash |-> h], ok |-> k, static |-> s]
    BY <2>2
  <2> QED
    BY <2>3 DEF n, q, k, s, h
<1>2. \A j \in jobs : D(j) = IF Twin(j) THEN Told(j) ELSE j
  BY <1>1
<1>3. Metrics!DedupeJobNames(jobs) = {D(j) : j \in jobs}
  BY DEF Metrics!DedupeJobNames
<1>4. \A j \in jobs : D(j).ok = j.ok /\ D(j).static = j.static
  BY <1>2
<1>5. ASSUME NEW j \in jobs, NEW i \in jobs, D(j).name = D(i).name
      PROVE  D(j) = D(i)
  <2>1. /\ j = [name |-> [job |-> j.name.job, unit |-> j.name.unit, hash |-> {}], ok |-> j.ok, static |-> j.static]
        /\ i = [name |-> [job |-> i.name.job, unit |-> i.name.unit, hash |-> {}], ok |-> i.ok, static |-> i.static]
    <3>1. ASSUME NEW x \in jobs
          PROVE  x = [name |-> [job |-> x.name.job, unit |-> x.name.unit, hash |-> {}], ok |-> x.ok, static |-> x.static]
      <4> DEFINE n == x.name.job
                 q == x.name.unit
                 k == x.ok
                 s == x.static
      <4>1. x \in JobsOf(n, q, k, s)
        BY DEF Plainly
      <4> HIDE DEF n, q, k, s
      <4>2. x = [name |-> [job |-> n, unit |-> q, hash |-> {}], ok |-> k, static |-> s]
        BY <4>1 DEF JobsOf
      <4> QED
        BY <4>2 DEF n, q, k, s
    <3> QED
      BY <3>1
  <2>2. CASE Twin(j) /\ Twin(i)
    <3>1. Told(j).name = Told(i).name
      BY <1>2, <1>5, <2>2
    <3>2. /\ j.name.job = i.name.job /\ j.name.unit = i.name.unit
          /\ {Hash(j)} = {Hash(i)}
      <4>1. Told(j).name.job = Told(i).name.job /\ Told(j).name.unit = Told(i).name.unit
            /\ Told(j).name.hash = Told(i).name.hash
        BY <3>1
      <4> QED
        BY <4>1
    <3>3. Hash(j) = Hash(i)
      BY <3>2
    <3>4. j.ok = i.ok /\ j.static = i.static
      <4>1. Hash(j).ok = Hash(i).ok /\ Hash(j).static = Hash(i).static
        BY <3>3
      <4> QED
        BY <4>1
    <3>5. j = i
      BY <2>1, <3>2, <3>4
    <3> QED
      BY <3>5
  <2>3. ASSUME NEW x \in jobs, NEW y \in jobs, Twin(x), ~Twin(y), Plainly(y)
        PROVE  D(x).name # D(y).name
    <3>1. D(x).name.hash = {Hash(x)}
      BY <1>2, <2>3
    <3>2. D(y).name.hash = {}
      BY <2>3 DEF Plainly, JobsOf
    <3> QED
      BY <3>1, <3>2
  <2>4. CASE ~Twin(j) /\ ~Twin(i)
    <3>1. j.name = i.name
      BY <1>5, <2>4
    <3> QED
      BY <2>4, <3>1
  <2> QED
    BY <1>5, <2>2, <2>3, <2>4
<1> HIDE DEF D
<1> QED
  BY <1>3, <1>4, <1>5

\* What a unit of Prometheus makes of the jobs of a revision.
Made(J, jobs, hosts) ==
  /\ \A d, c \in J : d.name = c.name => d = c
  /\ \A d \in J : (\E job \in jobs : d.ok = job.ok) /\ \A e \in d.static : About(e, hosts)
  /\ DOMAIN hosts # {} => \A job \in jobs : \E d \in J : d.ok = job.ok
  /\ \A job \in jobs : \A ts \in Metrics!Sanitized(job).static : "*" \in ts =>
       \A u \in DOMAIN hosts : \E d \in J : \E e \in d.static : e.unit = u

LEMMA JobsAre ==
  ASSUME NEW jobs, \A job \in jobs : Shipped(job) /\ {} \notin job.static, NEW hosts, NEW J,
         J = Metrics!DedupeJobNames(Metrics!ScrapeConfig(jobs, hosts))
  PROVE  Made(J, jobs, hosts)
<1> DEFINE All(job) == Metrics!Expanded(Metrics!Prefixed(Metrics!Sanitized(job)), hosts)
           C == Metrics!ScrapeConfig(jobs, hosts)
<1>1. C = UNION {All(job) : job \in jobs}
  BY DEF Metrics!ScrapeConfig
<1>2. \A job \in jobs : \A j \in All(job) :
        Plainly(j) /\ j.ok = job.ok /\ \A e \in j.static : About(e, hosts)
  BY ExpandedAre
<1>3. DOMAIN hosts # {} => \A job \in jobs : All(job) # {}
  BY ExpandedSome
<1>4. \A job \in jobs : \A ts \in Metrics!Sanitized(job).static : "*" \in ts =>
        \A u \in DOMAIN hosts : \E j \in All(job) : \E e \in j.static : e.unit = u
  BY ExpandedCovers
<1> HIDE DEF All, C
<1>5. \A j \in C : Plainly(j) /\ (\E job \in jobs : j.ok = job.ok) /\ \A e \in j.static : About(e, hosts)
  BY <1>1, <1>2
<1>6. /\ \A d \in J : \E j \in C : d.ok = j.ok /\ d.static = j.static
      /\ \A j \in C : \E d \in J : d.ok = j.ok /\ d.static = j.static
      /\ \A d, c \in J : d.name = c.name => d = c
  BY <1>5, DedupedAre DEF C
<1>7. \A d \in J : (\E job \in jobs : d.ok = job.ok) /\ \A e \in d.static : About(e, hosts)
  BY <1>5, <1>6
<1>8. ASSUME DOMAIN hosts # {}, NEW job \in jobs
      PROVE  \E d \in J : d.ok = job.ok
  <2>1. PICK j \in All(job) : TRUE
    BY <1>3, <1>8
  <2>2. j \in C /\ j.ok = job.ok
    BY <1>1, <1>2, <2>1
  <2> QED
    BY <1>6, <2>2
<1>9. ASSUME NEW job \in jobs, NEW ts \in Metrics!Sanitized(job).static, "*" \in ts,
             NEW u \in DOMAIN hosts
      PROVE  \E d \in J : \E e \in d.static : e.unit = u
  <2>1. PICK j \in All(job) : \E e \in j.static : e.unit = u
    BY <1>4, <1>9
  <2>2. j \in C
    BY <1>1, <2>1
  <2> QED
    BY <1>6, <2>1, <2>2
<1> QED
  BY <1>6, <1>7, <1>8, <1>9 DEF Made

-------------------------------------------------------------------------------

LeadP == CHOOSE p \in Scrapers : TRUE

\* Nothing of a relation is there before it is made.
Unrelated ==
  /\ metricsApp = None /\ behind = {}
  /\ \A u \in Units : address[u] = None /\ metricsEvents[u] = {}
  /\ \A p \in Scrapers :
       members[p] = {} /\ prometheusEvents[p] = {} /\ config[p] = {} /\ alerts[p] = None

MetricsTyped ==
  /\ Metrics!TypeOK
  /\ DOMAIN address = Units /\ DOMAIN config = Scrapers
  /\ metricsApp = None \/
     \E v \in Revisions[focus] : metricsApp = [jobs |-> v.jobs, rules |-> v.rules]
  /\ ~related => Unrelated

\* What the leader runs is published, or it has an event to handle, or update-status,
\* that publishes it.
LeaderPublishes ==
  \/ metricsApp = Metrics!Published(leader)
  \/ "joined" \in metricsEvents[leader] \/ "leader_elected" \in due[leader] \/ leader \in behind

UnitPublishes(u) ==
  address[u] = Metrics!Binding(u) \/ "joined" \in metricsEvents[u] \/ u \in behind

\* A unit of Prometheus that does not see who is there is to be told.
MembersFollow(p) ==
  /\ related => \A u \in here : u \in members[p] \/ <<"joined", u>> \in prometheusEvents[p]
  /\ \A u \in members[p] : u \in here \/ <<"departed", u>> \in prometheusEvents[p]
  /\ \A u \in Units \cup {None} :
     /\ <<"joined", u>> \in prometheusEvents[p] => u \in here /\ u \notin members[p]
     /\ <<"departed", u>> \in prometheusEvents[p] => u \notin here /\ u \in members[p]

\* Something that p knows of has changed and p is to be told.
ToRead(p) == \E e \in prometheusEvents[p] : e[2] = None \/ e[2] \in members[p]

JobsFrom(met) == IF Metrics!Reads(met) THEN Metrics!Jobs(met) ELSE {}

\* What p runs is what it would make of what is published.
Read(p) ==
  /\ config[p] = IF Metrics!JobsAreValid(JobsFrom(members[p])) THEN JobsFrom(members[p]) ELSE {}
  /\ alerts[p] = IF Metrics!Reads(members[p]) /\ metricsApp.rules = "good" THEN "good" ELSE None

Reported(p) ==
  Metrics!Reads(members[p]) =>
    /\ JobsFrom(members[p]) # {} => (errors.jobs <=> ~Metrics!JobsAreValid(JobsFrom(members[p])))
    /\ metricsApp.rules # "none" => (errors.rules <=> metricsApp.rules = "bad")

InSync(p) == Read(p) /\ (p = LeadP => Reported(p))

NamesDiffer(p) == \A job, other \in config[p] : job.name = other.name => job = other

MetricsInv ==
  /\ MetricsTyped
  /\ related => LeaderPublishes /\ \A u \in here : UnitPublishes(u)
  /\ \A p \in Scrapers : MembersFollow(p) /\ (ToRead(p) \/ InSync(p)) /\ NamesDiffer(p)

-------------------------------------------------------------------------------

\* What is read is what it was if what is read from is.
LEMMA InSyncKept ==
  ASSUME NEW p, InSync(p), UNCHANGED metricsApp,
         members'[p] = members[p], config'[p] = config[p], alerts'[p] = alerts[p],
         p = LeadP => UNCHANGED errors,
         \A v \in members[p] : address'[v] = address[v]
  PROVE  InSync(p)'
<1>1. Metrics!Hosts(members[p])' = Metrics!Hosts(members[p])
  <2>1. {v \in members'[p] : address'[v] # None} = {v \in members[p] : address[v] # None}
    OBVIOUS
  <2> QED
    BY <2>1 DEF Metrics!Hosts
<1>2. Metrics!Jobs(members[p])' = Metrics!Jobs(members[p])
  BY <1>1 DEF Metrics!Jobs
<1>3. Metrics!Reads(members[p])' = Metrics!Reads(members[p])
  BY DEF Metrics!Reads
<1>4. JobsFrom(members[p])' = JobsFrom(members[p])
  BY <1>2, <1>3 DEF JobsFrom
<1>5. LeadP' = LeadP
  BY DEF LeadP
<1> QED
  BY <1>3, <1>4, <1>5 DEF InSync, Read, Reported, Metrics!JobsAreValid

\* The jobs that are read are made of those of a revision.
LEMMA ReadAre ==
  ASSUME MetricsTyped, CharmInv, NEW met, metricsApp # None
  PROVE  Made(Metrics!Jobs(met), metricsApp.jobs, Metrics!Hosts(met))
<1>1. PICK v \in Revisions[focus] : metricsApp = [jobs |-> v.jobs, rules |-> v.rules]
  BY DEF MetricsTyped
<1>2. \A job \in metricsApp.jobs : Shipped(job) /\ {} \notin job.static
  BY <1>1, RevisionsAssumption DEF CharmInv, Shipped
<1> DEFINE J == Metrics!Jobs(met)
           hosts == Metrics!Hosts(met)
           jobs == metricsApp.jobs
<1>3. J = Metrics!DedupeJobNames(Metrics!ScrapeConfig(jobs, hosts))
  BY DEF Metrics!Jobs
<1> HIDE DEF J, hosts, jobs
<1>4. \A job \in jobs : Shipped(job) /\ {} \notin job.static
  BY <1>2 DEF jobs
<1>5. Made(J, jobs, hosts)
  BY <1>3, <1>4, JobsAre
<1> QED
  BY <1>5 DEF J, hosts, jobs

LEMMA ReadNames ==
  ASSUME MetricsTyped, CharmInv, NEW met
  PROVE  \A d, c \in JobsFrom(met) : d.name = c.name => d = c
<1>1. CASE Metrics!Reads(met)
  BY <1>1, ReadAre DEF JobsFrom, Made, Metrics!Reads
<1>2. CASE ~Metrics!Reads(met)
  BY <1>2 DEF JobsFrom
<1> QED
  BY <1>1, <1>2

\* What a hook of a unit of Prometheus does to each of them.
LEMMA ScraperIs ==
  ASSUME CharmInv, MetricsInv, NEW p \in Scrapers, NEW e \in Metrics!MailType, Metrics!ScraperHook(p, e)
  PROVE  /\ related /\ e \in prometheusEvents[p]
         /\ prometheusEvents' = [prometheusEvents EXCEPT ![p] = @ \ {e, <<"changed", e[2]>>}]
         /\ members' = [members EXCEPT ![p] = IF e[1] = "joined" THEN @ \cup {e[2]}
                                       ELSE IF e[1] = "departed" THEN @ \ {e[2]} ELSE @]
         /\ config' = [config EXCEPT ![p] = IF Metrics!JobsAreValid(JobsFrom(members'[p]))
                                            THEN JobsFrom(members'[p]) ELSE {}]
         /\ alerts' = [alerts EXCEPT ![p] =
                 IF Metrics!Reads(members'[p]) /\ metricsApp.rules = "good" THEN "good" ELSE None]
         /\ errors' = IF Metrics!Reads(members'[p]) /\ p = LeadP
                        THEN Metrics!ErrorsOf(JobsFrom(members'[p])) ELSE errors
         /\ metricsEvents' = [u \in Units |-> IF errors' # errors /\ u \in here
                                 THEN metricsEvents[u] \cup {"changed"} ELSE metricsEvents[u]]
         /\ UNCHANGED <<related, ip, address, metricsApp, behind>>
<1>1. related
  BY DEF Metrics!ScraperHook, MetricsInv, MetricsTyped, Unrelated
<1>2. Metrics!Reconfigure(p, members'[p])
  BY DEF Metrics!ScraperHook
<1> DEFINE M == members'[p]
<1>3. PICK jobs \in {IF Metrics!Reads(M) THEN Metrics!Jobs(M) ELSE {}} :
        /\ config' = [config EXCEPT ![p] = IF Metrics!JobsAreValid(jobs) THEN jobs ELSE {}]
        /\ alerts' = [alerts EXCEPT ![p] =
                    IF Metrics!Reads(M) /\ metricsApp.rules = "good" THEN "good" ELSE None]
        /\ errors' = IF Metrics!Reads(M) /\ p = LeadP THEN Metrics!ErrorsOf(jobs) ELSE errors
        /\ metricsEvents' = [u \in Units |-> IF errors' # errors /\ u \in here
                                 THEN metricsEvents[u] \cup {"changed"} ELSE metricsEvents[u]]
  BY <1>2 DEF Metrics!Reconfigure, LeadP
<1>4. jobs = JobsFrom(M)
  BY DEF JobsFrom
<1> HIDE DEF M
<1>5. /\ config' = [config EXCEPT ![p] = IF Metrics!JobsAreValid(JobsFrom(M)) THEN JobsFrom(M) ELSE {}]
      /\ errors' = IF Metrics!Reads(M) /\ p = LeadP THEN Metrics!ErrorsOf(JobsFrom(M)) ELSE errors
  BY <1>3, <1>4
<1>6. /\ e \in prometheusEvents[p]
      /\ prometheusEvents' = [prometheusEvents EXCEPT ![p] = @ \ {e, <<"changed", e[2]>>}]
      /\ members' = [members EXCEPT ![p] = IF e[1] = "joined" THEN @ \cup {e[2]}
                                       ELSE IF e[1] = "departed" THEN @ \ {e[2]} ELSE @]
      /\ UNCHANGED <<related, ip, address, metricsApp, behind>>
  BY DEF Metrics!ScraperHook
<1> QED
  BY <1>1, <1>3, <1>5, <1>6 DEF M

LEMMA MailIs ==
  ASSUME NEW e \in Metrics!MailType
  PROVE  e = <<e[1], e[2]>> /\ e[1] \in {"joined", "changed", "departed"} /\ e[2] \in Units \cup {None}
BY DEF Metrics!MailType

LEMMA ScraperTyped ==
  ASSUME CharmInv, MetricsInv, NEW p \in Scrapers, NEW e \in Metrics!MailType, Metrics!ScraperHook(p, e),
         UNCHANGED charm
  PROVE  MetricsTyped'
<1>1. Metrics!TypeOK /\ DOMAIN address = Units /\ DOMAIN config = Scrapers
  BY DEF MetricsInv, MetricsTyped
<1>2. e[1] = "joined" => e[2] \in Units
  <2>1. e = <<e[1], e[2]>> /\ e[2] \in Units \cup {None} /\ e \in prometheusEvents[p]
    BY ScraperIs, MailIs
  <2>2. e[1] = "joined" => e[2] \in here
    BY <2>1 DEF MetricsInv, MembersFollow
  <2> QED
    BY <2>2 DEF CharmInv
<1>3. members' \in [Scrapers -> SUBSET Units]
  BY <1>1, <1>2, ScraperIs DEF Metrics!TypeOK
<1>4. prometheusEvents' \in [Scrapers -> SUBSET Metrics!MailType]
  BY <1>1, ScraperIs DEF Metrics!TypeOK
<1>5. alerts' \in [Scrapers -> {"good", None}]
  BY <1>1, ScraperIs DEF Metrics!TypeOK
<1>6. errors' \in [jobs: BOOLEAN, rules: BOOLEAN]
  <2> DEFINE J == JobsFrom(members'[p])
  <2>1. errors' = errors \/ errors' = Metrics!ErrorsOf(J)
    BY ScraperIs
  <2> HIDE DEF J
  <2>2. errors \in [jobs: BOOLEAN, rules: BOOLEAN]
    BY <1>1 DEF Metrics!TypeOK
  <2>3. errors.jobs \in BOOLEAN /\ errors.rules \in BOOLEAN
    BY <2>2
  <2>4. (IF J = {} THEN errors.jobs ELSE ~Metrics!JobsAreValid(J)) \in BOOLEAN
    BY <2>3 DEF Metrics!JobsAreValid
  <2>5. (IF metricsApp.rules = "none" THEN errors.rules ELSE metricsApp.rules = "bad") \in BOOLEAN
    BY <2>3
  <2>6. Metrics!ErrorsOf(J) \in [jobs: BOOLEAN, rules: BOOLEAN]
    BY <2>4, <2>5, Zenon DEF Metrics!ErrorsOf
  <2> QED
    BY <2>1, <2>2, <2>6
<1>7. metricsEvents' \in [Units -> SUBSET {"joined", "changed"}]
  BY <1>1, ScraperIs DEF Metrics!TypeOK
<1>8. DOMAIN config' = Scrapers
  BY <1>1, ScraperIs
<1>9. UNCHANGED <<related, ip, address, metricsApp, behind>> /\ related
  BY ScraperIs
<1>10. Metrics!TypeOK'
  BY <1>1, <1>3, <1>4, <1>5, <1>6, <1>7, <1>9 DEF Metrics!TypeOK
<1> QED
  BY <1>1, <1>8, <1>9, <1>10 DEF charm, MetricsInv, MetricsTyped

LEMMA ScraperMembers ==
  ASSUME CharmInv, MetricsInv, NEW p \in Scrapers, NEW e \in Metrics!MailType, Metrics!ScraperHook(p, e),
         UNCHANGED charm, NEW q \in Scrapers
  PROVE  MembersFollow(q)'
<1>1. members \in [Scrapers -> SUBSET Units] /\ prometheusEvents \in [Scrapers -> SUBSET Metrics!MailType]
  BY DEF MetricsInv, MetricsTyped, Metrics!TypeOK
<1>2. MembersFollow(q)
  BY DEF MetricsInv
<1>3. UNCHANGED <<related, here>>
  BY ScraperIs DEF charm
<1>4. CASE q # p
  <2>1. members'[q] = members[q] /\ prometheusEvents'[q] = prometheusEvents[q]
    BY <1>1, <1>4, ScraperIs
  <2> QED
    BY <1>2, <1>3, <2>1 DEF MembersFollow
<1>5. CASE q = p
  <2> DEFINE u == e[2]
  <2>1. e = <<e[1], u>> /\ e[1] \in {"joined", "changed", "departed"} /\ e \in prometheusEvents[p]
        /\ u \in Units \cup {None}
    BY MailIs, ScraperIs
  <2>2. /\ members'[p] = IF e[1] = "joined" THEN members[p] \cup {u}
                         ELSE IF e[1] = "departed" THEN members[p] \ {u} ELSE members[p]
        /\ prometheusEvents'[p] = prometheusEvents[p] \ {<<e[1], u>>, <<"changed", u>>}
    <3>1. prometheusEvents'[p] = prometheusEvents[p] \ {e, <<"changed", u>>}
      BY <1>1, ScraperIs
    <3>2. members'[p] = IF e[1] = "joined" THEN members[p] \cup {u}
                         ELSE IF e[1] = "departed" THEN members[p] \ {u} ELSE members[p]
      <4>1. members' = [members EXCEPT ![p] = IF e[1] = "joined" THEN @ \cup {u}
                                       ELSE IF e[1] = "departed" THEN @ \ {u} ELSE @]
        BY ScraperIs
      <4> HIDE DEF u
      <4> QED
        BY <1>1, <4>1
    <3> HIDE DEF u
    <3>3. {e, <<"changed", u>>} = {<<e[1], u>>, <<"changed", u>>}
      BY <2>1, Zenon
    <3> QED
      BY <3>1, <3>2, <3>3
  <2>3. \A v : /\ <<"joined", v>> \in prometheusEvents'[p] <=>
                    <<"joined", v>> \in prometheusEvents[p] /\ ~(e[1] = "joined" /\ v = u)
               /\ <<"departed", v>> \in prometheusEvents'[p] <=>
                    <<"departed", v>> \in prometheusEvents[p] /\ ~(e[1] = "departed" /\ v = u)
    BY <2>2
  <2> HIDE DEF u
  <2>4. e[1] = "joined" => u \in here /\ u \in Units
    BY <1>2, <1>5, <2>1 DEF MembersFollow, CharmInv
  <2>5. e[1] = "departed" => u \notin here
    BY <1>2, <1>5, <2>1 DEF MembersFollow
  <2>6. CASE e[1] = "joined"
    BY <1>2, <1>3, <1>5, <2>2, <2>3, <2>4, <2>6 DEF MembersFollow
  <2>7. CASE e[1] = "departed"
    BY <1>2, <1>3, <1>5, <2>2, <2>3, <2>5, <2>7 DEF MembersFollow
  <2>8. CASE e[1] = "changed"
    BY <1>2, <1>3, <1>5, <2>2, <2>3, <2>8 DEF MembersFollow
  <2> QED
    BY <2>1, <2>6, <2>7, <2>8
<1> QED
  BY <1>4, <1>5

LEMMA ScraperReads ==
  ASSUME CharmInv, MetricsInv, NEW p \in Scrapers, NEW e \in Metrics!MailType, Metrics!ScraperHook(p, e)
  PROVE  InSync(p)' /\ NamesDiffer(p)'
<1>1. DOMAIN config = Scrapers /\ alerts \in [Scrapers -> {"good", None}] /\ MetricsTyped
  BY DEF MetricsInv, MetricsTyped, Metrics!TypeOK
<1> DEFINE M == members'[p]
<1>2. UNCHANGED <<address, metricsApp>>
  BY ScraperIs
<1>3. /\ config'[p] = IF Metrics!JobsAreValid(JobsFrom(M)) THEN JobsFrom(M) ELSE {}
      /\ alerts'[p] = IF Metrics!Reads(M) /\ metricsApp.rules = "good" THEN "good" ELSE None
      /\ errors' = IF Metrics!Reads(M) /\ p = LeadP THEN Metrics!ErrorsOf(JobsFrom(M)) ELSE errors
  BY <1>1, ScraperIs
<1>4. Metrics!Hosts(members[p])' = Metrics!Hosts(M)
  BY <1>2 DEF Metrics!Hosts
<1>5. Metrics!Jobs(members[p])' = Metrics!Jobs(M)
  BY <1>2, <1>4 DEF Metrics!Jobs
<1>6. Metrics!Reads(members[p])' = Metrics!Reads(M)
  BY <1>2 DEF Metrics!Reads
<1>7. JobsFrom(members[p])' = JobsFrom(M)
  BY <1>5, <1>6 DEF JobsFrom
<1>8. LeadP' = LeadP
  BY DEF LeadP
<1> DEFINE J == JobsFrom(M)
<1>9. \A d, c \in J : d.name = c.name => d = c
  BY <1>1, ReadNames
<1> HIDE DEF J
<1>10. Read(p)'
  BY <1>2, <1>3, <1>6, <1>7 DEF Read, J, Metrics!JobsAreValid
<1>11. p = LeadP => Reported(p)'
  <2> SUFFICES ASSUME p = LeadP, Metrics!Reads(M)
               PROVE  /\ J # {} => (errors'.jobs <=> ~Metrics!JobsAreValid(J))
                      /\ metricsApp.rules # "none" => (errors'.rules <=> metricsApp.rules = "bad")
    BY <1>2, <1>6, <1>7 DEF Reported, J, Metrics!JobsAreValid
  <2>1. errors' = Metrics!ErrorsOf(J)
    BY <1>3 DEF J
  <2> QED
    BY <2>1 DEF Metrics!ErrorsOf
<1>12. NamesDiffer(p)'
  BY <1>3, <1>9 DEF NamesDiffer, J
<1> QED
  BY <1>8, <1>10, <1>11, <1>12 DEF InSync

LEMMA ScraperStep ==
  ASSUME CharmInv, MetricsInv, NEW p \in Scrapers, NEW e \in Metrics!MailType, Metrics!ScraperHook(p, e),
         UNCHANGED charm
  PROVE  MetricsInv'
<1>1. related /\ UNCHANGED <<related, ip, address, metricsApp, behind, leader, revision, due, here>>
  BY ScraperIs DEF charm
<1>2. \A u \in Units : metricsEvents[u] \subseteq metricsEvents'[u]
  BY ScraperIs
<1>3. here \subseteq Units /\ leader \in here
  BY DEF CharmInv
<1>4. LeaderPublishes'
  BY <1>1, <1>2, <1>3 DEF MetricsInv, LeaderPublishes, Metrics!Published
<1>5. \A u \in here : UnitPublishes(u)'
  BY <1>1, <1>2, <1>3 DEF MetricsInv, UnitPublishes, Metrics!Binding
<1>6. ASSUME NEW q \in Scrapers
      PROVE  (ToRead(q) \/ InSync(q))' /\ NamesDiffer(q)'
  <2>1. CASE q = p
    BY <2>1, ScraperReads
  <2>2. CASE q # p
    <3>1. /\ members'[q] = members[q] /\ prometheusEvents'[q] = prometheusEvents[q]
          /\ config'[q] = config[q] /\ alerts'[q] = alerts[q]
          /\ q = LeadP => UNCHANGED errors
      BY <2>2, ScraperIs DEF MetricsInv, MetricsTyped, Metrics!TypeOK
    <3>2. ToRead(q) => ToRead(q)'
      BY <3>1 DEF ToRead
    <3>3. InSync(q) => InSync(q)'
      BY <1>1, <3>1, InSyncKept
    <3>4. NamesDiffer(q)'
      BY <3>1 DEF MetricsInv, NamesDiffer
    <3> QED
      BY <3>2, <3>3, <3>4 DEF MetricsInv
  <2> QED
    BY <2>1, <2>2
<1> QED
  BY <1>1, <1>4, <1>5, <1>6, ScraperTyped, ScraperMembers DEF MetricsInv

\* A hook of a unit of the charm that writes its databag, and perhaps that of the leader.
Writes(u) ==
  /\ related
  /\ Metrics!SetUnitIp(u) /\ Metrics!News(u)
  /\ metricsApp' = metricsApp \/ (u = leader /\ metricsApp' = Metrics!Published(u))
  /\ UNCHANGED <<leader, here, revision, focus>>
  /\ UNCHANGED <<related, ip, members, config, alerts, errors>>
  /\ metricsEvents' \in [Units -> SUBSET {"joined", "changed"}]
  /\ behind' \subseteq behind
  /\ \A v \in Units \ {u} : metricsEvents'[v] = metricsEvents[v] /\ (v \in behind => v \in behind')

LEMMA NewsIs ==
  ASSUME CharmInv, MetricsInv, NEW u \in here, Writes(u)
  PROVE  /\ prometheusEvents' \in [Scrapers -> SUBSET Metrics!MailType]
         /\ \A p \in Scrapers :
              /\ prometheusEvents[p] \subseteq prometheusEvents'[p]
              /\ address'[u] # address[u] => <<"changed", u>> \in prometheusEvents'[p]
              /\ metricsApp' # metricsApp => <<"changed", None>> \in prometheusEvents'[p]
              /\ \A v : /\ <<"joined", v>> \in prometheusEvents'[p] <=> <<"joined", v>> \in prometheusEvents[p]
                        /\ <<"departed", v>> \in prometheusEvents'[p] <=> <<"departed", v>> \in prometheusEvents[p]
<1>1. prometheusEvents' = [p \in Scrapers |->
             prometheusEvents[p] \cup (IF address'[u] # address[u] THEN {<<"changed", u>>} ELSE {})
                     \cup (IF metricsApp' # metricsApp THEN {<<"changed", None>>} ELSE {})]
  BY DEF Writes, Metrics!News
<1>2. <<"changed", u>> \in Metrics!MailType /\ <<"changed", None>> \in Metrics!MailType
  BY DEF CharmInv, Metrics!MailType
<1>3. prometheusEvents \in [Scrapers -> SUBSET Metrics!MailType]
  BY DEF MetricsInv, MetricsTyped, Metrics!TypeOK
<1>4. prometheusEvents' \in [Scrapers -> SUBSET Metrics!MailType]
  BY <1>1, <1>2, <1>3
<1> QED
  BY <1>1, <1>4

LEMMA BindingIs ==
  ASSUME CharmInv, MetricsInv, NEW u \in here
  PROVE  Metrics!Binding(u) \in [address: Addresses \cup Units, fqdn: Units]
<1>1. u \in Units /\ ip[u] \in Addresses \cup {None}
  BY DEF CharmInv, MetricsInv, MetricsTyped, Metrics!TypeOK
<1> QED
  BY <1>1 DEF Metrics!Binding

LEMMA PublishTyped ==
  ASSUME CharmInv, MetricsInv, NEW u \in here, Writes(u)
  PROVE  MetricsTyped'
<1>1. Metrics!TypeOK /\ MetricsTyped
  BY DEF MetricsInv, MetricsTyped
<1>2. address' = [address EXCEPT ![u] = Metrics!Binding(u)]
  BY DEF Writes, Metrics!SetUnitIp
<1>3. \A v \in Units : address'[v] = None \/ address'[v] \in [address: Addresses \cup Units, fqdn: Units]
  BY <1>1, <1>2, BindingIs DEF Metrics!TypeOK, MetricsTyped
<1>4. metricsApp' = None \/
        \E v \in Revisions[focus] : metricsApp' = [jobs |-> v.jobs, rules |-> v.rules]
  <2>1. CASE metricsApp' = metricsApp
    BY <1>1, <2>1 DEF MetricsTyped
  <2>2. CASE u = leader /\ metricsApp' = Metrics!Published(u)
    <3>1. revision[u] \in Revisions[focus]
      BY DEF CharmInv
    <3> QED
      BY <2>2, <3>1 DEF Metrics!Published
  <2> QED
    BY <2>1, <2>2 DEF Writes
<1>5. metricsApp' = None \/ metricsApp'.rules \in {"none", "good", "bad"}
  <2>1. \A v \in Revisions[focus] : v.rules \in {"none", "good", "bad"}
    BY RevisionsAssumption DEF CharmInv
  <2> QED
    BY <1>4, <2>1
<1>6. /\ behind' \subseteq Units
      /\ metricsEvents' \in [Units -> SUBSET {"joined", "changed"}]
      /\ UNCHANGED <<related, ip, members, config, alerts, errors, focus>> /\ related
  BY <1>1 DEF Writes, Metrics!TypeOK
<1>7. Metrics!TypeOK'
  BY <1>1, <1>3, <1>5, <1>6, NewsIs DEF Metrics!TypeOK
<1>8. DOMAIN address' = Units /\ DOMAIN config' = Scrapers
  BY <1>1, <1>2, <1>6 DEF MetricsTyped
<1> QED
  BY <1>4, <1>6, <1>7, <1>8 DEF MetricsTyped

LEMMA PublishStep ==
  ASSUME CharmInv, MetricsInv, NEW u \in here, Writes(u), LeaderPublishes'
  PROVE  MetricsInv'
<1>1. UNCHANGED <<leader, here, revision, focus, related, ip, members, config, alerts, errors>> /\ related
  BY DEF Writes
<1>2. address' = [address EXCEPT ![u] = Metrics!Binding(u)] /\ DOMAIN address = Units
  BY DEF Writes, Metrics!SetUnitIp, MetricsInv, MetricsTyped
<1>3. \A v \in here : v \in Units
  BY DEF CharmInv
<1>4. ASSUME NEW v \in here
      PROVE  UnitPublishes(v)'
  <2>1. CASE v = u
    BY <1>1, <1>2, <1>3, <2>1 DEF UnitPublishes, Metrics!Binding
  <2>2. CASE v # u
    BY <1>1, <1>2, <1>3, <2>2 DEF UnitPublishes, Metrics!Binding, Writes, MetricsInv
  <2> QED
    BY <2>1, <2>2
<1>5. ASSUME NEW p \in Scrapers
      PROVE  MembersFollow(p)' /\ (ToRead(p) \/ InSync(p))' /\ NamesDiffer(p)'
  <2>1. MembersFollow(p)'
    BY <1>1, NewsIs DEF MembersFollow, MetricsInv
  <2>2. NamesDiffer(p)'
    BY <1>1 DEF NamesDiffer, MetricsInv
  <2>3. CASE metricsApp' # metricsApp
    <3>1. <<"changed", None>> \in prometheusEvents'[p]
      BY <2>3, NewsIs
    <3>2. ToRead(p)'
      BY <3>1 DEF ToRead
    <3> QED
      BY <2>1, <2>2, <3>2
  <2>4. CASE u \in members[p] /\ address'[u] # address[u]
    <3>1. <<"changed", u>> \in prometheusEvents'[p]
      BY <2>4, NewsIs
    <3>2. ToRead(p)'
      BY <1>1, <2>4, <3>1 DEF ToRead
    <3> QED
      BY <2>1, <2>2, <3>2
  <2>5. CASE metricsApp' = metricsApp /\ ~(u \in members[p] /\ address'[u] # address[u])
    <3>1. ToRead(p) => ToRead(p)'
      BY <1>1, NewsIs DEF ToRead
    <3>2. \A v \in members[p] : address'[v] = address[v]
      <4>1. members[p] \subseteq Units
        BY DEF MetricsInv, MetricsTyped, Metrics!TypeOK
      <4> QED
        BY <1>2, <2>5, <4>1
    <3>3. InSync(p) => InSync(p)'
      BY <1>1, <2>5, <3>2, InSyncKept
    <3> QED
      BY <2>1, <2>2, <3>1, <3>3 DEF MetricsInv
  <2> QED
    BY <2>3, <2>4, <2>5
<1> QED
  BY <1>1, <1>4, <1>5, PublishTyped DEF MetricsInv

\* Nothing of the relation changes, or who is there.
LEMMA StillStep ==
  ASSUME CharmInv, MetricsInv, UNCHANGED <<metrics, here, focus>>, related => LeaderPublishes'
  PROVE  MetricsInv'
<1>1. UNCHANGED <<related, ip, address, metricsApp, metricsEvents, behind, members,
                  prometheusEvents, config, alerts, errors>>
  BY DEF metrics
<1>2. MetricsTyped'
  BY <1>1 DEF MetricsInv, MetricsTyped, Metrics!TypeOK, Unrelated, Metrics!MailType
<1>3. \A u \in here : UnitPublishes(u)' <=> UnitPublishes(u)
  BY <1>1 DEF UnitPublishes, Metrics!Binding
<1>4. ASSUME NEW p \in Scrapers
      PROVE  MembersFollow(p)' /\ (ToRead(p) \/ InSync(p))' /\ NamesDiffer(p)'
  <2>1. MembersFollow(p)' /\ NamesDiffer(p)'
    BY <1>1 DEF MembersFollow, NamesDiffer, MetricsInv
  <2>2. ToRead(p) => ToRead(p)'
    BY <1>1 DEF ToRead
  <2>3. InSync(p) => InSync(p)'
    BY <1>1, InSyncKept
  <2> QED
    BY <2>1, <2>2, <2>3 DEF MetricsInv
<1> QED
  BY <1>1, <1>2, <1>3, <1>4 DEF MetricsInv

LEMMA JoinedStep ==
  ASSUME CharmInv, MetricsInv, NEW u \in here, Metrics!UnitJoined(u) \/ Metrics!UnitChanged(u),
         UNCHANGED charm
  PROVE  MetricsInv'
<1>1. u \in Units /\ leader \in Units /\ metricsEvents \in [Units -> SUBSET {"joined", "changed"}]
  BY DEF CharmInv, MetricsInv, MetricsTyped, Metrics!TypeOK
<1>2. metricsEvents[u] # {}
  BY DEF Metrics!UnitJoined, Metrics!UnitChanged
<1>3. related
  BY <1>1, <1>2 DEF MetricsInv, MetricsTyped, Unrelated
<1>4. UNCHANGED <<leader, here, revision, due, focus>>
  BY DEF charm
<1>5. CASE Metrics!UnitJoined(u)
  <2>1. /\ metricsEvents' = [metricsEvents EXCEPT ![u] = @ \ {"joined"}]
        /\ Metrics!SetUnitIp(u) /\ Metrics!News(u)
        /\ metricsApp' = IF u = leader THEN Metrics!Published(u) ELSE metricsApp
        /\ UNCHANGED <<related, ip, behind, members, config, alerts, errors>>
    BY <1>5 DEF Metrics!UnitJoined, Metrics!SetScrapeJobSpec, Metrics!Consumer
  <2>2. Writes(u)
    BY <1>1, <1>3, <1>4, <2>1 DEF Writes
  <2>3. LeaderPublishes'
    <3>1. Metrics!Published(leader)' = Metrics!Published(leader)
      BY <1>4 DEF Metrics!Published
    <3>2. u # leader => metricsEvents'[leader] = metricsEvents[leader]
      BY <1>1, <2>1
    <3> QED
      BY <1>3, <1>4, <2>1, <3>1, <3>2 DEF LeaderPublishes, MetricsInv
  <2> QED
    BY <2>2, <2>3, PublishStep
<1>6. CASE Metrics!UnitChanged(u)
  <2>1. /\ metricsEvents[u] = {"changed"} /\ metricsEvents' = [metricsEvents EXCEPT ![u] = {}]
        /\ Metrics!SetUnitIp(u) /\ Metrics!News(u)
        /\ UNCHANGED <<metricsApp, related, ip, behind, members, config, alerts, errors>>
    BY <1>6 DEF Metrics!UnitChanged, Metrics!Consumer
  <2>2. Writes(u)
    BY <1>1, <1>3, <1>4, <2>1 DEF Writes
  <2>3. LeaderPublishes'
    <3>1. Metrics!Published(leader)' = Metrics!Published(leader)
      BY <1>4 DEF Metrics!Published
    <3>2. "joined" \in metricsEvents[leader] => "joined" \in metricsEvents'[leader]
      BY <1>1, <2>1
    <3> QED
      BY <1>3, <1>4, <2>1, <3>1, <3>2 DEF LeaderPublishes, MetricsInv
  <2> QED
    BY <2>2, <2>3, PublishStep
<1> QED
  BY <1>5, <1>6

LEMMA CharmHookStep ==
  ASSUME CharmInv, MetricsInv, NEW u \in here, NEW e \in CharmEvents \cup {"update_status"}, CharmHook(u, e)
  PROVE  MetricsInv'
<1>1. u \in Units /\ leader \in Units /\ metricsEvents \in [Units -> SUBSET {"joined", "changed"}]
  BY DEF CharmInv, MetricsInv, MetricsTyped, Metrics!TypeOK
<1>2. /\ UNCHANGED <<leader, here, revision, focus>>
      /\ due' = [due EXCEPT ![u] = @ \ {e}] /\ due \in [Units -> SUBSET CharmEvents]
      /\ behind' = IF e = "update_status" THEN behind \ {u} ELSE behind
      /\ UNCHANGED <<related, ip, metricsEvents, members, config, alerts, errors>>
      /\ IF related /\ e \in {"leader_elected", "update_status"}
           THEN /\ Metrics!SetUnitIp(u) /\ Metrics!News(u)
                /\ metricsApp' = IF u = leader THEN Metrics!Published(u) ELSE metricsApp
           ELSE UNCHANGED <<address, metricsApp, prometheusEvents>>
  BY DEF CharmHook, CharmInv, Metrics!CharmEvent, Metrics!SetScrapeJobSpec, Metrics!Consumer
<1>3. Metrics!Published(leader)' = Metrics!Published(leader)
  BY <1>2 DEF Metrics!Published
<1>4. CASE related /\ e \in {"leader_elected", "update_status"}
  <2>1. Writes(u)
    BY <1>1, <1>2, <1>4 DEF Writes
  <2>2. u # leader => due'[leader] = due[leader]
    BY <1>1, <1>2
  <2>3. LeaderPublishes'
    BY <1>2, <1>3, <1>4, <2>2 DEF LeaderPublishes, MetricsInv
  <2> QED
    BY <2>1, <2>3, PublishStep
<1>5. CASE ~(related /\ e \in {"leader_elected", "update_status"})
  <2>1. UNCHANGED behind
    BY <1>2, <1>5 DEF MetricsInv, MetricsTyped, Unrelated
  <2>2. UNCHANGED metrics
    BY <1>2, <1>5, <2>1 DEF metrics
  <2>3. related => LeaderPublishes'
    <3>1. related /\ "leader_elected" \in due[leader] => "leader_elected" \in due'[leader]
      BY <1>1, <1>2, <1>5
    <3> QED
      BY <1>2, <1>3, <1>5, <2>1, <3>1 DEF LeaderPublishes, MetricsInv
  <2> QED
    BY <1>2, <2>2, <2>3, StillStep
<1> QED
  BY <1>4, <1>5

\* What a unit of Prometheus reads does not change.
LEMMA FollowsKept ==
  ASSUME MetricsInv, NEW p \in Scrapers, UNCHANGED <<metricsApp, members, config, alerts, errors>>,
         \A v \in members[p] : address'[v] = address[v],
         ToRead(p) => ToRead(p)'
  PROVE  (ToRead(p) \/ InSync(p))' /\ NamesDiffer(p)'
<1>1. InSync(p) => InSync(p)'
  BY InSyncKept
<1>2. NamesDiffer(p)'
  BY DEF MetricsInv, NamesDiffer
<1> QED
  BY <1>1, <1>2 DEF MetricsInv

LEMMA RelateStep ==
  ASSUME CharmInv, MetricsInv, Metrics!Relate, UNCHANGED charm
  PROVE  MetricsInv'
<1>1. /\ ~related /\ related' = TRUE /\ ip' \in [Units -> Addresses \cup {None}]
      /\ metricsEvents' = [u \in Units |-> IF u \in here THEN {"joined"} ELSE {}]
      /\ prometheusEvents' = [p \in Scrapers |-> {"joined"} \X here]
      /\ UNCHANGED <<address, metricsApp, behind, members, config, alerts, errors>>
  BY DEF Metrics!Relate, Metrics!Consumer
<1>2. MetricsTyped /\ Unrelated /\ UNCHANGED <<leader, here, focus>> /\ here \subseteq Units /\ leader \in here
  BY <1>1 DEF charm, MetricsInv, MetricsTyped, CharmInv
<1>3. MetricsTyped'
  <2>1. {"joined"} \X here \in SUBSET Metrics!MailType
    BY <1>2 DEF Metrics!MailType
  <2>2. prometheusEvents' \in [Scrapers -> SUBSET Metrics!MailType]
    BY <1>1, <2>1
  <2>3. metricsEvents' \in [Units -> SUBSET {"joined", "changed"}]
    BY <1>1
  <2>4. Metrics!TypeOK'
    BY <1>1, <1>2, <2>2, <2>3 DEF MetricsTyped, Metrics!TypeOK
  <2> QED
    BY <1>1, <1>2, <2>4 DEF MetricsTyped
<1>4. \A u \in here : "joined" \in metricsEvents'[u]
  BY <1>1, <1>2
<1>5. LeaderPublishes' /\ \A u \in here : UnitPublishes(u)'
  BY <1>2, <1>4 DEF LeaderPublishes, UnitPublishes
<1>6. ASSUME NEW p \in Scrapers
      PROVE  MembersFollow(p)' /\ (ToRead(p) \/ InSync(p))' /\ NamesDiffer(p)'
  <2>1. members[p] = {} /\ prometheusEvents[p] = {} /\ prometheusEvents'[p] = {"joined"} \X here
    BY <1>1, <1>2 DEF Unrelated
  <2>2. MembersFollow(p)'
    <3>1. /\ \A v : <<"joined", v>> \in {"joined"} \X here <=> v \in here
          /\ \A v : <<"departed", v>> \notin {"joined"} \X here
      OBVIOUS
    <3> QED
      BY <1>1, <1>2, <2>1, <3>1 DEF MembersFollow
  <2>3. ~ToRead(p)
    BY <2>1 DEF ToRead
  <2> QED
    BY <1>1, <2>2, <2>3, FollowsKept
<1> QED
  BY <1>1, <1>2, <1>3, <1>5, <1>6 DEF MetricsInv

LEMMA PodStep ==
  ASSUME CharmInv, MetricsInv, NEW u \in Units, PodReplaced(u)
  PROVE  MetricsInv'
<1>1. /\ Metrics!PodMoves(u) /\ UNCHANGED <<leader, here, focus>> /\ u \in here
      /\ \A v \in Units \ {u} : due'[v] = due[v] /\ revision'[v] = revision[v]
  BY DEF PodReplaced, CharmInv
<1>2. UNCHANGED <<related, address, metricsApp, metricsEvents, prometheusEvents, members, config, alerts, errors>>
  BY <1>1 DEF Metrics!PodMoves, Metrics!Consumer
<1>3. IF related THEN /\ \E a \in Metrics!FreeAddresses(u) : ip' = [ip EXCEPT ![u] = a]
                      /\ behind' = behind \cup {u}
      ELSE UNCHANGED <<ip, behind>>
  BY <1>1 DEF Metrics!PodMoves
<1>4. leader \in Units /\ \A v \in here : v \in Units
  BY DEF CharmInv
<1>5. MetricsTyped'
  <2>1. ip' \in [Units -> Addresses \cup {None}] /\ behind' \subseteq Units
    BY <1>3 DEF Metrics!FreeAddresses, MetricsInv, MetricsTyped, Metrics!TypeOK
  <2>2. Metrics!TypeOK'
    BY <1>2, <2>1 DEF MetricsInv, MetricsTyped, Metrics!TypeOK
  <2>3. ~related => Unrelated'
    BY <1>2, <1>3 DEF MetricsInv, MetricsTyped, Unrelated
  <2> QED
    BY <1>1, <1>2, <2>2, <2>3 DEF MetricsInv, MetricsTyped
<1>6. related => LeaderPublishes'
  <2>1. u # leader => Metrics!Published(leader)' = Metrics!Published(leader)
    BY <1>1, <1>4 DEF Metrics!Published
  <2> QED
    BY <1>1, <1>2, <1>3, <1>4, <2>1 DEF LeaderPublishes, MetricsInv
<1>7. ASSUME related, NEW v \in here
      PROVE  UnitPublishes(v)'
  <2>1. CASE v = u
    BY <1>3, <1>7, <2>1 DEF UnitPublishes
  <2>2. CASE v # u
    <3>1. ip'[v] = ip[v]
      BY <1>3, <1>4, <1>7, <2>2 DEF MetricsInv, MetricsTyped, Metrics!TypeOK
    <3>2. Metrics!Binding(v)' = Metrics!Binding(v)
      BY <3>1 DEF Metrics!Binding
    <3> QED
      BY <1>2, <1>3, <1>7, <3>2 DEF UnitPublishes, MetricsInv
  <2> QED
    BY <2>1, <2>2
<1>8. ASSUME NEW p \in Scrapers
      PROVE  MembersFollow(p)' /\ (ToRead(p) \/ InSync(p))' /\ NamesDiffer(p)'
  <2>1. MembersFollow(p)'
    BY <1>1, <1>2 DEF MembersFollow, MetricsInv
  <2>2. ToRead(p) => ToRead(p)'
    BY <1>2 DEF ToRead
  <2> QED
    BY <1>2, <2>1, <2>2, FollowsKept
<1> QED
  BY <1>1, <1>2, <1>5, <1>6, <1>7, <1>8 DEF MetricsInv

LEMMA ArriveStep ==
  ASSUME CharmInv, MetricsInv, NEW u \in Units, UnitArrives(u)
  PROVE  MetricsInv'
<1>1. /\ Metrics!UnitArrives(u) /\ UNCHANGED <<leader, focus>> /\ u \notin here /\ here' = here \cup {u}
      /\ \A v \in Units \ {u} : due'[v] = due[v] /\ revision'[v] = revision[v]
  BY DEF UnitArrives, CharmInv
<1>2. /\ UNCHANGED <<related, metricsApp, behind, members, config, alerts, errors>>
      /\ address' = [address EXCEPT ![u] = None]
      /\ \A p \in Scrapers : u \notin members[p]
  BY <1>1 DEF Metrics!UnitArrives, Metrics!Consumer
<1>3. IF related
       THEN /\ \E a \in Metrics!FreeAddresses(u) : ip' = [ip EXCEPT ![u] = a]
            /\ metricsEvents' = [metricsEvents EXCEPT ![u] = {"joined"}]
            /\ prometheusEvents' = [p \in Scrapers |-> prometheusEvents[p] \cup {<<"joined", u>>}]
       ELSE UNCHANGED <<ip, metricsEvents, prometheusEvents>>
  BY <1>1 DEF Metrics!UnitArrives
<1>4. leader \in Units /\ leader # u /\ \A v \in here : v \in Units /\ v # u
  BY <1>1 DEF CharmInv
<1>5. Metrics!TypeOK /\ MetricsTyped
  BY DEF MetricsInv, MetricsTyped
<1>6. /\ metricsEvents' \in [Units -> SUBSET {"joined", "changed"}]
      /\ related => "joined" \in metricsEvents'[u]
      /\ \A v \in Units \ {u} : metricsEvents'[v] = metricsEvents[v]
  BY <1>3, <1>5 DEF Metrics!TypeOK
<1>7. /\ ip' \in [Units -> Addresses \cup {None}]
      /\ \A v \in Units \ {u} : ip'[v] = ip[v]
  BY <1>3, <1>5 DEF Metrics!TypeOK, Metrics!FreeAddresses
<1>8. DOMAIN address' = Units /\ address'[u] = None /\ \A v \in Units \ {u} : address'[v] = address[v]
  BY <1>2, <1>5 DEF MetricsTyped
<1>9. MetricsTyped'
  <2>1. prometheusEvents' \in [Scrapers -> SUBSET Metrics!MailType]
    <3>1. <<"joined", u>> \in Metrics!MailType
      BY DEF Metrics!MailType
    <3> QED
      BY <1>3, <1>5, <3>1 DEF Metrics!TypeOK
  <2>2. \A v \in Units : address'[v] = None \/ address'[v] \in [address: Addresses \cup Units, fqdn: Units]
    BY <1>5, <1>8 DEF Metrics!TypeOK
  <2>3. Metrics!TypeOK'
    BY <1>2, <1>5, <1>6, <1>7, <2>1, <2>2 DEF Metrics!TypeOK
  <2>4. ~related => Unrelated'
    BY <1>2, <1>3, <1>5, <1>8 DEF MetricsTyped, Unrelated
  <2> QED
    BY <1>1, <1>2, <1>5, <1>8, <2>3, <2>4 DEF MetricsTyped
<1>10. related => LeaderPublishes'
  <2>1. Metrics!Published(leader)' = Metrics!Published(leader)
    BY <1>1, <1>4 DEF Metrics!Published
  <2> QED
    BY <1>1, <1>2, <1>4, <1>6, <2>1 DEF LeaderPublishes, MetricsInv
<1>11. ASSUME related, NEW v \in here'
       PROVE  UnitPublishes(v)'
  <2>1. CASE v = u
    BY <1>6, <1>11, <2>1 DEF UnitPublishes
  <2>2. CASE v # u
    <3>1. v \in here /\ v \in Units
      BY <1>1, <1>4, <1>11, <2>2
    <3>2. Metrics!Binding(v)' = Metrics!Binding(v)
      BY <1>7, <2>2, <3>1 DEF Metrics!Binding
    <3> QED
      BY <1>2, <1>6, <1>8, <1>11, <2>2, <3>1, <3>2 DEF UnitPublishes, MetricsInv
  <2> QED
    BY <2>1, <2>2
<1>12. ASSUME NEW p \in Scrapers
       PROVE  MembersFollow(p)' /\ (ToRead(p) \/ InSync(p))' /\ NamesDiffer(p)'
  <2>1. MembersFollow(p) /\ u \notin members[p] /\ members[p] \subseteq Units
    BY <1>2, <1>5 DEF MetricsInv, Metrics!TypeOK
  <2>2. CASE related
    <3>1. prometheusEvents'[p] = prometheusEvents[p] \cup {<<"joined", u>>}
      BY <1>3, <2>2
    <3>2. \A v : /\ <<"joined", v>> \in prometheusEvents'[p] <=> <<"joined", v>> \in prometheusEvents[p] \/ v = u
                 /\ <<"departed", v>> \in prometheusEvents'[p] <=> <<"departed", v>> \in prometheusEvents[p]
      BY <3>1
    <3>3. MembersFollow(p)'
      BY <1>1, <1>2, <2>1, <3>2 DEF MembersFollow
    <3>4. ToRead(p) => ToRead(p)'
      BY <1>2, <3>1 DEF ToRead
    <3> QED
      BY <1>2, <1>8, <2>1, <3>3, <3>4, FollowsKept
  <2>3. CASE ~related
    <3>1. MembersFollow(p)'
      BY <1>1, <1>2, <1>3, <1>5, <2>3 DEF MembersFollow, MetricsTyped, Unrelated
    <3>2. ToRead(p) => ToRead(p)'
      BY <1>2, <1>3, <2>3 DEF ToRead
    <3> QED
      BY <1>2, <1>8, <2>1, <3>1, <3>2, FollowsKept
  <2> QED
    BY <2>2, <2>3
<1> QED
  BY <1>1, <1>2, <1>9, <1>10, <1>11, <1>12 DEF MetricsInv

LEMMA DepartStep ==
  ASSUME CharmInv, MetricsInv, NEW u \in Units, UnitDeparts(u)
  PROVE  MetricsInv'
<1>1. /\ Metrics!UnitDeparts(u) /\ UNCHANGED <<leader, revision, focus>> /\ u # leader /\ here' = here \ {u}
      /\ \A v \in Units \ {u} : due'[v] = due[v]
  BY DEF UnitDeparts, CharmInv
<1>2. /\ metricsEvents' = [metricsEvents EXCEPT ![u] = {}]
      /\ behind' = behind \ {u}
      /\ prometheusEvents' = [p \in Scrapers |->
            IF u \in members[p] THEN prometheusEvents[p] \cup {<<"departed", u>>}
            ELSE {e \in prometheusEvents[p] : e[2] # u}]
      /\ UNCHANGED <<related, ip, address, metricsApp, members, config, alerts, errors>>
  BY <1>1 DEF Metrics!UnitDeparts, Metrics!Consumer
<1>3. Metrics!TypeOK /\ MetricsTyped
  BY DEF MetricsInv, MetricsTyped
<1>4. /\ metricsEvents' \in [Units -> SUBSET {"joined", "changed"}]
      /\ metricsEvents'[u] = {} /\ \A v \in Units \ {u} : metricsEvents'[v] = metricsEvents[v]
  BY <1>2, <1>3 DEF Metrics!TypeOK
<1>5. leader \in Units /\ \A v \in here : v \in Units
  BY DEF CharmInv
<1>6. MetricsTyped'
  <2>1. prometheusEvents' \in [Scrapers -> SUBSET Metrics!MailType]
    <3>1. <<"departed", u>> \in Metrics!MailType
      BY DEF Metrics!MailType
    <3> QED
      BY <1>2, <1>3, <3>1 DEF Metrics!TypeOK
  <2>2. Metrics!TypeOK'
    BY <1>2, <1>3, <1>4, <2>1 DEF Metrics!TypeOK
  <2>3. ~related => Unrelated'
    <3> SUFFICES ASSUME ~related
                 PROVE  Unrelated'
      OBVIOUS
    <3>1. Unrelated
      BY <1>3 DEF MetricsTyped
    <3>2. \A p \in Scrapers : prometheusEvents'[p] = {}
      BY <1>2, <3>1 DEF Unrelated
    <3>3. \A v \in Units : metricsEvents'[v] = {}
      BY <1>4, <3>1 DEF Unrelated
    <3> QED
      BY <1>2, <3>1, <3>2, <3>3 DEF Unrelated
  <2> QED
    BY <1>1, <1>2, <1>3, <2>2, <2>3 DEF MetricsTyped
<1>7. related => LeaderPublishes'
  <2>1. Metrics!Published(leader)' = Metrics!Published(leader)
    BY <1>1 DEF Metrics!Published
  <2> QED
    BY <1>1, <1>2, <1>4, <1>5, <2>1 DEF LeaderPublishes, MetricsInv
<1>8. ASSUME related, NEW v \in here'
      PROVE  UnitPublishes(v)'
  <2>1. v \in here /\ v \in Units /\ v # u
    BY <1>1, <1>5, <1>8
  <2>2. Metrics!Binding(v)' = Metrics!Binding(v)
    BY <1>2 DEF Metrics!Binding
  <2> QED
    BY <1>2, <1>4, <1>8, <2>1, <2>2 DEF UnitPublishes, MetricsInv
<1>9. ASSUME NEW p \in Scrapers
      PROVE  MembersFollow(p)' /\ (ToRead(p) \/ InSync(p))' /\ NamesDiffer(p)'
  <2>1. MembersFollow(p) /\ members[p] \subseteq Units /\ None \notin Units
    BY <1>3, NoneAssumption DEF MetricsInv, Metrics!TypeOK
  <2>2. CASE u \in members[p]
    <3>1. prometheusEvents'[p] = prometheusEvents[p] \cup {<<"departed", u>>}
      BY <1>2, <2>2
    <3>2. \A v : /\ <<"joined", v>> \in prometheusEvents'[p] <=> <<"joined", v>> \in prometheusEvents[p]
                 /\ <<"departed", v>> \in prometheusEvents'[p] <=> <<"departed", v>> \in prometheusEvents[p] \/ v = u
      BY <3>1
    <3>3. MembersFollow(p)'
      BY <1>1, <1>2, <2>1, <2>2, <3>2 DEF MembersFollow
    <3>4. ToRead(p) => ToRead(p)'
      BY <1>2, <3>1 DEF ToRead
    <3> QED
      BY <1>2, <3>3, <3>4, FollowsKept
  <2>3. CASE u \notin members[p]
    <3>1. prometheusEvents'[p] = {e \in prometheusEvents[p] : e[2] # u}
      BY <1>2, <2>3
    <3>2. \A v : /\ <<"joined", v>> \in prometheusEvents'[p] <=> <<"joined", v>> \in prometheusEvents[p] /\ v # u
                 /\ <<"departed", v>> \in prometheusEvents'[p] <=> <<"departed", v>> \in prometheusEvents[p] /\ v # u
      BY <3>1
    <3>3. MembersFollow(p)'
      BY <1>1, <1>2, <2>1, <2>3, <3>2 DEF MembersFollow
    <3>4. ToRead(p) => ToRead(p)'
      BY <1>2, <2>1, <2>3, <3>1 DEF ToRead
    <3> QED
      BY <1>2, <3>3, <3>4, FollowsKept
  <2> QED
    BY <2>2, <2>3
<1> QED
  BY <1>1, <1>2, <1>6, <1>7, <1>8, <1>9 DEF MetricsInv

LEMMA MetricsInit == Init => MetricsInv
<1> SUFFICES ASSUME Init
             PROVE  MetricsInv
  OBVIOUS
<1>1. Metrics!Init
  BY DEF Init
<1>2. Metrics!TypeOK
  BY <1>1 DEF Metrics!Init, Metrics!TypeOK
<1>3. MetricsTyped
  BY <1>1, <1>2 DEF Metrics!Init, MetricsTyped, Unrelated
<1>4. ASSUME NEW p \in Scrapers
      PROVE  MembersFollow(p) /\ InSync(p) /\ NamesDiffer(p)
  <2>1. members[p] = {} /\ prometheusEvents[p] = {} /\ config[p] = {} /\ alerts[p] = None /\ ~related
    BY <1>1 DEF Metrics!Init
  <2>2. ~Metrics!Reads(members[p])
    BY <2>1 DEF Metrics!Reads
  <2>3. JobsFrom(members[p]) = {}
    BY <2>2 DEF JobsFrom
  <2>4. InSync(p)
    BY <2>1, <2>2, <2>3 DEF InSync, Read, Reported
  <2> QED
    BY <2>1, <2>4 DEF MembersFollow, NamesDiffer
<1> QED
  BY <1>1, <1>3, <1>4 DEF MetricsInv, Metrics!Init

LEMMA MetricsStep == CharmInv /\ MetricsInv /\ [Next]_vars => MetricsInv'
<1> SUFFICES ASSUME CharmInv, MetricsInv, [Next]_vars
             PROVE  MetricsInv'
  OBVIOUS
<1>1. ASSUME UNCHANGED <<metrics, leader, here, focus, due, revision>>
      PROVE  MetricsInv'
  <2>1. related => LeaderPublishes'
    BY <1>1 DEF metrics, MetricsInv, LeaderPublishes, Metrics!Published
  <2> QED
    BY <1>1, <2>1, StillStep
<1>2. CASE UNCHANGED vars
  BY <1>1, <1>2 DEF vars, charm
<1>3. CASE RelationHook
  <2>1. UNCHANGED charm /\ (Metrics!Hooks \/ UNCHANGED metrics)
    BY <1>3 DEF RelationHook
  <2> QED
    BY <1>1, <2>1, JoinedStep, ScraperStep DEF Metrics!Hooks, charm
<1>4. CASE Integrate
  <2>1. UNCHANGED charm /\ (Metrics!Relate \/ UNCHANGED metrics)
    BY <1>4 DEF Integrate
  <2> QED
    BY <1>1, <2>1, RelateStep DEF charm
<1>5. CASE RelationEdit
  BY <1>1, <1>5 DEF RelationEdit
<1>6. ASSUME NEW u \in Units, Elect(u)
      PROVE  MetricsInv'
  <2>1. leader' = u /\ UNCHANGED <<metrics, here, focus>>
        /\ due' = [due EXCEPT ![u] = @ \cup {"leader_elected"}]
    BY <1>6 DEF Elect
  <2>2. "leader_elected" \in due'[leader']
    BY <2>1 DEF CharmInv
  <2> QED
    BY <2>1, <2>2, StillStep DEF LeaderPublishes
<1>7. ASSUME NEW r \in Revisions[focus], Refresh(r)
      PROVE  MetricsInv'
  BY <1>1, <1>7 DEF Refresh
<1> QED
  BY <1>2, <1>3, <1>4, <1>5, <1>6, <1>7, CharmHookStep, PodStep, ArriveStep, DepartStep DEF Next

\* When nothing is left to handle, each unit of Prometheus reads of the units there are,
\* at the addresses they have, the revision the leader runs.
LEMMA SettledIs ==
  ASSUME CharmInv, MetricsInv, Metrics!Settled
  PROVE  /\ MetricsTyped
         /\ metricsApp = Metrics!Published(leader)
         /\ metricsApp # None
         /\ \E v \in Revisions[focus] : metricsApp = [jobs |-> v.jobs, rules |-> v.rules]
         /\ here # {}
         /\ \A u \in here : address[u] = Metrics!Binding(u) /\ address[u] # None
         /\ DOMAIN Metrics!Hosts(here) = here
         /\ \A u \in here : Metrics!Hosts(here)[u] = Metrics!Binding(u)
         /\ \A p \in Scrapers : members[p] = here /\ InSync(p)
<1>1. /\ related /\ behind = {}
      /\ \A u \in here : metricsEvents[u] = {} /\ due[u] = {}
      /\ \A p \in Scrapers : prometheusEvents[p] = {}
  BY DEF Metrics!Settled
<1>2. leader \in here /\ here \subseteq Units /\ revision[leader] \in Revisions[focus] /\ focus \in Relations
  BY DEF CharmInv
<1>3. metricsApp = Metrics!Published(leader)
  BY <1>1, <1>2 DEF MetricsInv, LeaderPublishes
<1>4. metricsApp # None
  BY <1>2, <1>3, NoneAssumption DEF Metrics!Published
<1>5. \E v \in Revisions[focus] : metricsApp = [jobs |-> v.jobs, rules |-> v.rules]
  BY <1>2, <1>3 DEF Metrics!Published
<1>6. \A u \in here : address[u] = Metrics!Binding(u)
  BY <1>1 DEF MetricsInv, UnitPublishes
<1>7. \A u \in here : address[u] # None
  BY <1>6, BindingIs, NoneAssumption
<1>8. {v \in here : address[v] # None} = here
  BY <1>7
<1>9. Metrics!Hosts(here) = [u \in here |-> address[u]]
  BY <1>8 DEF Metrics!Hosts
<1>10. ASSUME NEW p \in Scrapers
       PROVE  members[p] = here /\ InSync(p)
  <2>1. \A u : u \in members[p] => u \in here
    BY <1>1 DEF MetricsInv, MembersFollow
  <2>2. \A u : u \in here => u \in members[p]
    BY <1>1 DEF MetricsInv, MembersFollow
  <2>3. ~ToRead(p)
    BY <1>1 DEF ToRead
  <2> QED
    BY <2>1, <2>2, <2>3 DEF MetricsInv
<1> QED
  BY <1>2, <1>3, <1>4, <1>5, <1>6, <1>7, <1>9, <1>10 DEF MetricsInv

\* When everything is handled, what is published is what the leader runs, whoever led
\* when it changed (MetricsEndpointProvider._set_scrape_job_spec).
THEOREM RevisionPublished == Spec => []PublishesRevision
<1>1. CharmInv /\ MetricsInv => PublishesRevision
  BY SettledIs DEF PublishesRevision, Metrics!PublishesRevision
<1> QED
  BY <1>1, CharmInit, CharmStep, MetricsInit, MetricsStep, PTL DEF Spec

\* Prometheus never gets two jobs of one name, which it would refuse (_dedupe_job_names).
THEOREM NamesUnique == Spec => []JobNamesUnique
<1>1. MetricsInv => JobNamesUnique
  BY DEF MetricsInv, NamesDiffer, JobNamesUnique, Metrics!JobNamesUnique
<1> QED
  BY <1>1, CharmInit, CharmStep, MetricsInit, MetricsStep, PTL DEF Spec

\* What each unit of Prometheus runs when everything is handled.
LEMMA SettledJobs ==
  ASSUME CharmInv, MetricsInv, Metrics!Settled, NEW p \in Scrapers
  PROVE  /\ Made(JobsFrom(members[p]), metricsApp.jobs, Metrics!Hosts(here))
         /\ JobsFrom(members[p]) # {}
         /\ Metrics!JobsAreValid(JobsFrom(members[p])) <=> Metrics!JobsAreValid(metricsApp.jobs)
         /\ Metrics!Reads(members[p])
<1>1. members[p] = here /\ here # {} /\ metricsApp # None /\ MetricsTyped
  BY SettledIs
<1>2. Metrics!Reads(members[p])
  BY <1>1 DEF Metrics!Reads
<1>3. JobsFrom(members[p]) = Metrics!Jobs(here)
  BY <1>1, <1>2 DEF JobsFrom
<1>4. Made(Metrics!Jobs(here), metricsApp.jobs, Metrics!Hosts(here))
  BY <1>1, ReadAre
<1>5. metricsApp.jobs # {}
  <2>1. PICK v \in Revisions[focus] : metricsApp = [jobs |-> v.jobs, rules |-> v.rules]
    BY SettledIs
  <2>2. v.jobs # {}
    BY RevisionsAssumption DEF CharmInv
  <2> QED
    BY <2>1, <2>2
<1>6. DOMAIN Metrics!Hosts(here) # {}
  BY <1>1, SettledIs
<1> DEFINE J == Metrics!Jobs(here)
           jobs == metricsApp.jobs
<1>7. /\ \A d \in J : \E job \in jobs : d.ok = job.ok
      /\ \A job \in jobs : \E d \in J : d.ok = job.ok
  BY <1>4, <1>6 DEF Made
<1>8. J # {} /\ (Metrics!JobsAreValid(J) <=> Metrics!JobsAreValid(jobs))
  <2> HIDE DEF J, jobs
  <2>1. jobs # {}
    BY <1>5 DEF jobs
  <2> QED
    BY <1>7, <2>1 DEF Metrics!JobsAreValid
<1> QED
  BY <1>2, <1>3, <1>4, <1>8

\* When everything is handled, Prometheus scrapes under each unit the address it has now,
\* and every unit if a job asks for all of them: no address of a pod that moved or
\* departed, or that now is another's
\* (MetricsEndpointProvider._set_unit_ip, MetricsEndpointConsumer.jobs).
THEOREM UnitsScraped == Spec => []ScrapesTheUnits
<1>1. ASSUME CharmInv, MetricsInv
      PROVE  ScrapesTheUnits
  <2> SUFFICES ASSUME Metrics!Settled, NEW p \in Scrapers
               PROVE  /\ \A e \in Metrics!Entries(p) : e.unit # None =>
                           e.unit \in here /\ e.targets \subseteq {Metrics!Binding(e.unit).address, e.unit}
                      /\ (Metrics!JobsAreValid(metricsApp.jobs) /\ \E job \in metricsApp.jobs :
                            \E ts \in Metrics!Sanitized(job).static : Metrics!Wildcard \in ts) =>
                           \A u \in here : \E e \in Metrics!Entries(p) : e.unit = u
    BY <1>1 DEF ScrapesTheUnits, Metrics!ScrapesTheUnits
  <2> DEFINE J == JobsFrom(members[p])
             hosts == Metrics!Hosts(here)
  <2>1. Made(J, metricsApp.jobs, hosts) /\ (Metrics!JobsAreValid(J) <=> Metrics!JobsAreValid(metricsApp.jobs))
    BY <1>1, SettledJobs
  <2>2. DOMAIN hosts = here /\ \A u \in here : hosts[u] = Metrics!Binding(u)
    BY <1>1, SettledIs
  <2>3. config[p] = IF Metrics!JobsAreValid(J) THEN J ELSE {}
    BY <1>1, SettledIs DEF InSync, Read
  <2> HIDE DEF J, hosts
  <2>4. \A u \in here : Metrics!Binding(u).fqdn = u
    BY DEF Metrics!Binding
  <2>5. ASSUME NEW e \in Metrics!Entries(p), e.unit # None
        PROVE  e.unit \in here /\ e.targets \subseteq {Metrics!Binding(e.unit).address, e.unit}
    <3>1. PICK d \in J : e \in d.static
      BY <2>3 DEF Metrics!Entries
    <3>2. About(e, hosts)
      BY <2>1, <3>1 DEF Made
    <3> QED
      BY <2>2, <2>4, <2>5, <3>2 DEF About
  <2>6. ASSUME Metrics!JobsAreValid(metricsApp.jobs), NEW job \in metricsApp.jobs,
               NEW ts \in Metrics!Sanitized(job).static, Metrics!Wildcard \in ts, NEW u \in here
        PROVE  \E e \in Metrics!Entries(p) : e.unit = u
    <3>1. config[p] = J
      BY <2>1, <2>3, <2>6
    <3>2. \E d \in J : \E e \in d.static : e.unit = u
      BY <2>1, <2>2, <2>6 DEF Made, Metrics!Wildcard
    <3> QED
      BY <3>1, <3>2 DEF Metrics!Entries
  <2> QED
    BY <2>5, <2>6
<1> QED
  BY <1>1, CharmInit, CharmStep, MetricsInit, MetricsStep, PTL DEF Spec

\* When everything is handled, an error is reported exactly when what is published has
\* one; rules that were taken away leave the report of the earlier ones
\* (MetricsEndpointConsumer.jobs, alerts).
THEOREM ErrorsAreReported == Spec => []ErrorsReported
<1>1. ASSUME CharmInv, MetricsInv
      PROVE  ErrorsReported
  <2> SUFFICES ASSUME Metrics!Settled
               PROVE  /\ errors.jobs <=> ~Metrics!JobsAreValid(metricsApp.jobs)
                      /\ metricsApp.rules # "none" => (errors.rules <=> metricsApp.rules = "bad")
                      /\ \A p \in Scrapers : alerts[p] = "good" <=> metricsApp.rules = "good"
    BY <1>1 DEF ErrorsReported, Metrics!ErrorsReported
  <2>1. LeadP \in Scrapers
    BY OthersAssumption DEF LeadP
  <2>2. /\ JobsFrom(members[LeadP]) # {} /\ Metrics!Reads(members[LeadP])
        /\ Metrics!JobsAreValid(JobsFrom(members[LeadP])) <=> Metrics!JobsAreValid(metricsApp.jobs)
    BY <1>1, <2>1, SettledJobs
  <2>3. Reported(LeadP)
    BY <1>1, <2>1, SettledIs DEF InSync
  <2>4. \A p \in Scrapers : Read(p) /\ Metrics!Reads(members[p])
    BY <1>1, SettledIs, SettledJobs DEF InSync
  <2>5. \A p \in Scrapers : alerts[p] = "good" <=> metricsApp.rules = "good"
    BY <2>4, NoneAssumption DEF Read
  <2> QED
    BY <2>2, <2>3, <2>5 DEF Reported
<1> QED
  BY <1>1, CharmInit, CharmStep, MetricsInit, MetricsStep, PTL DEF Spec

-------------------------------------------------------------------------------

\* The state of the three relations is well typed, whatever the charm, its operators and
\* the other side do: no event is about a unit that is not there, no error is reported
\* that is none.
THEOREM ObservabilityTyped == Spec => []TypeOK
<1>1. CharmInv /\ LoggingInv /\ MetricsInv /\ BoardsInv => TypeOK
  BY DEF CharmInv, LoggingInv, MetricsInv, MetricsTyped, BoardsInv, BoardsTyped, TypeOK
<1> QED
  BY <1>1, CharmInit, CharmStep, LoggingInit, LoggingStep, MetricsInit, MetricsStep,
     BoardsInit, BoardsStep, PTL DEF Spec

===============================================================================
