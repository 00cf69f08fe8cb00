------------------------------- MODULE Templates -------------------------------
(***************************************************************************)
(* How Grafana makes a dashboard of a charm its own: the variables of the   *)
(* library are added to those of the dashboard, its panels are pointed at   *)
(* them, the variables they replace are removed, and the queries are        *)
(* narrowed to what the reader picks from them (CharmedDashboard).          *)
(*                                                                          *)
(* A variable is [name, kind, ours]: its kind is that of the data source it *)
(* stands for, or "value"; it is ours when it is one of the library's.  A   *)
(* panel is [source, place, narrowed]: its data source, whether it is in    *)
(* the panels or in the rows of the dashboard, and whether its queries use  *)
(* the topology variables.  A data source is [name, kind, dict, braces]:    *)
(* the name of a variable or of a server, the type written in it or in its  *)
(* name, and how it is written.  A dashboard is [inputs, templating, vars,  *)
(* panels].                                                                 *)
(***************************************************************************)

CONSTANT None  \* no value

SourceKinds == {"prometheus", "loki", "grafana", "other"}

Ours(name, kind) == [name |-> name, kind |-> kind, ours |-> TRUE]

DatasourceDropdowns == {Ours("prometheusds", "prometheus"), Ours("lokids", "loki")}

TopologyDropdowns ==
  {Ours(n, "value") : n \in {"juju_model", "juju_model_uuid", "juju_application", "juju_unit"}}

\* The variable of the library for a kind of data source.
Replacement(kind) == IF kind = "loki" THEN "lokids" ELSE "prometheusds"

Known == {"prometheusds", "lokids"}

Names(vars) == {v.name : v \in vars}

DatasourceVars(d) == {v \in d.vars : v.kind # "value"}

\* The data sources the dashboard declares, as variables or as inputs.
Datasources(d) ==
  DatasourceVars(d) \cup {v \in d.inputs : v.name \notin Names(DatasourceVars(d))}

\* Mutant: the dropdowns of the data sources are left to the dashboard.
StubbedWithTopology(d) ==
  d.vars \cup {v \in TopologyDropdowns : v.name \notin Names(d.vars)}

\* The library's own are added unless the dashboard has one of that name.
Stubbed(d) ==
  d.vars \cup {v \in TopologyDropdowns \cup DatasourceDropdowns : v.name \notin Names(d.vars)}

\* A panel of a dashboard that has no variables is pointed at the library's by the type
\* of its data source, or by what its name contains.
Recognized(source) ==
  IF source.dict THEN source.kind \in {"loki", "prometheus"} ELSE source.kind # "grafana"

\* In one that has, a panel already on the library's, by name, is left alone.
IsKnown(source) == source.braces /\ source.name \in Known

\* The declarations of the data source a panel names, of a kind the library replaces.
Declarations(d, source) ==
  {v \in Datasources(d) : v.name = source.name /\ v.kind \in {"loki", "prometheus"}}

Replaces(d, source) ==
  IF d.templating THEN ~IsKnown(source) /\ Declarations(d, source) # {}
                  ELSE Recognized(source)

KindOf(declarations) == (CHOOSE v \in declarations : TRUE).kind

KindFor(d, source) ==
  IF d.templating THEN KindOf(Declarations(d, source)) ELSE source.kind

On(source, name) == [source EXCEPT !.name = name, !.braces = TRUE]

\* _template_panels
TemplatedSource(d, source) ==
  IF source # None /\ Replaces(d, source)
  THEN On(source, Replacement(KindFor(d, source)))
  ELSE source

TemplatedPanel(d, panel) == [panel EXCEPT !.source = TemplatedSource(d, @)]

\* The names that were replaced in some panel; only a dashboard with variables is asked.
Used(d) ==
  IF ~d.templating THEN {}
  ELSE {p.source.name : p \in {q \in d.panels : q.source # None /\ Replaces(d, q.source)}}

\* _replace_template_fields: what was replaced is removed, but not what is ours.
Kept(d, vars) == {v \in vars : v.name \notin Used(d) \/ v \in DatasourceDropdowns}

\* _convert_dashboard_fields
Converted(d) ==
  [inputs |-> {}, templating |-> TRUE, vars |-> Kept(d, Stubbed(d)),
   panels |-> {TemplatedPanel(d, p) : p \in d.panels}]

\* _inject_labels: the queries of the panels, not of those in rows, that are on a data
\* source of the library are narrowed by the topology variables.
Injected(d) ==
  [d EXCEPT !.panels =
    {IF p.place = "panels" /\ p.source # None /\ IsKnown(p.source)
     THEN [p EXCEPT !.narrowed = TRUE] ELSE p : p \in @}]

Rendered(d) == Injected(Converted(d))

-------------------------------------------------------------------------------

Kinds == SourceKinds \cup {"value"}
Variables == [name : STRING, kind : Kinds, ours : BOOLEAN]
Panels ==
  [source : [name : STRING, kind : SourceKinds, dict : BOOLEAN, braces : BOOLEAN] \cup {None},
   place : {"panels", "rows"}, narrowed : BOOLEAN]
Contents ==
  [inputs : SUBSET Variables, templating : BOOLEAN, vars : SUBSET Variables,
   panels : SUBSET Panels]

\* Data sources of Grafana itself, which are no variables.
BuiltIn == {"grafana"}

\* The dashboards a charm may reasonably publish: a panel names a variable, an input or
\* a data source of Grafana itself, or tells its type where there are no variables;
\* inputs are of a kind that is replaced; a variable of the library's name is referred to
\* in braces.
WellFormed(d) ==
  /\ ~d.templating => d.vars = {}
  /\ \A v \in d.inputs : v.kind \in {"loki", "prometheus"}
  /\ \A p \in d.panels : p.source # None =>
       /\ \/ p.source.name \in Names(d.vars) \cup Known \cup BuiltIn
          \/ IF d.templating THEN p.source.name \in Names(d.inputs) ELSE Recognized(p.source)
       /\ p.source.name \in Known => p.source.braces
  /\ Names(TopologyDropdowns) \cap Names(Datasources(d)) = {}

\* The data source of every panel is declared, and so are the variables the queries
\* were narrowed by and the data source those variables query.
Sound(d) ==
  /\ \A p \in d.panels : p.source # None => p.source.name \in Names(d.vars) \cup BuiltIn
  /\ (\E p \in d.panels : p.narrowed) => Names(TopologyDropdowns) \subseteq Names(d.vars)
  /\ d.vars \cap TopologyDropdowns # {} => "prometheusds" \in Names(d.vars)

===============================================================================
