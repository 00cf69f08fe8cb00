--------------------------- MODULE Templates_proofs ---------------------------
(***************************************************************************)
(* What Grafana makes of a well-formed dashboard is sound, whatever         *)
(* variables, inputs and panels it has.                                     *)
(***************************************************************************)
EXTENDS Templates, TLAPS

\* Grafana's own variables are never removed, nor the topology variables: no panel of a
\* well-formed dashboard has one of those names replaced.
LEMMA OwnNamesUnused ==
  ASSUME NEW d \in Contents, WellFormed(d)
  PROVE  Used(d) \cap (Known \cup Names(TopologyDropdowns)) = {}
<1> SUFFICES ASSUME d.templating, NEW n \in Used(d)
             PROVE  n \notin Known \cup Names(TopologyDropdowns)
  BY DEF Used
<1>1. PICK p \in d.panels : p.source # None /\ Replaces(d, p.source) /\ n = p.source.name
  BY DEF Used
<1>2. ~IsKnown(p.source) /\ Declarations(d, p.source) # {}
  BY <1>1 DEF Replaces
<1>3. n \notin Known
  BY <1>1, <1>2 DEF WellFormed, IsKnown
<1>4. n \in Names(Datasources(d))
  BY <1>1, <1>2 DEF Declarations, Names
<1>5. n \notin Names(TopologyDropdowns)
  BY <1>4 DEF WellFormed
<1> QED
  BY <1>3, <1>5

\* Every name of the library, and every name of the dashboard that was not replaced, is
\* that of a variable of the dashboard as Grafana shows it.
LEMMA KeptNames ==
  ASSUME NEW d \in Contents, WellFormed(d)
  PROVE  /\ Known \subseteq Names(Rendered(d).vars)
         /\ Names(TopologyDropdowns) \subseteq Names(Rendered(d).vars)
         /\ Names(d.vars) \ Used(d) \subseteq Names(Rendered(d).vars)
<1>1. Rendered(d).vars = {v \in Stubbed(d) : v.name \notin Used(d) \/ v \in DatasourceDropdowns}
  BY DEF Rendered, Injected, Converted, Kept
<1>2. \A n \in Names(Stubbed(d)) \ Used(d) : n \in Names(Rendered(d).vars)
  BY <1>1 DEF Names
<1>3. Names(d.vars) \subseteq Names(Stubbed(d))
  BY DEF Names, Stubbed
<1>4. Names(TopologyDropdowns) \cup Names(DatasourceDropdowns) \subseteq Names(Stubbed(d))
  BY DEF Names, Stubbed
<1>5. Known = Names(DatasourceDropdowns)
  BY DEF Known, Names, DatasourceDropdowns, Ours
<1> QED
  BY <1>2, <1>3, <1>4, <1>5, OwnNamesUnused

\* The panels shown are those of the dashboard, on the data source they were given.
LEMMA ShownPanels ==
  ASSUME NEW d \in Contents, NEW q \in Rendered(d).panels
  PROVE  \E p \in d.panels : q.source = TemplatedSource(d, p.source)
<1>1. PICK r \in Converted(d).panels :
        q = IF r.place = "panels" /\ r.source # None /\ IsKnown(r.source)
            THEN [r EXCEPT !.narrowed = TRUE] ELSE r
  BY DEF Rendered, Injected, Converted
<1>2. PICK p \in d.panels : r = TemplatedPanel(d, p)
  BY DEF Converted
<1>3. p \in Panels
  BY DEF Contents
<1>4. r.source = TemplatedSource(d, p.source)
  BY <1>2, <1>3 DEF TemplatedPanel, Panels
<1>5. q.source = r.source
  BY <1>1, <1>2, <1>3 DEF TemplatedPanel, Panels
<1> QED
  BY <1>4, <1>5

\* What Grafana makes of a well-formed dashboard is sound (_convert_dashboard_fields,
\* _replace_template_fields, _template_panels, _inject_labels).
THEOREM RenderedIsSound ==
  ASSUME NEW d \in Contents, WellFormed(d)
  PROVE  Sound(Rendered(d))
<1>1. ASSUME NEW q \in Rendered(d).panels, q.source # None
      PROVE  q.source.name \in Names(Rendered(d).vars) \cup BuiltIn
  <2>1. PICK p \in d.panels : q.source = TemplatedSource(d, p.source)
    BY ShownPanels
  <2>2. p \in Panels /\ p.source # None
    BY <1>1, <2>1 DEF Contents, TemplatedSource
  <2>3. CASE Replaces(d, p.source)
    <3>1. q.source.name \in Known
      BY <2>1, <2>2, <2>3 DEF TemplatedSource, On, Replacement, Known, Panels
    <3> QED
      BY <3>1, KeptNames
  <2>4. CASE ~Replaces(d, p.source)
    <3>1. q.source = p.source
      BY <2>1, <2>4 DEF TemplatedSource
    <3>2. CASE p.source.name \in Known \cup BuiltIn
      BY <3>1, <3>2, KeptNames
    <3>3. CASE ~d.templating
      <4>1. p.source.name \notin Names(d.vars)
        BY <3>3 DEF WellFormed, Names
      <4>2. p.source.name \in Known \cup BuiltIn
        BY <2>2, <2>4, <3>3, <4>1 DEF WellFormed, Replaces
      <4> QED
        BY <3>2, <4>2
    <3>4. CASE d.templating /\ p.source.name \notin Known \cup BuiltIn
      <4>1. ~IsKnown(p.source)
        BY <3>4 DEF IsKnown
      <4>2. Declarations(d, p.source) = {}
        BY <2>4, <3>4, <4>1 DEF Replaces
      <4>3. p.source.name \in Names(d.vars)
        <5> SUFFICES ASSUME p.source.name \in Names(d.inputs), p.source.name \notin Names(d.vars)
                     PROVE  FALSE
          BY <2>2, <3>4 DEF WellFormed
        <5>1. PICK v \in d.inputs : v.name = p.source.name
          BY DEF Names
        <5>2. v \in Datasources(d)
          BY <5>1 DEF Datasources, DatasourceVars, Names
        <5> QED
          BY <4>2, <5>1, <5>2 DEF Declarations, WellFormed
      <4>4. p.source.name \notin Used(d)
        BY <4>2, <3>4 DEF Used, Replaces, Declarations
      <4> QED
        BY <3>1, <4>3, <4>4, KeptNames
    <3> QED
      BY <3>2, <3>3, <3>4 DEF Contents
  <2> QED
    BY <2>3, <2>4
<1>2. Names(TopologyDropdowns) \subseteq Names(Rendered(d).vars)
  BY KeptNames
<1>3. "prometheusds" \in Names(Rendered(d).vars)
  BY KeptNames DEF Known
<1> QED
  BY <1>1, <1>2, <1>3 DEF Sound

===============================================================================
