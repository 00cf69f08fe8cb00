--------------------------- MODULE MCObservability ---------------------------
(***************************************************************************)
(* A small instance of Observability for TLC.                               *)
(***************************************************************************)
EXTENDS Observability, TLC

CONSTANTS a1, u1, l1, l2

Job(static) == [name |-> None, ok |-> TRUE, static |-> static]
File(file, uid, version, ok, content) ==
  [file |-> file, uid |-> uid, version |-> version, ok |-> ok, content |-> content]

Variable(name, kind) == [name |-> name, kind |-> kind, ours |-> FALSE]
Source(name, kind, dict, braces) ==
  [name |-> name, kind |-> kind, dict |-> dict, braces |-> braces]
Panel(source, place) == [source |-> source, place |-> place, narrowed |-> FALSE]
Content(inputs, templating, vs, panels) ==
  [inputs |-> inputs, templating |-> templating, vars |-> vs, panels |-> panels]

\* The dashboard of the charm: it has a variable of the library's name, not the
\* library's, and one of its topology variables.
Own == Content({}, TRUE, {Variable("prometheusds", "prometheus"), Variable("juju_model", "value")},
               {Panel(Source("prometheusds", "other", TRUE, TRUE), "panels"),
                Panel(Source("prometheusds", "other", FALSE, TRUE), "panels"), Panel(None, "panels")})

\* One from elsewhere, whose inputs are written in its panels.
Imported == Content({Variable("DS", "prometheus")}, FALSE, {},
                    {Panel(Source("DS", "other", FALSE, TRUE), "panels"),
                     Panel(Source("uid", "prometheus", TRUE, FALSE), "rows"),
                     Panel(Source("loki", "loki", FALSE, FALSE), "rows"),
                     Panel(Source("grafana", "grafana", FALSE, FALSE), "panels")})

\* One with variables, some of which are replaced.
Variables == Content({Variable("DS", "loki")}, TRUE,
                     {Variable("logs", "loki"), Variable("sql", "other"), Variable("size", "value")},
                     {Panel(Source("logs", "other", FALSE, FALSE), "panels"),
                      Panel(Source("DS", "other", TRUE, TRUE), "rows"),
                      Panel(Source("sql", "other", TRUE, TRUE), "panels"),
                      Panel(Source("lokids", "loki", TRUE, TRUE), "panels")})

\* The charm as it is: one job for every unit, and its own rules and dashboard.
Plain == [jobs |-> {Job({{"*"}})}, rules |-> "good",
          dashboards |-> {File("a", "", 1, TRUE, Own)}]

\* Jobs of one name, a target that is the address or the name of a unit, or of neither;
\* two dashboards of one uid.
Mixed == [jobs |-> {Job({{"*"}, {a1, "elsewhere"}}), Job({{u1}}), Job({})}, rules |-> "none",
          dashboards |-> {File("a", "x", 1, TRUE, Own), File("b", "x", 2, TRUE, Variables),
                          File("c", "", 1, TRUE, Imported)}]

\* A job, a rule and a dashboard that the other side refuses.
Broken == [jobs |-> {[name |-> "a", ok |-> FALSE, static |-> {{"*"}}], Job({{"*"}})},
           rules |-> "bad",
           dashboards |-> {File("a", "", 1, TRUE, Own), File("b", "", 1, FALSE, Own)}]

Symmetry == Permutations({l1, l2})

MCRevisions == ("logging" :> {Plain}) @@ ("metrics-endpoint" :> {Mixed, Broken}) @@
               ("grafana-dashboard" :> {Mixed, Broken})

\* How much may change in a behaviour about each relation.
MCMaxEdits == [r \in Relations |-> IF r = "grafana-dashboard" THEN 2 ELSE 1]

===============================================================================
