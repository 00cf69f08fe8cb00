---------------------------- MODULE LogForwarding ----------------------------
(***************************************************************************)
(* The logging relations of the charm: every unit of Loki publishes the    *)
(* endpoint it takes logs on (LokiPushApiProvider), and every unit of the   *)
(* charm keeps one Pebble log target per endpoint in each of its containers *)
(* (LogForwarder).  A step is a hook; the lease and the units belong to     *)
(* the module that composes this one.                                       *)
(***************************************************************************)
EXTENDS FiniteSets

CONSTANTS
  Units,       \* units of the charm
  Containers,  \* its containers
  Lokis,       \* logging relations, each the set of Loki units that may be in it
  Urls,        \* custom URLs a Loki unit may be given
  None         \* no value

Servers == UNION Lokis

VARIABLES
  leader,         \* the unit of the charm with the lease
  here,           \* the units there are
  moved,          \* whether the lease has moved
  loki,           \* each Loki unit: not there yet, up or gone
  endpoint,       \* the endpoint in the databag of each Loki unit
  asked,          \* Loki units with a relation-changed to handle
  seen,           \* the Loki units each unit of the charm sees
  loggingEvents,  \* relation events each unit has to handle
  reach,          \* containers of each unit that Pebble answers in
  ready,          \* containers of each unit whose pebble-ready is to be handled
  targets,        \* log targets in the plan of each container
  rules           \* relations with alert rules in the application databag

vars == <<leader, here, moved, loki, endpoint, asked, seen, loggingEvents, reach, ready, targets, rules>>

Events == {"joined", "changed", "departed"} \X Servers

RelationOf(s) == CHOOSE r \in Lokis : s \in r

\* The URL of a unit that was given none, from its own name.
Internal == "internal"

NoTargets == [s \in Servers |-> None]

\* The units of the charm that see s are told of e.
Told(e, s) ==
  [u \in Units |-> IF s \in seen[u] /\ u \in here THEN loggingEvents[u] \cup {<<e, s>>} ELSE loggingEvents[u]]

-------------------------------------------------------------------------------
(* LokiPushApiProvider *)

\* relation-changed: a process knows no custom URL, only what its charm gives it.
LokiChanged(s) ==
  /\ s \in asked /\ loki[s] = "up"
  /\ asked' = asked \ {s}
  /\ endpoint' = [endpoint EXCEPT ![s] = Internal]
  /\ loggingEvents' = IF endpoint[s] = Internal THEN loggingEvents ELSE Told("changed", s)
  /\ UNCHANGED <<loki, seen, reach, ready, targets, rules>>

\* The charm of Loki calls update_endpoint, for an ingress say.
UpdateEndpoint(s, url) ==
  /\ loki[s] = "up" /\ endpoint[s] # url
  /\ endpoint' = [endpoint EXCEPT ![s] = url]
  /\ loggingEvents' = Told("changed", s)
  /\ UNCHANGED <<loki, asked, seen, reach, ready, targets, rules>>

-------------------------------------------------------------------------------
(* LogForwarder *)

\* A relation counts when all the units seen in it have an endpoint (is_ready).
IsReady(r, members) ==
  r \cap members # {} /\ \A s \in r \cap members : endpoint[s] # None

\* The Loki units of the relations that count.
Active(members) == UNION {r \cap members : r \in {q \in Lokis : IsReady(q, members)}}

\* Mutant: endpoints that are gone stay in the plan as they were.
UpdateEndpointsKeeping(plan, active) ==
  [s \in Servers |-> IF s \in active THEN endpoint[s] ELSE plan[s]]

\* A target that is not active is switched off, but only once there is one; the
\* active ones are replaced (disable_inactive_endpoints, enable_endpoints).
UpdateEndpoints(plan, active) ==
  [s \in Servers |->
    IF s \in active THEN endpoint[s] ELSE IF plan[s] = None THEN None ELSE "off"]

\* Mutant: the relation is looked at before its endpoints count.
UpdateLoggingEarly(u, r) ==
  LET active == Active(seen[u]) IN
  IF active = {}
    THEN UNCHANGED <<targets, rules, asked>>
    ELSE /\ targets' = [targets EXCEPT ![u] = [c \in Containers |->
              IF c \in reach[u] THEN UpdateEndpoints(@[c], active) ELSE @[c]]]
         /\ IF u = leader /\ r \notin rules
              THEN rules' = rules \cup {r} /\ asked' = asked \cup r
              ELSE UNCHANGED <<rules, asked>>

\* _update_logging and _handle_alert_rules, in a hook of the relation r.
UpdateLogging(u, r) ==
  LET active == Active(seen'[u]) IN
  IF active = {}
    THEN UNCHANGED <<targets, rules, asked>>
    ELSE /\ targets' = [targets EXCEPT ![u] = [c \in Containers |->
              IF c \in reach[u] THEN UpdateEndpoints(@[c], active) ELSE @[c]]]
         /\ IF u = leader /\ r \notin rules
              THEN rules' = rules \cup {r} /\ asked' = asked \cup r
              ELSE UNCHANGED <<rules, asked>>

\* relation-joined, -changed or -departed: a unit joins the relation before anything
\* else is known of it, and is out of it when it departs.  The relation-changed that
\* follows relation-joined at once does the same again.
RelationHook(u, e, s) ==
  /\ <<e, s>> \in loggingEvents[u]
  /\ e # "joined" => <<"joined", s>> \notin loggingEvents[u]
  /\ loggingEvents' = [loggingEvents EXCEPT ![u] =
                 IF e = "departed" THEN @ \ {<<"changed", s>>, <<e, s>>} ELSE @ \ {<<e, s>>}]
  /\ seen' = [seen EXCEPT ![u] = IF e = "joined" THEN @ \cup {s}
                                 ELSE IF e = "departed" THEN @ \ {s} ELSE @]
  /\ UpdateLogging(u, RelationOf(s))
  /\ UNCHANGED <<loki, endpoint, reach, ready>>

\* pebble-ready looks at the container that is ready only, and at no alert rules.
PebbleReady(u, c) ==
  /\ c \in ready[u]
  /\ ready' = [ready EXCEPT ![u] = @ \ {c}]
  /\ targets' = IF Active(seen[u]) = {} THEN targets
                ELSE [targets EXCEPT ![u][c] = UpdateEndpoints(@, Active(seen[u]))]
  /\ UNCHANGED <<loki, endpoint, asked, seen, loggingEvents, reach, rules>>

-------------------------------------------------------------------------------
(* The environment *)

LokiJoins(s) ==
  /\ loki[s] = "new"
  /\ loki' = [loki EXCEPT ![s] = "up"]
  /\ asked' = asked \cup {s}
  /\ loggingEvents' = [u \in Units |->
                 IF u \in here THEN loggingEvents[u] \cup {<<"joined", s>>} ELSE loggingEvents[u]]
  /\ UNCHANGED <<endpoint, seen, reach, ready, targets, rules>>

\* A unit that never saw s is not told that it goes.
LokiDeparts(s) ==
  /\ loki[s] = "up"
  /\ loki' = [loki EXCEPT ![s] = "gone"]
  /\ asked' = asked \ {s}
  /\ loggingEvents' = [u \in Units |->
                 IF s \in seen[u] /\ u \in here THEN loggingEvents[u] \cup {<<"departed", s>>}
                 ELSE {e \in loggingEvents[u] : e[2] # s}]
  /\ UNCHANGED <<endpoint, seen, reach, ready, targets, rules>>

\* The plan is in the container and goes with it.
ContainerRestart(u, c) ==
  /\ c \in reach[u]
  /\ reach' = [reach EXCEPT ![u] = @ \ {c}]
  /\ ready' = [ready EXCEPT ![u] = @ \ {c}]
  /\ targets' = [targets EXCEPT ![u][c] = NoTargets]
  /\ UNCHANGED <<loki, endpoint, asked, seen, loggingEvents, rules>>

PebbleUp(u, c) ==
  /\ c \notin reach[u]
  /\ reach' = [reach EXCEPT ![u] = @ \cup {c}]
  /\ ready' = [ready EXCEPT ![u] = @ \cup {c}]
  /\ UNCHANGED <<loki, endpoint, asked, seen, loggingEvents, targets, rules>>

\* A pod that is replaced has new containers.
PodMoves(u) ==
  /\ reach' = [reach EXCEPT ![u] = {}]
  /\ ready' = [ready EXCEPT ![u] = {}]
  /\ targets' = [targets EXCEPT ![u] = [c \in Containers |-> NoTargets]]
  /\ UNCHANGED <<loki, endpoint, asked, seen, loggingEvents, rules>>

UnitArrives(u) ==
  /\ loggingEvents' = [loggingEvents EXCEPT ![u] = {"joined"} \X {s \in Servers : loki[s] = "up"}]
  /\ seen' = [seen EXCEPT ![u] = {}]
  /\ reach' = [reach EXCEPT ![u] = {}]
  /\ ready' = [ready EXCEPT ![u] = {}]
  /\ targets' = [targets EXCEPT ![u] = [c \in Containers |-> NoTargets]]
  /\ UNCHANGED <<loki, endpoint, asked, rules>>

UnitDeparts(u) ==
  /\ loggingEvents' = [loggingEvents EXCEPT ![u] = {}]
  /\ UNCHANGED <<loki, endpoint, asked, seen, reach, ready, targets, rules>>

-------------------------------------------------------------------------------

Init ==
  /\ loki = [s \in Servers |-> "new"]
  /\ endpoint = [s \in Servers |-> None]
  /\ asked = {}
  /\ seen = [u \in Units |-> {}]
  /\ loggingEvents = [u \in Units |-> {}]
  /\ reach = [u \in Units |-> Containers]
  /\ ready = [u \in Units |-> {}]
  /\ targets = [u \in Units |-> [c \in Containers |-> NoTargets]]
  /\ rules = {}

Hooks ==
  \/ \E s \in Servers : LokiChanged(s)
  \/ \E u \in here, e \in Events : RelationHook(u, e[1], e[2])
  \/ \E u \in here, c \in Containers : PebbleReady(u, c) \/ PebbleUp(u, c)

Joins == \E s \in Servers : LokiJoins(s)

\* What the other side, or Kubernetes, may do.
Edits ==
  \/ \E s \in Servers : LokiDeparts(s)
  \/ \E s \in Servers, url \in Urls : UpdateEndpoint(s, url)
  \/ \E u \in here, c \in Containers : ContainerRestart(u, c)

-------------------------------------------------------------------------------
(* Properties *)

TypeOK ==
  /\ loki \in [Servers -> {"new", "up", "gone"}]
  /\ endpoint \in [Servers -> Urls \cup {Internal, None}]
  /\ asked \subseteq Servers
  /\ seen \in [Units -> SUBSET Servers]
  /\ loggingEvents \in [Units -> SUBSET Events]
  /\ reach \in [Units -> SUBSET Containers]
  /\ ready \in [Units -> SUBSET Containers]
  /\ targets \in [Units -> [Containers -> [Servers -> Urls \cup {Internal, None, "off"}]]]
  /\ rules \subseteq Lokis

\* A unit with nothing left to handle that knows an endpoint forwards the logs of
\* each container that is up to exactly the endpoints it knows, whatever restarted,
\* departed or was published in whatever order (_update_logging, _on_pebble_ready).
ForwardsToEndpoints ==
  \A u \in here : loggingEvents[u] = {} /\ Active(seen[u]) # {} =>
    \A c \in reach[u] \ ready[u] : \A s \in Servers :
      IF s \in Active(seen[u])
        THEN targets[u][c][s] = endpoint[s]
        ELSE targets[u][c][s] \in {None, "off"}

\* A leader that has led from the start and has nothing left to handle has published
\* the alert rules in each relation that counts (_handle_alert_rules): no change of a
\* databag makes a relation count without a hook for that relation.
RulesPublished ==
  ~moved /\ loggingEvents[leader] = {} =>
    \A r \in Lokis : IsReady(r, seen[leader]) => r \in rules

===============================================================================
