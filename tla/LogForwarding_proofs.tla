------------------------- MODULE LogForwarding_proofs -------------------------
(***************************************************************************)
(* Logs and alert rules reach Loki, for any units, containers, relations   *)
(* and edits: what makes a unit look again is not lost.                    *)
(***************************************************************************)
EXTENDS Observability, TLAPS

\* u has still to hear of a unit of Loki that it sees.
Awaits(u, s) == <<"changed", s>> \in loggingEvents[u] \/ <<"departed", s>> \in loggingEvents[u]

\* The logs of u go to what counts among the units of Loki it sees.
Forwards(u) ==
  Logging!Active(seen[u]) # {} =>
    \A c \in reach[u] \ ready[u] : \A s \in Logging!Servers :
      IF s \in Logging!Active(seen[u])
        THEN targets[u][c][s] = endpoint[s]
        ELSE targets[u][c][s] \in {None, "off"}

\* The rules of the relation r are published if it counts for the leader.
Publishes(r) == Logging!IsReady(r, seen[leader]) => r \in rules

\* What LoggingInv says of the logs of a unit, and of the rules of a relation.
LogsFlow(u) == (\E s \in seen[u] : Awaits(u, s)) \/ Forwards(u)
ReachesLoki(r) == (\E s \in r \cap seen[leader] : Awaits(leader, s)) \/ Publishes(r)

\* Where logs or rules are not as they should be, the unit has still to hear of a unit of
\* Loki, for rules one in the relation.  It need not have to join one, as a unit of
\* Loki that never joined may go without a hook.
LoggingInv ==
  /\ here \subseteq Units /\ leader \in here
  /\ Logging!TypeOK
  /\ \A u \in here : LogsFlow(u)
  /\ ~moved => \A r \in Lokis : ReachesLoki(r)

\* The units of Loki that count are those in the relations that do.
LEMMA ActiveIn ==
  \A m, s : s \in Logging!Active(m) <=> \E r \in Lokis : Logging!IsReady(r, m) /\ s \in r \cap m
  BY DEF Logging!Active

LEMMA RelationIs ==
  ASSUME NEW r \in Lokis, NEW s \in r
  PROVE  Logging!RelationOf(s) = r
<1>1. \E q \in Lokis : s \in q
  OBVIOUS
<1>2. Logging!RelationOf(s) \in Lokis /\ s \in Logging!RelationOf(s)
  BY <1>1 DEF Logging!RelationOf
<1> QED
  BY <1>2, OthersAssumption

-------------------------------------------------------------------------------
(* What does not concern a unit *)

\* A unit that sees the same units of Loki with the same endpoints.
LEMMA SameActive ==
  ASSUME NEW u \in Units, seen'[u] = seen[u], \A s \in seen[u] : endpoint'[s] = endpoint[s]
  PROVE  /\ Logging!Active(seen[u])' = Logging!Active(seen[u])
         /\ \A r \in Lokis : Logging!IsReady(r, seen[u])' <=> Logging!IsReady(r, seen[u])
<1>1. \A r \in Lokis : Logging!IsReady(r, seen[u])' <=> Logging!IsReady(r, seen[u])
  BY DEF Logging!IsReady
<1> QED
  BY <1>1 DEF Logging!Active

LEMMA SameForwards ==
  ASSUME NEW u \in Units, seen'[u] = seen[u], \A s \in seen[u] : endpoint'[s] = endpoint[s],
         \A c \in reach'[u] \ ready'[u] : c \in reach[u] \ ready[u] /\ targets'[u][c] = targets[u][c],
         Forwards(u)
  PROVE  Forwards(u)'
<1>1. Logging!Active(seen[u])' = Logging!Active(seen[u])
  BY SameActive
<1>2. \A s \in Logging!Active(seen[u]) : s \in seen[u]
  BY ActiveIn
<1> QED
  BY <1>1, <1>2 DEF Forwards

-------------------------------------------------------------------------------
(* Hooks *)

\* After any hook of a relation the logs of the unit go where they should, and the rules
\* of that relation are published if the unit leads.
LEMMA HookForwards ==
  ASSUME LoggingInv, NEW u \in here, NEW e, NEW s \in Logging!Servers,
         Logging!RelationHook(u, e, s)
  PROVE  Forwards(u)'
<1>1. u \in Units
  BY DEF LoggingInv
<1>2. UNCHANGED <<endpoint, reach, ready>> /\ Logging!UpdateLogging(u, Logging!RelationOf(s))
  BY DEF Logging!RelationHook
<1>3. Logging!Active(seen[u])' = Logging!Active(seen'[u])
  BY <1>2 DEF Logging!Active, Logging!IsReady
<1>4. ASSUME Logging!Active(seen'[u]) # {}, NEW c \in reach[u], NEW t \in Logging!Servers
      PROVE  targets'[u][c][t] = IF t \in Logging!Active(seen'[u]) THEN endpoint[t]
                                 ELSE IF targets[u][c][t] = None THEN None ELSE "off"
  <2>1. targets' = [targets EXCEPT ![u] = [d \in Containers |->
          IF d \in reach[u] THEN Logging!UpdateEndpoints(targets[u][d], Logging!Active(seen'[u]))
          ELSE targets[u][d]]]
    BY <1>2, <1>4 DEF Logging!UpdateLogging
  <2>2. c \in Containers /\ DOMAIN targets = Units
    BY <1>1 DEF LoggingInv, Logging!TypeOK
  <2>3. targets'[u][c] = Logging!UpdateEndpoints(targets[u][c], Logging!Active(seen'[u]))
    BY <1>1, <2>1, <2>2
  <2> QED
    BY <2>3 DEF Logging!UpdateEndpoints
<1> QED
  BY <1>2, <1>3, <1>4 DEF Forwards

\* What a hook of the leader does for alert rules: those of its relation are published,
\* and no other relation is touched.
LEMMA HookPublishes ==
  ASSUME LoggingInv, NEW s \in Logging!Servers, NEW e, Logging!RelationHook(leader, e, s),
         leader' = leader, NEW r \in Lokis, ReachesLoki(r)
  PROVE  ReachesLoki(r)'
<1>1. leader \in Units
  BY DEF LoggingInv
<1>2. endpoint' = endpoint /\ Logging!UpdateLogging(leader, Logging!RelationOf(s))
  BY DEF Logging!RelationHook
<1>3. rules \subseteq rules'
  BY <1>2 DEF Logging!UpdateLogging
<1>4. CASE s \in r
  <2>1. Logging!RelationOf(s) = r
    BY <1>4, RelationIs
  <2>2. ASSUME Logging!IsReady(r, seen'[leader])
        PROVE  r \in rules'
    <3>1. PICK t \in r : t \in seen'[leader]
      BY <2>2 DEF Logging!IsReady
    <3>2. t \in Logging!Active(seen'[leader])
      BY <2>2, <3>1, ActiveIn
    <3>3. CASE r \in rules
      BY <1>3, <3>3
    <3>4. CASE r \notin rules
      BY <1>2, <2>1, <3>2, <3>4 DEF Logging!UpdateLogging
    <3> QED
      BY <3>3, <3>4
  <2>3. Logging!IsReady(r, seen[leader])' <=> Logging!IsReady(r, seen'[leader])
    BY <1>2 DEF Logging!IsReady
  <2> QED
    BY <2>2, <2>3 DEF ReachesLoki, Publishes
<1>5. CASE s \notin r
  <2>1. /\ \A t \in r : t \in seen'[leader] <=> t \in seen[leader]
        /\ \A t \in r : Awaits(leader, t) => Awaits(leader, t)'
    BY <1>1, <1>5 DEF Logging!RelationHook, LoggingInv, Logging!TypeOK, Awaits
  <2>2. r \cap seen'[leader] = r \cap seen[leader]
    BY <2>1
  <2>3. Logging!IsReady(r, seen[leader])' <=> Logging!IsReady(r, seen[leader])
    BY <1>2, <2>2 DEF Logging!IsReady
  <2> QED
    BY <1>3, <2>1, <2>2, <2>3 DEF ReachesLoki, Publishes
<1> QED
  BY <1>4, <1>5

-------------------------------------------------------------------------------
(* Steps *)

\* Units of Loki whose endpoints change are announced, and announcements stay.
Announced(u) ==
  /\ seen'[u] = seen[u]
  /\ \A s \in seen[u] : Awaits(u, s)' \/ (endpoint'[s] = endpoint[s] /\ ~Awaits(u, s))

LEMMA LogsKept ==
  ASSUME NEW u \in Units, LogsFlow(u), Announced(u),
         \A c \in reach'[u] \ ready'[u] : c \in reach[u] \ ready[u] /\ targets'[u][c] = targets[u][c]
  PROVE  LogsFlow(u)'
<1>1. CASE \E s \in seen[u] : Awaits(u, s)'
  BY <1>1 DEF LogsFlow, Announced
<1>2. CASE ~ \E s \in seen[u] : Awaits(u, s)'
  <2>1. Forwards(u)
    BY <1>2 DEF LogsFlow, Announced
  <2>2. seen'[u] = seen[u] /\ \A s \in seen[u] : endpoint'[s] = endpoint[s]
    BY <1>2 DEF Announced
  <2> QED
    BY <2>1, <2>2, SameForwards DEF LogsFlow
<1> QED
  BY <1>1, <1>2

LEMMA RulesKept ==
  ASSUME NEW r \in Lokis, ReachesLoki(r), leader' = leader, Announced(leader), rules \subseteq rules'
  PROVE  ReachesLoki(r)'
<1>1. CASE \E s \in r \cap seen[leader] : Awaits(leader, s)'
  BY <1>1 DEF ReachesLoki, Announced, Awaits
<1>2. CASE ~ \E s \in r \cap seen[leader] : Awaits(leader, s)'
  <2>1. Publishes(r)
    BY <1>2 DEF ReachesLoki, Announced
  <2>2. seen'[leader] = seen[leader] /\ \A s \in r \cap seen[leader] : endpoint'[s] = endpoint[s]
    BY <1>2 DEF Announced
  <2>3. Logging!IsReady(r, seen[leader])' <=> Logging!IsReady(r, seen[leader])
    BY <2>2 DEF Logging!IsReady
  <2> QED
    BY <2>1, <2>3 DEF ReachesLoki, Publishes
<1> QED
  BY <1>1, <1>2

\* A hook of the unit v of a relation with a unit of Loki.
LEMMA HookStep ==
  ASSUME LoggingInv, NEW v \in here, NEW e \in Logging!Events, Logging!RelationHook(v, e[1], e[2]),
         UNCHANGED <<leader, here, moved>>
  PROVE  LoggingInv'
<1>1. e[2] \in Logging!Servers /\ v \in Units
  BY DEF Logging!Events, LoggingInv
<1>2. Logging!RelationOf(e[2]) \in Lokis
  BY <1>1, RelationIs DEF Logging!Servers
<1>3. Logging!TypeOK'
  <2>1. Logging!UpdateLogging(v, Logging!RelationOf(e[2]))
    BY DEF Logging!RelationHook
  <2>2. targets' \in [Units -> [Containers -> [Logging!Servers -> Urls \cup {Logging!Internal, None, "off"}]]]
    <3>1. ASSUME NEW c \in Containers
          PROVE  Logging!UpdateEndpoints(targets[v][c], Logging!Active(seen'[v]))
                   \in [Logging!Servers -> Urls \cup {Logging!Internal, None, "off"}]
      BY DEF Logging!UpdateEndpoints, LoggingInv, Logging!TypeOK
    <3> DEFINE Plans == [Containers -> [Logging!Servers -> Urls \cup {Logging!Internal, None, "off"}]]
               New == [c \in Containers |-> IF c \in reach[v]
                         THEN Logging!UpdateEndpoints(targets[v][c], Logging!Active(seen'[v]))
                         ELSE targets[v][c]]
    <3>2. targets \in [Units -> Plans]
      BY DEF LoggingInv, Logging!TypeOK
    <3>3. New \in Plans
      BY <1>1, <3>1, <3>2
    <3>4. targets' = targets \/ targets' = [targets EXCEPT ![v] = New]
      BY <2>1, <1>1, <3>2 DEF Logging!UpdateLogging
    <3> QED
      BY <3>2, <3>3, <3>4
  <2>3. rules' \subseteq Lokis /\ asked' \subseteq Logging!Servers
    BY <1>2, <2>1 DEF Logging!UpdateLogging, LoggingInv, Logging!TypeOK, Logging!Servers
  <2>4. seen' \in [Units -> SUBSET Logging!Servers] /\ loggingEvents' \in [Units -> SUBSET Logging!Events]
    BY <1>1 DEF Logging!RelationHook, LoggingInv, Logging!TypeOK
  <2> QED
    BY <2>2, <2>3, <2>4 DEF Logging!TypeOK, Logging!RelationHook, LoggingInv
<1>4. ASSUME NEW u \in Units, u # v
      PROVE  /\ Announced(u)
             /\ targets'[u] = targets[u]
    BY <1>1, <1>4 DEF Logging!RelationHook, Logging!UpdateLogging, Announced, Awaits, LoggingInv, Logging!TypeOK
<1>5. reach' = reach /\ ready' = ready /\ rules \subseteq rules'
  BY DEF Logging!RelationHook, Logging!UpdateLogging
<1>6. \A u \in here : LogsFlow(u)'
  <2> SUFFICES ASSUME NEW u \in here
               PROVE  LogsFlow(u)'
    OBVIOUS
  <2>1. CASE u = v
    BY <1>1, <2>1, HookForwards DEF LogsFlow
  <2>2. CASE u # v
    <3>1. LogsFlow(u) /\ u \in Units
      BY DEF LoggingInv
    <3> QED
      BY <1>4, <1>5, <2>2, <3>1, LogsKept
  <2> QED
    BY <2>1, <2>2
<1>7. ASSUME ~moved, NEW r \in Lokis
      PROVE  ReachesLoki(r)'
  <2>1. ReachesLoki(r) /\ leader \in Units
    BY <1>7 DEF LoggingInv
  <2>2. CASE leader = v
    BY <1>1, <2>1, <2>2, HookPublishes
  <2>3. CASE leader # v
    BY <1>4, <1>5, <2>1, <2>3, RulesKept
  <2> QED
    BY <2>2, <2>3
<1> QED
  BY <1>3, <1>6, <1>7 DEF LoggingInv

\* A step that announces what it changes of a unit of Loki.
LEMMA AnnouncedStep ==
  ASSUME LoggingInv, Logging!TypeOK', UNCHANGED <<leader, moved>>,
         here' \subseteq here, leader \in here', rules' = rules,
         \A u \in here' : Announced(u) /\
           \A c \in reach'[u] \ ready'[u] : c \in reach[u] \ ready[u] /\ targets'[u][c] = targets[u][c]
  PROVE  LoggingInv'
<1>1. \A u \in here' : LogsFlow(u)'
  BY LogsKept DEF LoggingInv
<1>2. ~moved => \A r \in Lokis : ReachesLoki(r)'
  BY RulesKept DEF LoggingInv
<1> QED
  BY <1>1, <1>2 DEF LoggingInv

\* Each action of a Logging component keeps the invariant.
LEMMA EndpointStep ==
  ASSUME LoggingInv, NEW s \in Logging!Servers, NEW url,
         Logging!LokiChanged(s) \/ (url \in Urls /\ Logging!UpdateEndpoint(s, url)), UNCHANGED <<leader, here, moved>>
  PROVE  LoggingInv'
<1>1. \A u \in here : u \in Units
  BY DEF LoggingInv
<1>2. Logging!TypeOK'
  <2>1. loggingEvents' \in [Units -> SUBSET Logging!Events]
    <3>1. <<"changed", s>> \in Logging!Events
      BY DEF Logging!Events
    <3>2. \A u \in Units : loggingEvents[u] \cup {<<"changed", s>>} \in SUBSET Logging!Events
                           /\ loggingEvents[u] \in SUBSET Logging!Events
      BY <3>1 DEF LoggingInv, Logging!TypeOK
    <3>3. Logging!Told("changed", s) \in [Units -> SUBSET Logging!Events]
      BY <3>2 DEF Logging!Told
    <3>4. loggingEvents \in [Units -> SUBSET Logging!Events]
      BY DEF LoggingInv, Logging!TypeOK
    <3> QED
      BY <3>3, <3>4 DEF Logging!LokiChanged, Logging!UpdateEndpoint
  <2>2. endpoint' \in [Logging!Servers -> Urls \cup {Logging!Internal, None}] /\ asked' \subseteq Logging!Servers
    BY DEF LoggingInv, Logging!TypeOK, Logging!LokiChanged, Logging!UpdateEndpoint
  <2> QED
    BY <2>1, <2>2 DEF LoggingInv, Logging!TypeOK, Logging!LokiChanged, Logging!UpdateEndpoint
<1>3. \A u \in here : Announced(u)
  <2> SUFFICES ASSUME NEW u \in here
               PROVE  Announced(u)
    OBVIOUS
  <2>1. \A t \in seen[u] : t # s => endpoint'[t] = endpoint[t]
    BY <1>1 DEF LoggingInv, Logging!TypeOK, Logging!LokiChanged, Logging!UpdateEndpoint
  <2>2. loggingEvents[u] \subseteq loggingEvents'[u]
    BY <1>1 DEF Logging!LokiChanged, Logging!UpdateEndpoint, Logging!Told
  <2>3. CASE s \in seen[u] /\ endpoint'[s] # endpoint[s]
    <3>1. loggingEvents' = Logging!Told("changed", s)
      BY <2>3 DEF LoggingInv, Logging!TypeOK, Logging!LokiChanged, Logging!UpdateEndpoint
    <3>2. Awaits(u, s)'
      BY <1>1, <2>3, <3>1 DEF Logging!Told, Awaits
    <3> QED
      BY <2>1, <2>2, <3>2 DEF Announced, Awaits, Logging!LokiChanged, Logging!UpdateEndpoint
  <2>4. CASE ~(s \in seen[u] /\ endpoint'[s] # endpoint[s])
    BY <2>1, <2>2, <2>4 DEF Announced, Awaits, Logging!LokiChanged, Logging!UpdateEndpoint
  <2> QED
    BY <2>3, <2>4
<1> QED
  BY <1>2, <1>3, AnnouncedStep DEF LoggingInv, Logging!LokiChanged, Logging!UpdateEndpoint
LEMMA LokiStep ==
  ASSUME LoggingInv, NEW s \in Logging!Servers,
         Logging!LokiJoins(s) \/ Logging!LokiDeparts(s), UNCHANGED <<leader, here, moved>>
  PROVE  LoggingInv'
<1>1. Logging!TypeOK'
  <2>1. loggingEvents' \in [Units -> SUBSET Logging!Events]
    <3>1. \A e \in {"joined", "departed"} : <<e, s>> \in Logging!Events
      BY DEF Logging!Events
    <3>2. \A u \in Units : loggingEvents[u] \subseteq Logging!Events
      BY DEF LoggingInv, Logging!TypeOK
    <3>3. CASE Logging!LokiJoins(s)
      BY <3>1, <3>2, <3>3 DEF Logging!LokiJoins
    <3>4. CASE Logging!LokiDeparts(s)
      BY <3>1, <3>2, <3>4 DEF Logging!LokiDeparts
    <3> QED
      BY <3>3, <3>4
  <2> QED
    BY <2>1 DEF LoggingInv, Logging!TypeOK, Logging!LokiJoins, Logging!LokiDeparts
<1>2. \A u \in here : Announced(u)
  <2> SUFFICES ASSUME NEW u \in here, NEW t \in seen[u], Awaits(u, t)
               PROVE  Awaits(u, t)'
    BY DEF Announced, Logging!LokiJoins, Logging!LokiDeparts
  <2>1. u \in Units
    BY DEF LoggingInv
  <2>2. CASE Logging!LokiJoins(s)
    BY <2>1, <2>2 DEF Logging!LokiJoins, Awaits
  <2>3. CASE Logging!LokiDeparts(s)
    <3>1. loggingEvents'[u] = IF s \in seen[u] THEN loggingEvents[u] \cup {<<"departed", s>>}
                              ELSE {e \in loggingEvents[u] : e[2] # s}
      BY <2>1, <2>3 DEF Logging!LokiDeparts
    <3> QED
      BY <3>1 DEF Awaits
  <2> QED
    BY <2>2, <2>3
<1> QED
  BY <1>1, <1>2, AnnouncedStep DEF LoggingInv, Logging!LokiJoins, Logging!LokiDeparts

LEMMA ContainerStep ==
  ASSUME LoggingInv, NEW v \in here, NEW c,
         \/ c \in Containers /\ (Logging!PebbleUp(v, c) \/ Logging!ContainerRestart(v, c))
         \/ Logging!PodMoves(v),
         UNCHANGED <<leader, here, moved>>
  PROVE  LoggingInv'
<1>1. v \in Units /\ \A u \in here : u \in Units
  BY DEF LoggingInv
<1>2. Logging!NoTargets \in [Logging!Servers -> Urls \cup {Logging!Internal, None, "off"}]
  BY DEF Logging!NoTargets
<1>3. Logging!TypeOK'
  <2> DEFINE Plan == [Logging!Servers -> Urls \cup {Logging!Internal, None, "off"}]
  <2>1. targets \in [Units -> [Containers -> Plan]]
    BY DEF LoggingInv, Logging!TypeOK
  <2> HIDE DEF Plan
  <2>2. targets' \in [Units -> [Containers -> Plan]]
    <3>1. \/ targets' = targets
          \/ targets' = [targets EXCEPT ![v][c] = Logging!NoTargets]
          \/ targets' = [targets EXCEPT ![v] = [d \in Containers |-> Logging!NoTargets]]
      BY DEF Logging!PebbleUp, Logging!ContainerRestart, Logging!PodMoves
    <3>2. Logging!NoTargets \in Plan
      BY <1>2 DEF Plan
    <3>3. [targets EXCEPT ![v][c] = Logging!NoTargets] \in [Units -> [Containers -> Plan]]
      BY <1>1, <2>1, <3>2
    <3>4. [targets EXCEPT ![v] = [d \in Containers |-> Logging!NoTargets]] \in [Units -> [Containers -> Plan]]
      BY <1>1, <2>1, <3>2
    <3> QED
      BY <2>1, <3>1, <3>3, <3>4
  <2>3. reach' \in [Units -> SUBSET Containers] /\ ready' \in [Units -> SUBSET Containers]
    <3>1. /\ reach \in [Units -> SUBSET Containers] /\ reach[v] \subseteq Containers
          /\ ready \in [Units -> SUBSET Containers] /\ ready[v] \subseteq Containers
      BY <1>1 DEF LoggingInv, Logging!TypeOK
    <3>2. CASE c \in Containers /\ Logging!PebbleUp(v, c)
      BY <3>1, <3>2 DEF Logging!PebbleUp
    <3>3. CASE Logging!ContainerRestart(v, c)
      BY <3>1, <3>3 DEF Logging!ContainerRestart
    <3>4. CASE Logging!PodMoves(v)
      BY <3>1, <3>4 DEF Logging!PodMoves
    <3> QED
      BY <3>2, <3>3, <3>4
  <2> QED
    BY <2>2, <2>3 DEF Plan, LoggingInv, Logging!TypeOK, Logging!PebbleUp, Logging!ContainerRestart, Logging!PodMoves
<1>4. \A u \in here : Announced(u)
  BY DEF Announced, Awaits, Logging!PebbleUp, Logging!ContainerRestart, Logging!PodMoves
<1>5. ASSUME NEW u \in here, NEW d \in reach'[u] \ ready'[u]
      PROVE  d \in reach[u] \ ready[u] /\ targets'[u][d] = targets[u][d]
  <2>1. CASE Logging!PebbleUp(v, c)
    BY <1>1, <1>5, <2>1 DEF LoggingInv, Logging!TypeOK, Logging!PebbleUp
  <2>2. CASE Logging!ContainerRestart(v, c)
    <3>1. targets' = [targets EXCEPT ![v][c] = Logging!NoTargets]
      BY <2>2 DEF Logging!ContainerRestart
    <3>2. u = v => d # c
      BY <1>1, <1>5, <2>2 DEF LoggingInv, Logging!TypeOK, Logging!ContainerRestart
    <3> QED
      BY <1>1, <1>5, <2>2, <3>1, <3>2 DEF LoggingInv, Logging!TypeOK, Logging!ContainerRestart
  <2>3. CASE Logging!PodMoves(v)
    BY <1>1, <1>5, <2>3 DEF LoggingInv, Logging!TypeOK, Logging!PodMoves
  <2> QED
    BY <2>1, <2>2, <2>3
<1> QED
  BY <1>3, <1>4, <1>5, AnnouncedStep DEF LoggingInv, Logging!PebbleUp, Logging!ContainerRestart, Logging!PodMoves

LEMMA PebbleReadyStep ==
  ASSUME LoggingInv, NEW v \in here, NEW c \in Containers, Logging!PebbleReady(v, c),
         UNCHANGED <<leader, here, moved>>
  PROVE  LoggingInv'
<1>1. v \in Units /\ \A u \in here : u \in Units
  BY DEF LoggingInv
<1> DEFINE Plan == Logging!UpdateEndpoints(targets[v][c], Logging!Active(seen[v]))
<1>2. Plan \in [Logging!Servers -> Urls \cup {Logging!Internal, None, "off"}]
  BY <1>1 DEF Logging!UpdateEndpoints, LoggingInv, Logging!TypeOK
<1>3. targets' = IF Logging!Active(seen[v]) = {} THEN targets ELSE [targets EXCEPT ![v][c] = Plan]
  BY DEF Logging!PebbleReady
<1>4. Logging!TypeOK'
  <2> HIDE DEF Plan
  <2> QED
    BY <1>1, <1>2, <1>3 DEF LoggingInv, Logging!TypeOK, Logging!PebbleReady
<1>5. \A u \in here : Announced(u)
  BY DEF Announced, Awaits, Logging!PebbleReady
<1>6. Forwards(v) => Forwards(v)'
  <2> SUFFICES ASSUME Forwards(v)
               PROVE  Forwards(v)'
    OBVIOUS
  <2>1. UNCHANGED <<seen, endpoint, reach>>
    BY DEF Logging!PebbleReady
  <2>2. Logging!Active(seen[v])' = Logging!Active(seen[v])
    BY <1>1, <2>1, SameActive
  <2>3. ASSUME Logging!Active(seen[v]) # {}, NEW d \in reach[v] \ ready'[v], NEW s \in Logging!Servers
        PROVE  IF s \in Logging!Active(seen[v]) THEN targets'[v][d][s] = endpoint[s]
               ELSE targets'[v][d][s] \in {None, "off"}
    <3>1. CASE d = c
      <4>1. targets'[v][c] = Plan
        <5> HIDE DEF Plan
        <5> QED
          BY <1>1, <1>3, <2>3 DEF LoggingInv, Logging!TypeOK
      <4> QED
        BY <3>1, <4>1 DEF Logging!UpdateEndpoints
    <3>2. CASE d # c
      <4>1. targets'[v][d] = targets[v][d] /\ d \notin ready[v]
        <5> HIDE DEF Plan
        <5> QED
          BY <1>1, <1>3, <2>3, <3>2 DEF LoggingInv, Logging!TypeOK, Logging!PebbleReady
      <4> QED
        BY <2>3, <4>1 DEF Forwards
    <3> QED
      BY <3>1, <3>2
  <2> QED
    BY <2>1, <2>2, <2>3 DEF Forwards
<1>7. \A u \in here : LogsFlow(u)'
  <2> SUFFICES ASSUME NEW u \in here
               PROVE  LogsFlow(u)'
    OBVIOUS
  <2>1. CASE u = v
    BY <1>6, <2>1 DEF LoggingInv, LogsFlow, Awaits, Logging!PebbleReady
  <2>2. CASE u # v
    BY <1>1, <1>3, <1>5, <2>2, LogsKept DEF LoggingInv, Logging!TypeOK, Logging!PebbleReady
  <2> QED
    BY <2>1, <2>2
<1>8. ~moved => \A r \in Lokis : ReachesLoki(r)'
  BY <1>5, RulesKept DEF LoggingInv, Logging!PebbleReady
<1> QED
  BY <1>4, <1>7, <1>8 DEF LoggingInv

\* A unit that arrives sees no unit of Loki, and one that departs is not the leader.
LEMMA ScaleStep ==
  ASSUME LoggingInv, NEW v \in Units, UnitArrives(v) \/ UnitDeparts(v)
  PROVE  LoggingInv'
<1>1. CASE UnitArrives(v)
  <2> USE <1>1
  <2>1. Logging!TypeOK'
    <3>1. Logging!NoTargets \in [Logging!Servers -> Urls \cup {Logging!Internal, None, "off"}]
      BY DEF Logging!NoTargets
    <3>2. {"joined"} \X {s \in Logging!Servers : loki[s] = "up"} \in SUBSET Logging!Events
      BY DEF Logging!Events
    <3> QED
      BY <3>1, <3>2 DEF LoggingInv, Logging!TypeOK, UnitArrives, Logging!UnitArrives
  <2>2. here' = here \cup {v} /\ v \notin here /\ UNCHANGED <<leader, moved, endpoint, rules>>
    BY DEF UnitArrives, Logging!UnitArrives
  <2>3. ASSUME NEW u \in here
        PROVE  LogsFlow(u)'
    <3>1. u # v /\ u \in Units /\ LogsFlow(u)
      BY <2>2 DEF LoggingInv
    <3>2. seen'[u] = seen[u] /\ loggingEvents'[u] = loggingEvents[u] /\ reach'[u] = reach[u]
          /\ ready'[u] = ready[u] /\ targets'[u] = targets[u]
      BY <3>1 DEF LoggingInv, Logging!TypeOK, UnitArrives, Logging!UnitArrives
    <3> QED
      BY <2>2, <3>1, <3>2, LogsKept DEF Announced, Awaits
  <2>4. LogsFlow(v)'
    <3>1. reach'[v] = {}
      BY DEF LoggingInv, Logging!TypeOK, UnitArrives, Logging!UnitArrives
    <3> QED
      BY <3>1 DEF LogsFlow, Forwards
  <2>5. Announced(leader)
    BY <2>2 DEF Announced, Awaits, LoggingInv, Logging!TypeOK, UnitArrives, Logging!UnitArrives
  <2>6. ~moved => \A r \in Lokis : ReachesLoki(r)'
    BY <2>2, <2>5, RulesKept DEF LoggingInv
  <2> QED
    BY <2>1, <2>2, <2>3, <2>4, <2>6 DEF LoggingInv
<1>2. CASE UnitDeparts(v)
  <2> USE <1>2
  <2>1. Logging!TypeOK'
    BY DEF LoggingInv, Logging!TypeOK, UnitDeparts, Logging!UnitDeparts
  <2>2. here' \subseteq here /\ leader \in here' /\ v \notin here'
    BY DEF UnitDeparts, LoggingInv
  <2>3. \A u \in here' : Announced(u)
    BY <2>2 DEF Announced, Awaits, LoggingInv, Logging!TypeOK, UnitDeparts, Logging!UnitDeparts
  <2> QED
    BY <2>1, <2>2, <2>3, AnnouncedStep DEF UnitDeparts, Logging!UnitDeparts
<1> QED
  BY <1>1, <1>2

-------------------------------------------------------------------------------

LEMMA LoggingInit == Init => LoggingInv
<1> SUFFICES ASSUME Init
             PROVE  LoggingInv
  OBVIOUS
<1>1. Logging!Init /\ here \subseteq Units /\ leader \in here
  BY DEF Init
<1>2. Logging!TypeOK
  BY <1>1 DEF Logging!TypeOK, Logging!Init, Logging!NoTargets
<1>3. \A u \in Units : seen[u] = {}
  BY <1>1 DEF Logging!Init
<1>4. \A u \in here : Logging!Active(seen[u]) = {}
  BY <1>1, <1>3, ActiveIn
<1>5. \A r \in Lokis : ~Logging!IsReady(r, seen[leader])
  BY <1>1, <1>3 DEF Logging!IsReady
<1> QED
  BY <1>1, <1>2, <1>4, <1>5 DEF LoggingInv, LogsFlow, Forwards, ReachesLoki, Publishes

LEMMA LoggingStep == LoggingInv /\ [Next]_vars => LoggingInv'
<1> SUFFICES ASSUME LoggingInv, [Next]_vars
             PROVE  LoggingInv'
  OBVIOUS
<1>1. ASSUME UNCHANGED <<leader, here, moved, logging>>
      PROVE  LoggingInv'
  <2>1. Logging!TypeOK' /\ \A u \in here : Announced(u)
    BY <1>1 DEF logging, LoggingInv, Logging!TypeOK, Announced, Awaits
  <2> QED
    BY <1>1, <2>1, AnnouncedStep DEF logging, LoggingInv
<1>2. CASE UNCHANGED vars
  BY <1>1, <1>2 DEF vars, charm
<1>3. ASSUME NEW u \in here, NEW e \in CharmEvents \cup {"update_status"}, CharmHook(u, e)
      PROVE  LoggingInv'
  BY <1>1, <1>3 DEF CharmHook
<1>4. CASE RelationHook
  <2>1. UNCHANGED <<leader, here, moved>> /\ (Logging!Hooks \/ UNCHANGED logging)
    BY <1>4 DEF RelationHook, charm
  <2> QED
    BY <1>1, <2>1, EndpointStep, HookStep, PebbleReadyStep, ContainerStep DEF Logging!Hooks
<1>5. CASE Integrate
  <2>1. UNCHANGED <<leader, here, moved>> /\ (Logging!Joins \/ UNCHANGED logging)
    BY <1>5 DEF Integrate, charm
  <2> QED
    BY <1>1, <2>1, LokiStep DEF Logging!Joins
<1>6. CASE RelationEdit
  <2>1. UNCHANGED <<leader, here, moved>> /\ (Logging!Edits \/ UNCHANGED logging)
    BY <1>6 DEF RelationEdit
  <2> QED
    BY <1>1, <2>1, EndpointStep, LokiStep, ContainerStep DEF Logging!Edits
<1>7. ASSUME NEW u \in Units, Elect(u)
      PROVE  LoggingInv'
  <2>1. leader' \in here /\ moved' = TRUE /\ UNCHANGED <<here, logging>>
    BY <1>7 DEF Elect
  <2>2. Logging!TypeOK'
    BY <2>1 DEF logging, LoggingInv, Logging!TypeOK
  <2>3. \A v \in here : LogsFlow(v)'
    BY <2>1 DEF logging, LoggingInv, LogsFlow, Forwards, Awaits, Logging!Active, Logging!IsReady
  <2> QED
    BY <2>1, <2>2, <2>3 DEF LoggingInv
<1>8. ASSUME NEW u \in Units, PodReplaced(u)
      PROVE  LoggingInv'
  <2>1. u \in here /\ Logging!PodMoves(u) /\ UNCHANGED <<leader, here, moved>>
    BY <1>8 DEF PodReplaced
  <2> QED
    BY <2>1, ContainerStep
<1>9. ASSUME NEW u \in Units, UnitArrives(u) \/ UnitDeparts(u)
      PROVE  LoggingInv'
  BY <1>9, ScaleStep
<1>10. ASSUME NEW r \in Revisions[focus], Refresh(r)
       PROVE  LoggingInv'
  BY <1>1, <1>10 DEF Refresh, logging
<1> QED
  BY <1>2, <1>3, <1>4, <1>5, <1>6, <1>7, <1>8, <1>9, <1>10 DEF Next

\* A unit that has nothing left to handle forwards the logs of each container that is
\* up to exactly the endpoints it knows, whatever restarted, departed or was published
\* in whatever order (LogForwarder._update_logging, _on_pebble_ready).
THEOREM LogsForwarded == Spec => []ForwardsToEndpoints
<1>1. LoggingInv => ForwardsToEndpoints
  BY DEF LoggingInv, LogsFlow, Awaits, Forwards, ForwardsToEndpoints, Logging!ForwardsToEndpoints
<1> QED
  BY <1>1, LoggingInit, LoggingStep, PTL DEF Spec

\* A leader that has led from the start and has nothing left to handle has published
\* the alert rules in each relation that counts (LogForwarder._handle_alert_rules).
THEOREM RulesReachLoki == Spec => []RulesPublished
<1>1. LoggingInv => RulesPublished
  BY DEF LoggingInv, ReachesLoki, Awaits, Publishes, RulesPublished, Logging!RulesPublished
<1> QED
  BY <1>1, LoggingInit, LoggingStep, PTL DEF Spec

===============================================================================
