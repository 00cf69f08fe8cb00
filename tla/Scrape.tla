-------------------------------- MODULE Scrape --------------------------------
(***************************************************************************)
(* The metrics relation of the charm: each unit publishes its address and   *)
(* the leader the scrape jobs and alert rules (MetricsEndpointProvider); the *)
(* units of Prometheus turn them into a configuration and their leader      *)
(* reports what is wrong with them (MetricsEndpointConsumer).  A step is a   *)
(* hook; the lease, the units and the revision they run belong to the module *)
(* that composes this one.                                                   *)
(***************************************************************************)
EXTENDS ScrapeJobs

CONSTANTS
  Units,      \* units of the charm; a unit also stands for its domain name
  Addresses,  \* IP addresses of pods
  Scrapers,   \* units of Prometheus
  Lead        \* the one of them that leads throughout

VARIABLES
  leader,            \* the unit of the charm with the lease
  here,              \* the units there are
  revision,          \* jobs, rules and dashboards in the charm each unit runs
  due,               \* charm events each unit has to handle
  related,           \* whether there is a relation
  ip,                \* the bind address of each unit, None when it is no IP address
  address,           \* address and domain name in the databag of each unit, or None
  metricsApp,        \* jobs and rules in the application databag, or None
  metricsEvents,     \* relation events each unit of the charm has to handle
  behind,            \* units that have not run update-status since something changed
  members,           \* the units each Prometheus unit sees
  prometheusEvents,  \* relation events each Prometheus unit has to handle
  config,            \* the scrape jobs of each Prometheus unit
  alerts,            \* the alert rules of each Prometheus unit
  errors             \* the errors in the application databag of Prometheus

vars == <<leader, here, revision, due, related, ip, address, metricsApp, metricsEvents, behind, members,
          prometheusEvents, config, alerts, errors>>

Consumer == <<members, config, alerts, errors>>

MailType == {"joined", "changed", "departed"} \X (Units \cup {None})

-------------------------------------------------------------------------------
(* MetricsEndpointProvider *)

Binding(u) ==
  IF ip[u] = None THEN [address |-> u, fqdn |-> u] ELSE [address |-> ip[u], fqdn |-> u]

Published(u) == [jobs |-> revision[u].jobs, rules |-> revision[u].rules]

SetUnitIp(u) == address' = [address EXCEPT ![u] = Binding(u)]

\* What Prometheus is told when a hook of u ends: a change of the databag of the
\* unit, or of the application.
News(u) ==
  prometheusEvents' = [p \in Scrapers |->
             prometheusEvents[p] \cup (IF address'[u] # address[u] THEN {<<"changed", u>>} ELSE {})
                     \cup (IF metricsApp' # metricsApp THEN {<<"changed", None>>} ELSE {})]

\* Mutant: jobs and rules are published once.
SetScrapeJobSpecOnce(u) ==
  /\ SetUnitIp(u)
  /\ metricsApp' = IF u = leader /\ metricsApp = None THEN Published(u) ELSE metricsApp
  /\ News(u)

SetScrapeJobSpec(u) ==
  /\ SetUnitIp(u)
  /\ metricsApp' = IF u = leader THEN Published(u) ELSE metricsApp
  /\ News(u)

UnitJoined(u) ==
  /\ "joined" \in metricsEvents[u]
  /\ metricsEvents' = [metricsEvents EXCEPT ![u] = @ \ {"joined"}]
  /\ SetScrapeJobSpec(u)
  /\ UNCHANGED <<related, ip, behind, Consumer>>

\* relation-changed comes after relation-joined, where it adds nothing, and when
\* Prometheus reports another error.
UnitChanged(u) ==
  /\ metricsEvents[u] = {"changed"}
  /\ metricsEvents' = [metricsEvents EXCEPT ![u] = {}]
  /\ SetUnitIp(u)
  /\ UNCHANGED metricsApp
  /\ News(u)
  /\ UNCHANGED <<related, ip, behind, Consumer>>

\* Mutant: update-status is not observed.
CharmEventElected(u, e) ==
  /\ behind' = IF e = "update_status" THEN behind \ {u} ELSE behind
  /\ IF related /\ e = "leader_elected"
       THEN SetScrapeJobSpec(u)
       ELSE UNCHANGED <<address, metricsApp, prometheusEvents>>
  /\ UNCHANGED <<related, ip, metricsEvents, Consumer>>

\* leader-elected and update-status; no other event of the charm is observed.
CharmEvent(u, e) ==
  /\ behind' = IF e = "update_status" THEN behind \ {u} ELSE behind
  /\ IF related /\ e \in {"leader_elected", "update_status"}
       THEN SetScrapeJobSpec(u)
       ELSE UNCHANGED <<address, metricsApp, prometheusEvents>>
  /\ UNCHANGED <<related, ip, metricsEvents, Consumer>>

-------------------------------------------------------------------------------
(* MetricsEndpointConsumer *)

\* The units with an address (_relation_hosts).
Hosts(seen) == [u \in {v \in seen : address[v] # None} |-> address[u]]

Jobs(seen) == DedupeJobNames(ScrapeConfig(metricsApp.jobs, Hosts(seen)))

JobsAreValid(jobs) == \A job \in jobs : job.ok

\* jobs and alerts skip a relation without units or without jobs or rules: then the last
\* error stays where it is.
Reads(seen) == seen # {} /\ metricsApp # None

\* Mutant: an error that was reported is never taken back.
ErrorsOfEver(jobs) ==
  [jobs |-> errors.jobs \/ ~JobsAreValid(jobs),
   rules |-> errors.rules \/ metricsApp.rules = "bad"]

\* What is wrong with jobs, or with the rules; without any the last error stays.
ErrorsOf(jobs) ==
  [jobs |-> IF jobs = {} THEN errors.jobs ELSE ~JobsAreValid(jobs),
   rules |-> IF metricsApp.rules = "none" THEN errors.rules ELSE metricsApp.rules = "bad"]

\* The unit p, which sees the units in seen, reads the relation.  One invalid job drops
\* those of the relation, and the leader says so.
Reconfigure(p, seen) ==
  \E jobs \in {IF Reads(seen) THEN Jobs(seen) ELSE {}} :
    /\ config' = [config EXCEPT ![p] = IF JobsAreValid(jobs) THEN jobs ELSE {}]
    /\ alerts' = [alerts EXCEPT ![p] =
                    IF Reads(seen) /\ metricsApp.rules = "good" THEN "good" ELSE None]
    /\ errors' = IF Reads(seen) /\ p = Lead THEN ErrorsOf(jobs) ELSE errors
    /\ metricsEvents' =
         [u \in Units |-> IF errors' # errors /\ u \in here THEN metricsEvents[u] \cup {"changed"}
                          ELSE metricsEvents[u]]

\* relation-joined is not observed, but makes the unit a member; relation-changed
\* follows it at once.
ScraperHook(p, e) ==
  /\ e \in prometheusEvents[p]
  /\ e[1] # "joined" => <<"joined", e[2]>> \notin prometheusEvents[p]
  /\ prometheusEvents' = [prometheusEvents EXCEPT ![p] = @ \ {e, <<"changed", e[2]>>}]
  /\ members' = [members EXCEPT ![p] = IF e[1] = "joined" THEN @ \cup {e[2]}
                                       ELSE IF e[1] = "departed" THEN @ \ {e[2]} ELSE @]
  /\ Reconfigure(p, members'[p])
  /\ UNCHANGED <<related, ip, address, metricsApp, behind>>

-------------------------------------------------------------------------------
(* The environment *)

\* Two units are never given one address, but an address may be given again.
FreeAddresses(u) == Addresses \ {ip[v] : v \in here \ {u}}

\* Nobody looks at addresses before there is a relation.
Relate ==
  /\ ~related /\ related' = TRUE
  /\ ip' \in {f \in [Units -> Addresses \cup {None}] :
                /\ \A u, v \in here : u # v => f[u] # f[v] \/ f[u] = None
                /\ \A u \in Units \ here : f[u] = None}
  /\ metricsEvents' = [u \in Units |-> IF u \in here THEN {"joined"} ELSE {}]
  /\ prometheusEvents' = [p \in Scrapers |-> {"joined"} \X here]
  /\ UNCHANGED <<address, metricsApp, behind, Consumer>>

\* A pod that is replaced may come back with another address or another revision of the
\* charm: no event says so to this library before update-status.
PodMoves(u) ==
  /\ IF related
       THEN /\ \E a \in FreeAddresses(u) : ip' = [ip EXCEPT ![u] = a]
            /\ behind' = behind \cup {u}
       ELSE UNCHANGED <<ip, behind>>
  /\ UNCHANGED <<related, address, metricsApp, metricsEvents, prometheusEvents, Consumer>>

\* A unit of a number that was there before starts with an empty databag.
UnitArrives(u) ==
  /\ \A p \in Scrapers : u \notin members[p]
  /\ IF related
       THEN /\ \E a \in FreeAddresses(u) : ip' = [ip EXCEPT ![u] = a]
            /\ metricsEvents' = [metricsEvents EXCEPT ![u] = {"joined"}]
            /\ prometheusEvents' = [p \in Scrapers |-> prometheusEvents[p] \cup {<<"joined", u>>}]
       ELSE UNCHANGED <<ip, metricsEvents, prometheusEvents>>
  /\ address' = [address EXCEPT ![u] = None]
  /\ UNCHANGED <<related, metricsApp, behind, Consumer>>

\* Who never saw a unit is not told that it goes.
UnitDeparts(u) ==
  /\ metricsEvents' = [metricsEvents EXCEPT ![u] = {}]
  /\ behind' = behind \ {u}
  /\ prometheusEvents' = [p \in Scrapers |->
                IF u \in members[p] THEN prometheusEvents[p] \cup {<<"departed", u>>}
                ELSE {e \in prometheusEvents[p] : e[2] # u}]
  /\ UNCHANGED <<related, ip, address, metricsApp, Consumer>>

-------------------------------------------------------------------------------

Init ==
  /\ related = FALSE
  /\ ip = [u \in Units |-> None]
  /\ address = [u \in Units |-> None]
  /\ metricsApp = None
  /\ metricsEvents = [u \in Units |-> {}]
  /\ behind = {}
  /\ members = [p \in Scrapers |-> {}]
  /\ prometheusEvents = [p \in Scrapers |-> {}]
  /\ config = [p \in Scrapers |-> {}]
  /\ alerts = [p \in Scrapers |-> None]
  /\ errors = [jobs |-> FALSE, rules |-> FALSE]

Hooks ==
  \/ \E u \in here : UnitJoined(u) \/ UnitChanged(u)
  \/ \E p \in Scrapers, e \in MailType : ScraperHook(p, e)

-------------------------------------------------------------------------------
(* Properties *)

TypeOK ==
  /\ related \in BOOLEAN
  /\ ip \in [Units -> Addresses \cup {None}]
  /\ \A u \in Units : address[u] = None \/
       address[u] \in [address: Addresses \cup Units, fqdn: Units]
  /\ metricsApp = None \/ metricsApp.rules \in {"none", "good", "bad"}
  /\ metricsEvents \in [Units -> SUBSET {"joined", "changed"}]
  /\ behind \subseteq Units
  /\ members \in [Scrapers -> SUBSET Units]
  /\ prometheusEvents \in [Scrapers -> SUBSET MailType]
  /\ alerts \in [Scrapers -> {"good", None}]
  /\ errors \in [jobs: BOOLEAN, rules: BOOLEAN]

\* Every event is handled, and update-status has come since the last change without
\* an event.
Settled ==
  /\ related /\ behind = {}
  /\ \A u \in here : metricsEvents[u] = {} /\ due[u] = {}
  /\ \A p \in Scrapers : prometheusEvents[p] = {}

Entries(p) == UNION {job.static : job \in config[p]}

\* Then the configuration of every Prometheus unit names, under each unit, the address
\* it has now, and scrapes every unit if a job asks for all of them: no address of a
\* pod that moved or departed, or that now is another's (_set_unit_ip, jobs).
ScrapesTheUnits ==
  Settled => \A p \in Scrapers :
    /\ \A e \in Entries(p) : e.unit # None =>
         e.unit \in here /\ e.targets \subseteq {Binding(e.unit).address, e.unit}
    /\ (JobsAreValid(metricsApp.jobs) /\ \E job \in metricsApp.jobs :
          \E targets \in Sanitized(job).static : Wildcard \in targets) =>
         \A u \in here : \E e \in Entries(p) : e.unit = u

\* Then what is published is what the leader runs, whoever led when it changed.
PublishesRevision == Settled => metricsApp = Published(leader)

\* Prometheus never gets two jobs of one name, which it would refuse (_dedupe_job_names).
JobNamesUnique ==
  \A p \in Scrapers : \A job, other \in config[p] : job.name = other.name => job = other

\* When everything is handled, an error is reported exactly when what is published has
\* one; rules that were taken away leave the report of the earlier ones (alerts).
ErrorsReported ==
  Settled /\ here # {} =>
    /\ errors.jobs <=> ~JobsAreValid(metricsApp.jobs)
    /\ metricsApp.rules # "none" => (errors.rules <=> metricsApp.rules = "bad")
    /\ \A p \in Scrapers : alerts[p] = "good" <=> metricsApp.rules = "good"

===============================================================================
