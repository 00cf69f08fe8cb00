----------------------------- MODULE ScrapeJobs -----------------------------
(***************************************************************************)
(* How MetricsEndpointConsumer turns the scrape jobs a charm publishes and  *)
(* the addresses of its units into the jobs Prometheus runs.  A job is      *)
(*   [name, ok, static], where static is a set of static configurations;    *)
(* published, a static configuration is the set of its targets, and "*"     *)
(* stands for every unit; expanded, it also says which unit it is about.    *)
(* The lists of the code are sets: of equal jobs it keeps one.               *)
(***************************************************************************)

CONSTANT None  \* no value

Wildcard == "*"

\* A job without targets gets those of DEFAULT_JOB.
Sanitized(job) == [job EXCEPT !.static = IF @ = {} THEN {{Wildcard}} ELSE @]

\* The name of a job is that of the charm's topology, then its own if it has one.
\* A unit and a hash are appended to it later.
Prefixed(job) == [job EXCEPT !.name = [job |-> @, unit |-> None, hash |-> {}]]

\* The unit whose address or domain name is host; of two units that claim it the code
\* takes the one it met last (_build_host_to_unit).
UnitsAt(host, hosts) ==
  {u \in DOMAIN hosts : host \in {hosts[u].address, hosts[u].fqdn}}

UnitAt(host, hosts) == CHOOSE u \in UnitsAt(host, hosts) : TRUE

PerUnit(job, targets, u) ==
  [job EXCEPT !.name.unit = u, !.static = {[targets |-> targets, unit |-> u]}]

\* The targets that are no wildcards, with a unit and without.
Matched(targets, hosts) == {t \in targets \ {Wildcard} : UnitsAt(t, hosts) # {}}
Unmatched(targets, hosts) == targets \ ({Wildcard} \cup Matched(targets, hosts))

\* One job for each unit that is named, and one for each unit when there is a wildcard.
PerUnitJobs(job, targets, hosts) ==
  LET matched == Matched(targets, hosts) IN
  {PerUnit(job, {t \in matched : UnitAt(t, hosts) = u}, u) :
     u \in {UnitAt(t, hosts) : t \in matched}}
  \cup {PerUnit(job, {hosts[u].address}, u) :
          u \in IF Wildcard \in targets THEN DOMAIN hosts ELSE {}}

\* What no unit matches stays together in one job.
Rest(job, hosts) ==
  LET left == {Unmatched(targets, hosts) : targets \in job.static} \ {{}} IN
  IF left = {} THEN {}
  ELSE {[job EXCEPT !.static = {[targets |-> t, unit |-> None] : t \in left}]}

\* expand_wildcard_targets_into_individual_jobs
Expanded(job, hosts) ==
  (UNION {PerUnitJobs(job, targets, hosts) : targets \in job.static}) \cup Rest(job, hosts)

\* _static_scrape_config: the jobs of one relation.
ScrapeConfig(jobs, hosts) ==
  UNION {Expanded(Prefixed(Sanitized(job)), hosts) : job \in jobs}

\* Mutant: jobs of one name are left alone.
DedupeJobNamesNot(jobs) == jobs

\* Different jobs of one name get a hash of their content.
DedupeJobNames(jobs) ==
  {IF \E other \in jobs \ {job} : other.name = job.name
     THEN [job EXCEPT !.name.hash = {[ok |-> job.ok, static |-> job.static]}]
     ELSE job : job \in jobs}

===============================================================================
