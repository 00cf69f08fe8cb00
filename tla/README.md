# Verification of the Polaris charm

`polaris-k8s` is a Juju charm: one process per unit, started anew for each hook, that
configures Apache Polaris in a workload container and shares a few secrets with the
other units through a databag that only the leader may write. What is hard about it is
not in any one handler. It is in what happens when a hook fails half way, when a handler
is deferred and run again before another event, when the lease moves, when the operator
changes something between two hooks, and when the effects of a hook outside Juju (a
container, a database, a keystore) outlive the databag writes that went with them.

This directory holds TLA+ models of that code, TLC configurations that check them on
small instances, and TLAPS proofs for what can be shown for every instance. Source paths
below are relative to the repository root.

## 1. The system

| Component | Source | State it keeps | Operations |
|---|---|---|---|
| Charm and hooks | `src/charm.py`, `src/protocols.py`, Juju and ops | hook in progress, deferred notices, the leadership lease | dispatch, defer, commit, fail, retry, cascade (`reconcile(handler)`) |
| Root credentials, key, bootstrap flag | `src/events/polaris.py`, `src/core/models.py` (`PeerAppModel`, `PolarisCluster`) | peer application databag: admin password, token broker key, `metastore_bootstrapped`, credential epoch | `reconcile`, `_on_secret_changed`, `_ensure_admin_credentials`, `_ensure_token_broker_key`, `_reset_root_credentials` |
| Polaris workload | `src/managers/polaris.py`, `src/core/workload/polaris.py`, `src/config/polaris.py` | files in the container, the Pebble layer, the running service | `PolarisManager.update`: write, bootstrap, restart |
| Metastore | `src/events/metastore.py`, `src/managers/metastore.py` | the PostgreSQL relation, the Polaris schema, the root principal stored in the database | `reconcile`, `_on_relation_broken`, `ensure_schema` |
| Object storage | `src/events/s3.py` | the S3 relation's settings and CA chain | `reconcile`, `_on_s3_credential_gone` |
| Truststore | `src/managers/tls.py`, `src/events/certificates_transfer.py` | keystore and chain files in the container, its password in the unit databag | `ensure_certificates_imported` |
| OAuth | `src/events/oauth.py` | client configuration in the OAuth relation | `reconcile`, `get_statuses` |
| Console | `src/managers/console.py`, `src/core/workload/console.py` | environment, certificate assets, console service | `ConsoleManager.update` |
| Console certificates, ingress | `src/events/tls.py`, `src/events/ingress.py`, `lib/charms/traefik_k8s/v2/ingress.py` | open port, ingress backend, the address stored by the library | `reconcile` of each |
| Database client library | `lib/charms/data_platform_libs/v0/data_interfaces.py` | requests, published fields, secrets, what each side saw last | publish, delete, compare, emit |
| Logs | `lib/charms/loki_k8s/v1/loki_push_api.py` | log targets in the containers, alert rules | `_update_logging`, `_on_pebble_ready`, `_handle_alert_rules` |
| Metrics | `lib/charms/prometheus_k8s/v0/prometheus_scrape.py` | addresses, jobs and rules; the configuration of Prometheus and its errors | `set_scrape_job_spec`, `_set_unit_ip`, `jobs`, `alerts` |
| Dashboards | `lib/charms/grafana_k8s/v0/grafana_dashboard.py` | stored and published dashboards; what Grafana rendered and loaded | `_update_all_dashboards_from_dir`, `_render_dashboards_and_signal_changed` |
| Context, configuration | `src/core/context.py`, `src/config/charm.py`, `src/core/constants.py` | none (reads relations and options) | |
| Statuses | `get_statuses` of each component | none, but for the schema that `MetastoreEvents.get_statuses` creates | |
| Logging | `src/core/logging.py` | none | |

How they interact. Juju starts a hook, ops re-emits the deferred notices and then the
hook's own event; the handlers of the event run in the order they were registered in
`PolarisK8sCharm.__init__`. Nearly every handler checks that the peer relation exists
and that Pebble answers, defers if not, and ends in `PolarisManager.update`, which
returns early unless credentials, metastore and object storage are there. Certificates
cascade: `TLSEvents.reconcile` calls `IngressEvents.reconcile`, which calls
`OAuthEvents.reconcile`, which updates both workloads. Units talk through the peer
application databag alone: the leader writes passwords, the key and the bootstrap flag,
the others read them. At the end of a hook the statuses are collected and the buffered
databag writes are flushed.

Which behaviours are hard:

* **Interleaving.** Units run hooks concurrently, each on the databag as it was when the
  hook began, against one database.
* **Atomicity and failure.** Databag writes are buffered and vanish when the hook fails;
  container, management API, database and keystore effects do not.
* **Ordering.** Deferred notices come before the event that triggers the hook, also
  before `relation-broken`. One `relation-changed` stands for any number of changes.
* **Two sides.** A relation is two applications, each with leaders and units that hear
  of a change in hooks of their own; a library compares what it sees with what it saved.
* **Leadership.** It is captured when the charm is built (`PolarisManager.is_leader`) in
  some places and asked for again in others.
* **Timing of the operator.** Secrets are read live; relations come and go.
* **Liveness.** Most work is retried only by `update-status`.

What makes each component correct:

* credentials: the databag and the database agree on the root password; the key is
  generated once; every password change is announced by the epoch; a password in force
  is only replaced on request;
* workload: a running service runs with what is on disk, on the database it is related
  to, and only after a bootstrap; units agree on the key; a deployment that has all it
  needs ends up serving;
* metastore: the bootstrap flag is down once the relation is gone;
* truststore: the recorded password opens the keystore; the keystore holds what the
  relations offer; the service is restarted after each change;
* console, ingress, OAuth: port, backend and published client follow the certificate and
  the address, the console runs with the assets on its disk, and a unit that says that
  login works has the address its client was registered for;
* database library: credentials never appear in clear, a request reaches the leader of
  the provider, what changes reaches the workload, each status is told once;
* observability: logs go to the endpoints that are known, Prometheus scrapes the units
  where they are, what is published is what the leader runs, and what Grafana shows
  refers to nothing that is not there;
* statuses: a deployment whose units are all active works.

`PROJECT.json` lists every component with its status, and under `hazards` the places in
the code where these can go wrong.

## 2. Modules

| Module | What it is |
|---|---|
| `PolarisCharm` | the core: credentials, key, bootstrap flag, `PolarisManager.update`, metastore, hooks and leadership, for any set of units |
| `Credentials` | what the core promises of its credentials: an abstract ledger, which `PolarisCharm` implements |
| `Statuses` | which statuses the components report in a state of `PolarisCharm`, and when a unit is active |
| `Truststore` | one unit's keystore, one keytool call at a time |
| `Console` | console, certificates, ingress and OAuth, for any set of units |
| `Database` | the database relation: the library on both sides, and the settings it brings to Polaris |
| `LogForwarding` | the logging relations, both sides |
| `ScrapeJobs`, `Scrape` | the metrics relation: how jobs are expanded, named and told apart, and both sides around it |
| `Templates`, `Dashboards` | the dashboards relation: how a dashboard is rendered, and both sides around it |
| `Observability` | the composition of `LogForwarding`, `Scrape` and `Dashboards`, which share units, lease, revisions and charm events |
| `PolarisCharm_proofs`, `PolarisCharm_services`, `Truststore_proofs`, `Console_proofs`, `Database_proofs`, `Templates_proofs`, `LogForwarding_proofs`, `Observability_proofs` | theorems |
| `MCPolarisCharm`, `MCTruststore`, `MCConsole`, `MCDatabase`, `MCObservability` | symmetry sets and small instances for TLC |

### PolarisCharm

The state is the lease (`leader`), the databag (`app`), what the operator controls
(`secret`, `storage`, `rel`), what each unit sees or runs (`hook`, `deferred`,
`notices`, `joined`, `reach`, `file`, `running`), and the databases (`root`, `schema`).

*Hooks.* A unit runs one hook at a time, in a record `hook[u]`: where it stands (`pc`),
the deferred handlers still to be run again (`again`), the handlers of its own event
(`todo`), the running handler (`cur`), leadership when the charm was built (`leader`)
and whether it was lost since (`deposed`), the databag as this hook sees it (`app`) with
whether it wrote to it (`wrote`), and the locals of the running handler. One action is
one handler up to the next point where something outside the hook matters:
`PolarisReconcile`, `MetastoreReconcile`, ... run up to the call of
`PolarisManager.update`; `UpdateConfig`, `Bootstrap` / `BootstrapFails` and `Restart` /
`RestartRaises` are the steps of `update`, between which other units run, Pebble may go
away (`PebbleLost`) and the hook may fail (`Abort`); `EnsureAgain` is the end of
`reconcile` when a password was pending. `Commit` flushes the buffer. `CommitRefused` is
Juju refusing the write of a unit that lost the lease. A failed hook keeps its external
effects, loses its buffer and is run again by `Retry` with the deferred notices it
started with.

*Abstractions.* The configuration file, the key file and the settings of the running
service are one record `[password, key, db]`. A deferred notice is its handler, so two
notices for the same handler are one; they are re-emitted in any order, which allows the
order in which ops keeps them. The event `update` stands for every event `_on_update`
observes, and may come at any time, as `update-status` does. Secrets and storage are
read when the handler runs, as in the code; a relation seen by a unit (`joined`) does
not change during its hook. `CertificatesReconcile` and `S3Reconcile` may or may not
force a restart: what decides is in `Truststore`. `OAuthReconcile` also stands for the
handlers that reach it by the cascade. A container restart empties its disk; Pebble
comes back between hooks.

### Truststore

Each keytool call and file write of `ensure_certificates_imported` is an action:
`CreateStore` (password and copy), `SetStorePassword`, `OpenStore` (listing the aliases,
then comparing and writing the chain file), `DeleteAlias`, `ClearChain`, `StartImport`,
`ImportCertificate`. The keystore password is in the unit databag and is lost when the
hook fails, while the keystore stays. Peers, credentials and metastore are taken to be
there. A configuration file is the one setting of the object storage that is told apart.

### Credentials and Statuses

`Credentials` has one step that publishes and two that change a database: the databag
and the databases are not changed together, which is all that can be promised. The
mapping takes key, password and epoch from the committed databag.

`Statuses` translates `get_statuses` of the components as functions of the state, and
`StatusHandler` as their union: nothing reported is active. A unit reports as it would
between two hooks.

### Console

A hook is one step here: the container is the unit's own, the leader is the only writer
of what the units share, and what a hook sees is fixed when it begins. Each handler is
an operator from a hook record and a container to the same; `Observed` is the table of
the events each constructor observes, and `Turns` the order they are called in, the
deferred notices before the event of the hook. `Course` is what each turn leaves, so
that `HookRaises` may stop after any of them or inside `ConsoleManager.update`, whose
halves `Interrupted` lists. The cascades are calls: `TlsReconcile` calls
`IngressReconcile`, which calls `OAuthReconcile` without an event to defer. The
library's stored address, the open port and the notices deferred are the unit's; a pod
that moves loses the first and the last, as both live on its disk, with the container
and the certificate for the request it made.

`mishaps` is a history: a restart lost between the halves of an update, a client
configuration dropped at the end of a cascade, a lease that moved, and a backend that
was missed: the lease passed to a unit with another port and nothing left to handle that
would publish it (`BackendMissed`).

### Database

A databag is a function from its fields to values, a secret a URI and a content. The
library sorts fields into secrets by the groups of `SECRET_LABEL_MAP`, for those that
the requirer asked for (`SecretPart`), adds or updates a secret per group
(`SecretsWith`), and publishes the URI. Deleting fields from a secret that does not hold
all of them deletes none of them (`Loses`). The charm reads the secret by the URI that
is published (`UserSecretContent`), the library by its label (`Content`). On the other
side `snapshot` is what a unit saved in its databag of the fields it saw; `EventOf` is
the chain of early returns that emits at most one event for what changed since.

Juju sends `relation-changed` when a databag differs, and `secret-changed` when a secret
has a new revision; several changes may be one event, as `notices` is a set.

### Observability

Each of the three modules has the hooks of the charm's side and those of the other side,
whose code is in the same library. What a library does for a charm event is its
`CharmEvent`, an action of `Observability` for all that observe it. A revision is what
the charm ships: its jobs, its rules and its dashboards; a refresh replaces pods one
after another, so units may run different ones.

Alert rules are "none", "good" or "bad". A dashboard is a record of variables, inputs
and panels; `Templates` has the passes of `CharmedDashboard` over it, which only share
names. A job is a name and a set of static configurations, and the hash the library
appends to the name of a duplicate is the content hashed.

## 3. What the runs check

Passing runs:

| Run | Instance | Shows |
|---|---|---|
| `startup` | one unit, peers not there yet, churn or a failed schema creation, one change | `TypeOK`, `RunsOnRelatedDatabase` |
| `leadership` | two units, two faults among failing hooks, lost replies, elections between hooks and under the loser's hook | `KeyIsWriteOnce`, `EpochAnnouncesPassword`, `OnlyOperatorReplacesPassword`, and the refinement `ImplementsCredentials` |
| `credentials` | two units, three changes (a metastore can be removed, made again and a rotation asked for), a refused reset or an election | `NotLockedOut`, `RunningMatchesFile`, `ActiveMeansServing` |
| `detach` | two units, two databases, two changes, a failing hook, restart or bootstrap | `BrokenClearsBootstrap`, `ServingImpliesBootstrapped`, `TokensAgree` |
| `serving` | two units, one change, a reset refused once, fair | `EventuallyServing` |
| `trust` | two certificates per chain, two changes, one fault: an import or a hook that fails, or churn | `TypeOK`, `StoreOpens`, `StoreFollowsRelations`, `RunningTrustsStore`, `StoreComplete` |
| `console` | one unit whose containers start late, two certificates, three addresses, one change of any kind, one failing hook, container restart or moved pod | `TypeOK`, `RunsWhatIsOnDisk`, `PortFollowsCertificate`, `ActiveMeansLoginWorks`, `IngressKnowsPods` |
| `console_pair` | two units deployed with TLS and the ingress or with the ingress alone, one certificate, one change (a relation removed or made, an address withdrawn, an ingress unit departed), the lease moved twice, between or under hooks | `BackendMatchesPorts` |
| `database` | two units on each side, four publications, one fault: a failing hook, a restart, a lease of either side | `TypeOK`, `CredentialsStaySecret`, `SettingsFollowEndpoints`, `StatusesTold`, `RequestReachesProvider` |
| `rotation` | one unit on each side, two passwords and two addresses, four publications and deletions, a failing hook or a restart, fair | `SettingsReachPolaris` |
| `observability` | two units at most, three Loki units in two relations, one unit of Prometheus and two of Grafana, two revisions, one relation in each behaviour | `TypeOK`; of logs `ForwardsToEndpoints`, `RulesPublished`; of metrics `ScrapesTheUnits`, `PublishesRevision`, `JobNamesUnique`, `ErrorsReported`; of dashboards `PublishesDashboards`, `ShowsDashboards`, `ShownResolve` |

One run ends in a counterexample, a finding whose line is in `PROJECT.json`.
`first_password_lost` is one unit without a password from the operator, whose container
restarts once, and refutes `AdminHasCommittedPassword`: a deployment that stays
provisioned ends up with a committed password that is the one of the root principal.
`src/config.yaml` says that the charm generates the password of the admin user where the
option is not set. The generated password is used by bootstrap before the hook that
generated it commits. If that hook fails, the database has a password nobody knows: the
retried hook generates another and commits it, bootstrapping the realm again changes
nothing, and nothing ever resets what looks like the password in force. The
counterexample is a behaviour of the fair specification that stays in that state for
good.

Which faults a property is checked under matters, because some properties are true only
without some of them. What is known:

* `NotLockedOut` holds with elections between hooks and refused resets. It is false when
  a hook that generated or rotated the password fails (`first_password_lost`), when a
  reset is applied but its answer is lost (every retry authenticates with the old
  password), when the lease is lost under a hook that reset the password, and when a
  database bootstrapped with an earlier password is related again (two databases, five
  changes).
* `RunningMatchesFile` is false when bootstrap or a hook fails after the file was
  written: the restart is decided by comparing with the file that is then overwritten,
  so that the next update finds no difference. It is also false while a unit has still
  to handle the removal of the metastore, which the property leaves out.
* `ActiveMeansServing` is false under the faults `NotLockedOut` is false under: a
  deployment that lost its first password reports nothing.
* `TokensAgree` survives failing hooks but not a lease lost under a hook: a hook that
  generated a key and was refused may have started its service with it.
* `BrokenClearsBootstrap` and `ServingImpliesBootstrapped` need a lease that stays while
  the relation is removed: the flag does not say which database it is about, and only a
  unit that is leader in its own relation-broken hook clears it.
* `EventuallyServing` is false with a container restart and a bootstrap that fails once:
  a pending rotation needs a running server, and its failure returns before the server
  would be started.
* `StoreOpens` is false when the hook that creates the keystore fails: the first import,
  or anything after it. From then on every hook fails.
* `StoreFollowsRelations` is false when a hook fails between writing a chain file and
  deleting the aliases, when the old and the new chain have the same length.
  `StoreComplete`, which counts aliases, holds even then. The first two and
  `RunningTrustsStore` therefore ask for a behaviour in which no hook failed but for an
  import keytool refused later (`NoHookFailed`); and certificates imported while the
  object storage is away ask for a restart that `update` drops, so `RunningTrustsStore`
  also asks for a storage relation that stays.
* `RunsWhatIsOnDisk` is false after a hook that failed between replacing the assets of
  the console and its restart ("restart_lost").
* `BackendMatchesPorts` and `RequestReachesProvider` hold while leases move, but for one
  case each, as nobody publishes a backend, makes or handles a request, for being
  elected: a lease that passes to a unit whose turn to do so has gone by
  ("backend_missed", "request_missed"). `BackendMatchesPorts` is also false while the
  console of the leader does not answer: a pod that moved took with it the deferred
  notice of a certificate, and only the console coming back has the certificate handled.
* `ActiveMeansLoginWorks` is false when a client configuration was dropped, and when the
  lease moved, as only the leader publishes it. With two units it is also false for a
  unit other than the leader while its Polaris container is away, whose cascade ends
  before it updates the console with a new address and defers nothing; and for one that
  stored another address than the leader did. That takes an address that is replaced and
  then withdrawn before every unit saw it: a handler that finds no address keeps the one
  it has. The property leaves these two out.
* `SettingsFollowEndpoints` is false when the provider publishes an address and takes it
  back before a unit compared: an update for another reason, or a hook that failed, may
  have put it into Polaris, and the comparison then finds no change. The periodic update
  repairs it, which is what `SettingsReachPolaris` says.
* `ErrorsReported` says nothing of rules while none are published: the library skips a
  relation without rules and never withdraws its report about rules that were taken
  away.
* `ShownResolve` needs well-formed dashboards (`WellFormed`). A panel that refers to a
  variable of the library's name without braces is pointed at the library's variable and
  its own removed.

What the models take for granted of Juju: `relation-changed` follows `relation-joined`
at once; `relation-created` and `relation-joined` come before the others of their
relation and nothing comes after `relation-broken`; a failed hook is run again before
any other; in `Observability`, `update-status` comes when a unit has nothing else to do,
and in the other modules at any time; databag and leadership writes of a hook that fails
are lost. Stored state and deferred notices are on the disk of the pod and may be lost
with it.

### Bounds

Two units are a leader and another, and with an election either order; a third would
only repeat one of them, since units interact through the databag and the database
alone. Two random passwords and keys are what it takes to see one replaced by another;
one user password, with none, an inaccessible and an invalid secret, makes a rotation
and its reversal. Two databases make the flag of one be taken for the other's. Two
certificates make a chain with an order and a proper prefix. Changes and faults are
bounded by `MaxEdits` and `MaxFaults`: three changes are a relation removed, made again
and a rotation; two faults in `leadership` are a failure and an election. Everything
between them, in particular the number of hooks, is unbounded. The epoch only grows with
a password change, which takes a change by the operator or a first password, so it needs
no bound. Units, passwords, keys and certificates are symmetric in the safety runs and
not in the fair ones.

In `Console` one unit has what a unit does alone (its container, its certificate, its
stored address) under any one change and fault; the second unit is for what the leader
publishes for all, so `console_pair` has one certificate and one address, no OAuth,
whose client is no part of the backend, and none of the faults of one container. Two
moves of the lease are one away and one back to the unit that led. Two certificates and
two addresses with TLS are a renewal and a new address; one address without TLS is the
case OAuth refuses. In `Database` four publications are a user, an address, its
replacement and its withdrawal, or a status raised and resolved before and after;
`rotation` has two of each value and one unit because nothing there depends on another.
In `Observability` a behaviour is about one relation: the three share no databag, and
the product would only multiply their states. Two Loki relations, one of two units, are
the least with a relation that does not count beside one that does. `Mixed` and `Broken`
are the revisions: jobs with and without targets, of one name, an address that is a
unit's and one that is nobody's, two dashboards of one uid, and a job, a rule and a
dashboard that the other side refuses. The logging relation is about no revision and has
one.

### Fairness

`Fairness` assumes that a hook in progress goes on (`WF HookStep`), that the peer
relation comes (`WF CreatePeers`), that Kubernetes brings a container back (`WF
PebbleUp`), that Juju delivers what it owes (`SF Deliver`) and that `update-status`
keeps coming (`SF Dispatch(u, "update")`). The last two are strong because a unit that
is busy with another hook is not idle all along; Juju's queue is fair to each event, and
`update-status` is periodic (`src/events/polaris.py` observes it for this reason).
Nothing is assumed of the operator, of faults or of elections. `EventuallyServing` and
`AdminHasCommittedPassword` have as their premise that the deployment stays provisioned;
the bound on faults makes them stop.

In `Database`, `Fairness` assumes that a container comes back, that a failed hook is run
again and an event delivered, and that `update-status` keeps coming (strong, for the
same reason). `SettingsReachPolaris` has as its premise that the provider stays with
some settings. The other properties of `Console`, `Database` and `Observability` are
about states in which everything was handled: whether such a state is reached is a
matter of Juju's queue.

## 4. What is proved

`PolarisCharm_proofs` proves, for every set of units, passwords, keys and databases and
for every bound:

* `TypeCorrect`: `Spec => []TypeOK`. `TypeOK` is not inductive: that `UpdateConfig`
  writes a well-formed configuration depends on the early returns of `update` having
  been passed, and that `Retry` starts a proper hook depends on a failed hook
  remembering its event. `WellFormed` adds that (`Control`): outside `idle` there is an
  event, inside `update` there is a running handler, and before the configuration or the
  bootstrap is written the credentials are complete and the unit has a database.
* `CredentialsConsistent`: `Spec => []Consistent`, with `Fresh`: the databag of a hook
  that may still commit (its unit leads and has not been deposed) comes after the
  committed one. `Advances` says what comes after means: a key stays, the epoch does not
  decrease, a changed password moved it, and a password in force was only replaced by an
  operator's. Inside the hook every write advances (`CredentialOutcomesAdvance`,
  `KeyOutcomesAdvance`, `WithBootstrappedAdvances`) and advances add up; from outside,
  nobody else can commit, because a commit needs the lease.
* `KeyKept`, `PasswordAnnounced`, `PasswordKept`: the three action properties of the
  `leadership` run, each a part of `Advances(app', app)`.

The last four assume `NoPromotion`: no unit is given the lease while it is in a hook
(the fault kind `promote` is absent). Without it a hook with an old databag could become
one that may commit, and the theorems are false; whether Juju ever does so is outside
this repository.

The argument has one lemma per group of actions, all with the same conclusion
(`HookMoves`): the step gives its unit a well-formed hook record with a databag after
the one it had. What it takes for `Fresh` is in `MovesFresh`, `CommitFresh`,
`StartFresh`, `QuietFresh` and `EnvironmentFresh`.

The same module proves `CredentialsImplemented`: `Spec /\ NoPromotion =>
ImplementsCredentials`. The initial state maps to that of `Credentials`. A step that
commits changes no database, and by `Fresh` and `Advances` is a `Publish`; a step that
bootstraps or resets changes one root principal in a way the ledger permits
(`Permitted`) and commits nothing; every other step is a stutter.

`PolarisCharm_services` proves the invariants about services and databases, each under
the faults it holds with, which are those of the run that checks it. The assumptions are
about `Faults`, `Events` and `Databases`; section 3 says how each invariant fails
without its own.

* `RunsWhereRelated`: `Spec => []RunsOnRelatedDatabase`, with no assumption. `Located`
  follows a configuration from `UpdateConfig` to `Restart`: what a hook has still to
  start is for the database its unit sees, and the database a unit sees changes only
  where the removal of the old relation is among its events, or being handled.
* `ServingOnOneDatabase`: `ServingImpliesBootstrapped` where there is one database
  (`OneDatabase`), whatever else goes wrong, as the flag then never has to go down:
  wherever it is up, in the databag or in what a hook sees of it, the database has a
  root principal (`Known`).
* `ServingUnderOneLeader`, `FlagFollowsRelation`, `ServicesShareKey`:
  `ServingImpliesBootstrapped`, `BrokenClearsBootstrap` and `TokensAgree` for any number
  of databases, under a leader that keeps its lease (`StableLease`: no election and no
  deposed or promoted unit; every other fault may occur). Their invariant is `Steady`:
  the committed flag is up only while the leader sees the database or has still to
  handle its removal, and the database it sees was bootstrapped (`Leads`); a hook that
  sees the flag up knows as much (`Hooked`). For the key, what matters is when other
  units may depend on it (`Exposed`). Before, a leader whose hook failed may run with a
  key that was lost; from then on the key is committed and the leader restarted with it
  (`Keyed`).
* `DatabaseStaysManageable`, `ActiveUnitsServe`: `NotLockedOut` and `ActiveMeansServing`
  where hooks run to their end (`HooksComplete`: no failing hook, no lost answer, no
  lease lost or given under a hook, and rotations taken up by events other than the
  `secret-changed` event, whose handler raises when the secret cannot be read) on one
  database. Elections between hooks, refused resets and bootstraps that fail are
  allowed. The invariant is about the databag that counts (`Charge`), the leader's view
  of it while it is in a hook: the database has that password or none (`Locked`), and
  every hook will commit what it has (`Complete`).
* `ServicesMatchFiles`: `RunningMatchesFile`, which also needs that a bootstrap with a
  schema does not fail (`BootstrapWorks`). A file that its service does not run with is
  about to be followed by the restart of the same hook (`Matches`).

`Truststore_proofs` proves all five invariants of `Truststore`, for any certificates,
passwords and bounds, with no assumption on faults: `TypesHold`, `PasswordOpensStore`
(`StoreOpens`), `StoreIsCurrent` (`StoreFollowsRelations`), `StoreIsComplete`
(`StoreComplete`) and `ServiceTrustsStore` (`RunningTrustsStore`). The inductive
invariant `IInv` has four parts.

* `WellFormed`: types, who called `ensure_certificates_imported` and for what (`Call`),
  and what its position says of the disk (`Position`): in the middle of an import the
  chain file is written and the aliases are a prefix of the chain. This holds as long as
  the container stays, which is lost to a restart at any of those points.
* `Openable`: the keystore has the password of the hook in progress, and between hooks
  the committed one.
* `Due`: where a keystore does not agree with its relation, somebody owes it: an event
  that is still to come, a deferred handler, a handler still to run in the hook, or the
  retry of a hook that failed (`Owed`). An import under way is of the chain that is
  offered, or a notice says that it is not (`Current`), as relations change under hooks.
* `Abreast`: the service trusts what the keystore has, or the hook has still to restart
  it (`Bound`), or an import failed in the middle (`Torn`).

`Console_proofs` proves all six invariants of `Console`, for any units, certificates,
addresses, changes and faults: `ConsoleTyped` (`TypeOK`), `ConsoleInStep`
(`RunsWhatIsOnDisk`), `PortIsCurrent` (`PortFollowsCertificate`), `IngressFollowsPods`
(`IngressKnowsPods`), `BackendFollowsPorts` (`BackendMatchesPorts`) and `LoginWorks`
(`ActiveMeansLoginWorks`). As one step is a whole hook, the work is in what a hook makes
of a container.

* A handler has an `Effect` on the hook record and the container (`ResultIs`), and
  `Stands` is the account of a hook after some of its handlers: what it defers,
  publishes and stores as a function of what it saw and of which handlers ran. Each turn
  keeps the account (`HookContinues`), so a hook that ends has it for all its handlers
  (`HookEnds`), and one that fails leaves the container as one of the turns would, or as
  an interrupted update does (`Spoilt`).
* `Owes` says that an event of some kinds is still to come or its hook to be run again.
  `ExposureInv` says of each unit (`Fine`) that where the port, the assets, or the
  address it gave the ingress are not those of its certificate and its pod, it owes the
  handling of a certificate (`OwesTls`) or of the ingress (`OwesIngress`), and of the
  leader that it owes it where the backend is not its port (`Backed`), which a lease
  that moves keeps unless it passes to a unit that owes nothing. What is owed stays owed
  until the handler runs (`OwesStays`), and a handler that cannot run defers. None of
  this is lost with a relation, as its end is an event that the same handler observes.
* `LoginInv` adds the address (`Addressed`): a stored address that is not the one of the
  ingress, a client for another address and an environment without it each leave the
  unit an event to handle (`Remembers`, `Registered`, `Current`). A hook that keeps its
  address (`KeepsUrl`) ends with the environment and the client for it (`HookTracks`);
  one that gets a new one does so in `ingress_changed`, whose last handler makes both
  for the address it leaves, or drops the client (`IngressTracks`).

`Database_proofs` proves `CredentialsAlwaysSecret`: `Spec => []CredentialsStaySecret`,
for any units, leases, publications and faults. The invariant has to add that who asks
for a database asks for secrets with it: a write is then either made before there is a
request, and refused unless it is about addresses (`Premature`), or made when every
secret field is asked to be secret, and no field that starts in the databag keeps it
there (`SecretPart`), because none does.

It also proves `StatusesAlwaysTold`: `Spec => []StatusesTold`. The invariant
(`StatusesInv`) says that, while the provider is no subordinate, each unit was told of
the statuses in what it last saw, and that what it last saw is what is published or a
relation-changed is still to come, or to be retried (`WillCompare`). A hook that fails
after it was told and before it noted what it saw is retried with the same comparison.

The other three invariants of `Database` follow from `TypedInv`, by which a secret only
has fields of its group, the user is published with its password and with the reference
to the secret, or not at all (`Granted`), and who asks for a database asks for secrets
with it (`Asked`).

* `TypesKept` is `Spec => []TypeOK`.
* `RequestArrives`: `RequestReachesProvider`. Whichever leases moved, a leader that has
  not asked has still to handle the creation of the relation (`ToAsk`), and the primary
  of the provider saw the request or has still to look (`RequestInv`), until a lease
  passes to a unit that had looked when it was not its turn.
* `PolarisFollowsAddress`: `SettingsFollowEndpoints`. Where Polaris does not run on the
  published address, an update is due (`WillUpdate`) or the difference to what the unit
  last saw will have it updated (`WillHear`), as long as nothing was taken back in
  between (`SettingsInv`). That the unit will compare is `WillCompare` again.

`LogForwarding_proofs` proves two invariants of `Observability`, for any units,
containers, logging relations and edits: `LogsForwarded`: `Spec =>
[]ForwardsToEndpoints` and `RulesReachLoki`: `Spec => []RulesPublished`. Neither is
inductive, as both speak of a unit that has nothing left to handle. `LoggingInv` says
what makes it look again: where its plans do not follow the endpoints it knows, it has
still to hear of a change or a departure of a unit of Loki that it sees (`LogsFlow`),
and where the rules of a relation are not published, of one in that relation
(`ReachesLoki`). That the endpoint of another relation may change in between is harmless
for rules, because a relation counts by its own units only; that takes a unit of Loki to
be in one relation (`OthersAssumption`).

`Templates_proofs` proves `RenderedIsSound`: what is made of any well-formed dashboard
is sound. The variables that are removed are those some panel was on and left; a panel
that stays where it is keeps its variable, because it is on one of the library's or on
one of a kind that is never replaced. `Observability_proofs` lifts it to
`DashboardsResolve`: `Spec => []ShownResolve`, for versions up to any bound, by the
invariant that everything stored, published and rendered comes from files some revision
ships (`DashboardsInv`). What a unit of Grafana loads is, for each uid, the dashboard of
the highest version. That there is one needs versions with a bound (`Bounded`), which
any finite number of revisions has: the maximum of a finite set would take an induction
over sets, which is out of reach, while the least distance from a bound is a natural
number.

`Observability_proofs` also proves the other invariants of `Observability`:
`ObservabilityTyped` (`TypeOK`), `DashboardsPublished` (`PublishesDashboards`),
`DashboardsShown` (`ShowsDashboards`, for versions up to any bound), `RevisionPublished`
(`PublishesRevision`), `NamesUnique` (`JobNamesUnique`), `UnitsScraped`
(`ScrapesTheUnits`) and `ErrorsAreReported` (`ErrorsReported`). Where the run has one
change in the metrics relation, the theorems have any number: that the leader publishes
what it runs after a refresh and an election is in `RevisionPublished` alone.

* `CharmInv` is what the three relations share: the leader is there, and each unit runs
  a revision of the charm.
* `BoardsInv` follows a dashboard from the charm to a screen: the leader has published
  what it ships or has an event that does (`Sent`), the leader of Grafana has rendered
  what is published or is to hear of it (`Drawn`), nothing is left of a relation that is
  gone (`Gone`), and each unit of Grafana has loaded what was rendered or is to hear
  from its peer (`Loaded`).
* `MetricsInv` does so for jobs: the leader and each unit have published or have an
  event that does (`LeaderPublishes`, `UnitPublishes`); Prometheus knows who is there or
  is to be told (`MembersFollow`), and what each of its units runs is what it would make
  of what is published, or something it knows of has changed and it is to be told
  (`ToRead`, `InSync`). That an event about a unit that is not known yet is no use is
  why the members have to be a part of the invariant.
* What becomes of jobs are lemmas about pure operators: `ExpandedAre` and
  `ExpandedCovers` say what a job with wildcards is split into, one for each unit, and
  `DedupedAre` that names are told apart by what the jobs are. The assumptions on the
  constants say little. `ConstantsAssumption` of `PolarisCharm` says that the absent
  value is no password, key, database or event and that the two bad states of the secret
  are no passwords. `TruststoreAssumption` and `AbsentAssumption` say that the absent
  value is no password, certificate, setting, chain or keystore, and that keytool's
  default password is no random one. Those of `Console` and `Database` say that the
  absent value is no address, certificate, event, set of settings or set of codes, and
  that no address is both with TLS and without; those of `Observability`, that a unit of
  Loki is in one relation, that Prometheus and Grafana have a unit, and that the absent
  value is no unit, address, rule or databag. `RevisionsAssumption` of `Observability`
  says that the charm ships at least one scrape job (the library has a default), with
  targets, and well-formed dashboards; TLC evaluates it for those of the instance, one
  of which is the charm's own.

Only model-checked: the two liveness properties, `EventuallyServing` and
`SettingsReachPolaris`, as fairness and `ENABLED` are out of the prover's reach. Every
invariant and action property that a run checks is also a theorem, under the assumptions
named here. What the runs add is that the states the theorems speak of are reached, and
that a mistake in the code would be seen: each property has a mutant of a definition in
`PROJECT.json` that breaks it.

## 5. What is not modelled

* An invalid charm configuration, which blocks `reconcile`; priorities and wording of
  the statuses.
* The region, which is in the environment of the service only and not compared, so that
  a changed region takes effect at the next restart made for another reason. The OIDC
  settings of the configuration file are one with its other settings.
* `TLSManager.check_endpoint_verified` and `build_console_certificate_request`: they
  change no state. That the OAuth provider can be reached is a choice of `OAuthStatus`.
* A container that Pebble cannot be reached in while its service goes on.
* The database that is restored from a backup: `NotLockedOut` is false there.
* The TLS, OAuth, S3 and certificate transfer libraries, of which the repository has no
  source; the state of their relations is external to the modules.
* Of the vendored libraries, what this charm does not use: Kafka, OpenSearch, etcd and
  peer relations in `data_interfaces`, promtail and the push consumer in
  `loki_push_api`, the aggregator in `prometheus_scrape` and in `grafana_dashboard`, the
  files of alert rules on disk and the tools that check them; `data_models`.
* `src/core/logging.py`: no state.

## 6. Plan

1. An abstract exposure (port, backend, client as one decision by the certificate and
   the address) that `Console` implements where no mishap happened, and the proof of it.
2. An abstract delivery for the libraries (what is published is what the other side ends
   with), of which `Database`, `Scrape` and `Dashboards` are instances.
3. The validation of the charm configuration, as an input of `PolarisCharm`.
