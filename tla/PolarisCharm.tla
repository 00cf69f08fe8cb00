----------------------------- MODULE PolarisCharm -----------------------------
(***************************************************************************)
(* The core of the Polaris charm: how the units of one application agree   *)
(* on the root credentials, the token broker key and the bootstrap of the  *)
(* metastore, and when each of them (re)starts its Polaris service.        *)
(*                                                                         *)
(* A unit runs one hook at a time.  A hook re-emits the deferred notices,  *)
(* then emits its own event, and each emission runs a handler.  What a     *)
(* hook writes to the peer application databag is buffered and reaches the *)
(* other units only when the hook commits; what it does to the workload    *)
(* container, to the management API and to the database happens at once.   *)
(* A hook that raises loses its buffer, keeps its external effects, and is *)
(* run again with the same event.                                          *)
(*                                                                         *)
(* The configuration file, the symmetric key file and the settings a       *)
(* service was started with are abstracted to [password, key, db].         *)
(***************************************************************************)
EXTENDS Integers, Sequences, FiniteSets

CONSTANTS
  Units,            \* units of the application
  UserPasswords,    \* passwords an operator may put in the system-user secret
  RandomPasswords,  \* outcomes of secrets.token_hex for the admin password
  RandomKeys,       \* outcomes of secrets.token_hex for the token broker key
  Databases,        \* metastore databases the application can be related to
  None,             \* an absent value
  Inaccessible,     \* the secret is missing or not granted to the charm
  Invalid,          \* the secret has no password for the root principal
  Events,           \* the kinds of event this instance delivers
  PeersFromStart,   \* whether the peer relation exists before the first event
  Faults,           \* the kinds of fault this instance exhibits
  MaxFaults,        \* bound: how many faults may happen
  MaxEdits          \* bound: how many changes the operator makes

FaultKinds == {"refused", "lost_reply", "exec_error", "schema_error", "raise",
               "churn", "election", "depose", "promote"}

Kinds == {"update", "secret_changed", "pebble_ready", "database_changed",
          "metastore_broken", "storage_changed", "oauth_changed"}

Passwords == UserPasswords \cup RandomPasswords

ASSUME ConstantsAssumption ==
  /\ Events \subseteq Kinds
  /\ PeersFromStart \in BOOLEAN
  /\ Faults \subseteq FaultKinds
  /\ MaxFaults \in Nat
  /\ MaxEdits \in Nat
  /\ None \notin Passwords \cup RandomKeys \cup Databases \cup Kinds
  /\ {Inaccessible, Invalid} \cap (Passwords \cup {None}) = {}

VARIABLES
  leader,    \* the unit that holds the leadership lease
  peers,     \* whether the peer relation exists
  app,       \* committed peer application databag (and its secret)
  hook,      \* hook[u]: the hook unit u is running
  deferred,  \* deferred[u]: handlers whose notice unit u has deferred
  notices,   \* notices[u]: one-shot events Juju has still to deliver to u
  secret,    \* the system-user option, and what its secret resolves to
  storage,   \* whether the object storage relation has complete data
  rel,       \* the database behind the metastore relation
  joined,    \* joined[u]: the database unit u sees on that relation
  reach,     \* reach[u]: whether Pebble answers in the workload container
  file,      \* file[u]: configuration on the disk of the container
  running,   \* running[u]: configuration the Polaris service was started with
  root,      \* root[d]: root principal password stored in database d
  schema,    \* schema[d]: whether the Polaris schema exists in database d
  faults,    \* faults left
  edits      \* operator changes left

juju     == <<leader, peers, notices>>
operator == <<secret, storage, rel>>
database == <<root, schema>>
workload == <<reach, file, running>>
vars == <<leader, peers, app, hook, deferred, notices, secret, storage, rel,
          joined, reach, file, running, root, schema, faults, edits>>

-------------------------------------------------------------------------------
(* Data *)

\* PeerAppModel
AppData == [password: Passwords \cup {None}, key: RandomKeys \cup {None},
            bootstrapped: BOOLEAN, epoch: Nat]

EmptyApp == [password |-> None, key |-> None, bootstrapped |-> FALSE, epoch |-> 1]

\* application.properties and symmetric.key
Conf == [password: Passwords, key: RandomKeys, db: Databases]

\* PolarisCluster.ready
ClusterReady(a) == a.password # None /\ a.key # None

\* Mutant: the epoch is not incremented.
WithPasswordSilently(a, p) == [a EXCEPT !.password = p]

\* PolarisCluster.set_admin_password followed by increment_epoch
WithPassword(a, p) == [a EXCEPT !.password = p, !.epoch = a.epoch + 1]

\* PolarisCluster.set_shared_key
WithKey(a, k) == [a EXCEPT !.key = k]

\* Mutant: a false value is skipped by the write instead of deleting the field.
WithTruthyBootstrapped(a, b) == [a EXCEPT !.bootstrapped = @ \/ b]

\* PolarisCluster.set_metastore_bootstrapped
WithBootstrapped(a, b) == [a EXCEPT !.bootstrapped = b]

-------------------------------------------------------------------------------
(* Hooks *)

Handlers == {"polaris", "secret", "metastore", "broken", "s3", "certs", "oauth"}

\* The observers of each event, in the order the charm registers them.
HandlersOf(kind) ==
  CASE kind = "update"           -> <<"polaris">>
    [] kind = "secret_changed"   -> <<"secret">>
    [] kind = "pebble_ready"     -> <<"polaris", "s3", "certs">>
    [] kind = "database_changed" -> <<"metastore">>
    [] kind = "metastore_broken" -> <<"broken">>
    [] kind = "storage_changed"  -> <<"s3">>
    [] kind = "oauth_changed"    -> <<"oauth">>

\* The hook record: where it stands, the handlers it has still to run, the
\* handler it is in, the leadership captured when the charm was built, whether
\* leadership was lost since, its view of the databag with its own writes in it,
\* and the locals of the running handler.
NewHook(u, kind) ==
  [pc |-> "run", kind |-> kind, again |-> deferred[u], todo |-> HandlersOf(kind),
   cur |-> None, leader |-> leader = u, deposed |-> FALSE, app |-> app,
   wrote |-> FALSE, defers |-> {}, pending |-> FALSE, restart |-> FALSE,
   schema |-> None]

IdleHook ==
  [pc |-> "idle", kind |-> None, again |-> {}, todo |-> <<>>,
   cur |-> None, leader |-> FALSE, deposed |-> FALSE, app |-> EmptyApp,
   wrote |-> FALSE, defers |-> {}, pending |-> FALSE, restart |-> FALSE,
   schema |-> None]

FailedHook(kind) == [IdleHook EXCEPT !.pc = "error", !.kind = kind]

InHook(u) == hook[u].pc \notin {"idle", "error"}

\* Next handler to run: a deferred notice if one is left, else the event's own.
Ready(u, h) ==
  /\ hook[u].pc = "run"
  /\ IF hook[u].again # {}
     THEN h \in hook[u].again
     ELSE hook[u].todo # <<>> /\ h = Head(hook[u].todo)

Entered(u, h) ==
  IF hook[u].again # {}
  THEN [hook[u] EXCEPT !.cur = h, !.again = @ \ {h}]
  ELSE [hook[u] EXCEPT !.cur = h, !.todo = Tail(@)]

\* The handler returns.
Returned(hk) ==
  [hk EXCEPT !.pc = "run", !.cur = None, !.pending = FALSE, !.restart = FALSE]

\* Mutant: the handler forgets its event before it defers it.
DeferredTooLate(hk) ==
  [Returned(hk) EXCEPT !.defers = hk.defers \cup {Returned(hk).cur}]

\* event.defer(), then return.
Deferred(hk) == Returned([hk EXCEPT !.defers = @ \cup {hk.cur}])

\* The databag as the hook sees it after a write of its own.
Wrote(hk, a) == [hk EXCEPT !.app = a, !.wrote = @ \/ a # hk.app]

\* PolarisManager.update returns to its caller.
Updated(hk) ==
  IF hk.pending THEN [hk EXCEPT !.pc = "ensure", !.restart = FALSE]
                ELSE Returned(hk)

\* PolarisManager.update is called, and returns at once unless the credentials,
\* the metastore and the object storage are there.
Updatable(u, hk) == ClusterReady(hk.app) /\ joined[u] # None /\ storage

Called(u, hk) == IF Updatable(u, hk) THEN [hk EXCEPT !.pc = "manage"] ELSE Updated(hk)

\* The end of update: the service restarts, or it has no reason to.
Restarting(hk) == IF hk.restart THEN [hk EXCEPT !.pc = "restart"] ELSE Updated(hk)

Set(u, hk) == hook' = [hook EXCEPT ![u] = hk]

\* A fault of the given kind may still happen, and is used up.
Fault(kind) == kind \in Faults /\ faults > 0 /\ faults' = faults - 1

-------------------------------------------------------------------------------
(* PolarisEvents *)

\* Mutant: a reset that is not authorised passes for a success.
ResetOutcomesUnchecked(u, current, new) ==
  {[ok |-> TRUE, root |-> IF running[u] # None /\ root[running[u].db] = current
                          THEN [root EXCEPT ![running[u].db] = new] ELSE root,
    cost |-> "none"]}

\* What the management API on u's own service makes of a credential reset: the
\* database it serves accepts it when the current password is the right one; the
\* answer may be an error, before or after the change was made.
ResetOutcomes(u, current, new) ==
  LET authentic == running[u] # None /\ root[running[u].db] = current
      changed   == [root EXCEPT ![running[u].db] = new]
  IN  IF authentic
      THEN {[ok |-> TRUE, root |-> changed, cost |-> "none"],
            [ok |-> FALSE, root |-> root, cost |-> "refused"],
            [ok |-> FALSE, root |-> changed, cost |-> "lost_reply"]}
      ELSE {[ok |-> FALSE, root |-> root, cost |-> "none"]}

\* secret value, if the system-user option is set and its secret is good
SystemUserPassword == IF secret \in UserPasswords THEN secret ELSE None

\* Mutant: without a configured password a new one is generated every time.
WantedPasswordsAnew(a) ==
  IF SystemUserPassword # None THEN {SystemUserPassword} ELSE RandomPasswords

\* The password the leader wants in force.
WantedPasswords(a) ==
  IF SystemUserPassword # None THEN {SystemUserPassword}
  ELSE IF a.password # None THEN {a.password} ELSE RandomPasswords

\* Outcomes of _ensure_admin_credentials on the databag a: the result, the
\* databag and the database afterwards, and the fault it took.
CredentialOutcomes(u, a) ==
  LET outcome(r, b, o) == [result |-> r, app |-> b, root |-> o.root, cost |-> o.cost]
      still == [root |-> root, cost |-> "none"]
  IN  IF leader # u THEN {outcome("APPLIED", a, still)}
      ELSE IF secret \in {Inaccessible, Invalid} THEN {outcome("FAILED", a, still)}
      ELSE UNION {
        IF a.password = p THEN {outcome("APPLIED", a, still)}
        ELSE IF a.password = None THEN {outcome("APPLIED", WithPassword(a, p), still)}
        ELSE IF ~a.bootstrapped THEN {outcome("PENDING", a, still)}
        ELSE {IF o.ok THEN outcome("APPLIED", WithPassword(a, p), o)
                      ELSE outcome("FAILED", a, o) : o \in ResetOutcomes(u, a.password, p)}
        : p \in WantedPasswords(a)}

Paid(cost) == IF cost = "none" THEN UNCHANGED faults ELSE Fault(cost)

Took(o) == root' = o.root /\ Paid(o.cost)

\* Mutant: a key is generated on every reconciliation.
KeyOutcomesAnew(u, a) == IF leader # u THEN {a} ELSE {WithKey(a, k) : k \in RandomKeys}

\* _ensure_token_broker_key
KeyOutcomes(u, a) ==
  IF leader # u \/ a.key # None THEN {a} ELSE {WithKey(a, k) : k \in RandomKeys}

\* PolarisEvents.reconcile up to the call of PolarisManager.update
Reconcile(u, hk) ==
  IF ~peers \/ ~reach[u]
  THEN Set(u, Deferred(hk)) /\ UNCHANGED <<root, faults>>
  ELSE \E o \in CredentialOutcomes(u, hk.app) :
         /\ Took(o)
         /\ IF o.result = "FAILED"
            THEN Set(u, Returned(hk))
            ELSE \E a \in KeyOutcomes(u, o.app) :
                   Set(u, Called(u, [Wrote(hk, a) EXCEPT !.pending = o.result = "PENDING"]))

\* _on_update, _on_leader_elected
PolarisReconcile(u) ==
  /\ Ready(u, "polaris")
  /\ Reconcile(u, Entered(u, "polaris"))
  /\ UNCHANGED <<juju, app, deferred, operator, joined, workload, schema, edits>>

\* _on_secret_changed
SecretChanged(u) ==
  /\ Ready(u, "secret")
  /\ LET hk == Entered(u, "secret") IN
     IF leader # u \/ secret \in {None, Invalid}
     THEN Set(u, Returned(hk)) /\ UNCHANGED <<root, faults>>
     ELSE IF secret = Inaccessible
     THEN Set(u, FailedHook(hk.kind)) /\ UNCHANGED <<root, faults>>
     ELSE Reconcile(u, hk)
  /\ UNCHANGED <<juju, app, deferred, operator, joined, workload, schema, edits>>

\* The end of PolarisEvents.reconcile, after an update with a password pending
EnsureAgain(u) ==
  /\ hook[u].pc = "ensure"
  /\ \E o \in CredentialOutcomes(u, hook[u].app) :
       /\ Took(o)
       /\ Set(u, IF o.result = "PENDING"
                 THEN Deferred(hook[u])
                 ELSE Returned(Wrote(hook[u], o.app)))
  /\ UNCHANGED <<juju, app, deferred, operator, joined, workload, schema, edits>>

-------------------------------------------------------------------------------
(* MetastoreEvents, S3Events, CertificatesTransferEvents, OAuthEvents *)

\* MetastoreManager.ensure_schema on the database u sees: its results, cached
\* for the rest of the hook.
SchemaOutcomes(u, hk) ==
  IF hk.schema # None THEN {[ok |-> hk.schema, schema |-> schema, cost |-> "none"]}
  ELSE {[ok |-> TRUE, schema |-> [schema EXCEPT ![joined[u]] = TRUE], cost |-> "none"],
        [ok |-> FALSE, schema |-> schema, cost |-> "schema_error"]}

\* MetastoreEvents.reconcile
MetastoreReconcile(u) ==
  /\ Ready(u, "metastore")
  /\ LET hk == Entered(u, "metastore") IN
     \/ /\ ~peers \/ ~reach[u]
        /\ Set(u, Deferred(hk))
        /\ UNCHANGED <<schema, faults>>
     \/ /\ peers /\ reach[u] /\ joined[u] = None
        /\ Set(u, Returned(hk))
        /\ UNCHANGED <<schema, faults>>
     \/ /\ peers /\ reach[u] /\ joined[u] # None
        /\ \E o \in SchemaOutcomes(u, hk) :
             /\ Paid(o.cost)
             /\ schema' = o.schema
             /\ LET known == [hk EXCEPT !.schema = o.ok]
                IN Set(u, IF o.ok THEN Called(u, known) ELSE Returned(known))
  /\ UNCHANGED <<juju, app, deferred, operator, joined, workload, root, edits>>

\* Mutant: the service is left running.
MetastoreBrokenNoStop(u) ==
  /\ Ready(u, "broken")
  /\ LET hk == Entered(u, "broken")
     IN Set(u, Returned(IF leader = u /\ peers
                        THEN Wrote(hk, WithBootstrapped(hk.app, FALSE)) ELSE hk))
  /\ UNCHANGED <<juju, app, deferred, operator, joined, workload, database, faults, edits>>

\* MetastoreEvents._on_relation_broken
MetastoreBroken(u) ==
  /\ Ready(u, "broken")
  /\ LET hk == Entered(u, "broken")
     IN Set(u, Returned(IF leader = u /\ peers
                        THEN Wrote(hk, WithBootstrapped(hk.app, FALSE)) ELSE hk))
  /\ running' = IF reach[u] THEN [running EXCEPT ![u] = None] ELSE running
  /\ UNCHANGED <<juju, app, deferred, operator, joined, reach, file, database,
                 faults, edits>>

\* The handlers that check the peers and the workload, then call
\* PolarisManager.update, with force_restart when certificates were imported.
ReconcileWorkload(u, h, proceeds, force) ==
  /\ Ready(u, h)
  /\ LET hk == Entered(u, h)
     IN Set(u, IF ~peers \/ ~reach[u] THEN Deferred(hk)
               ELSE IF proceeds THEN Called(u, [hk EXCEPT !.restart = force])
               ELSE Returned(hk))
  /\ UNCHANGED <<juju, app, deferred, operator, joined, workload, database,
                 faults, edits>>

S3Reconcile(u)           == \E force \in BOOLEAN : ReconcileWorkload(u, "s3", storage, force)
CertificatesReconcile(u) == \E force \in BOOLEAN : ReconcileWorkload(u, "certs", TRUE, force)
OAuthReconcile(u)        == ReconcileWorkload(u, "oauth", TRUE, FALSE)

-------------------------------------------------------------------------------
(* PolarisManager.update *)

\* Mutant: only forced restarts are made.
NeedsRestartForced(u, hk, conf) == hk.restart

\* Mutant: a service that is down is not restarted.
NeedsRestartOnChange(u, hk, conf) == hk.restart \/ file[u] # conf

\* should_restart
NeedsRestart(u, hk, conf) == hk.restart \/ file[u] # conf \/ running[u] = None

\* Write the configuration, then bootstrap (leader), restart, or stop there.
UpdateConfig(u) ==
  /\ hook[u].pc = "manage"
  /\ reach[u]
  /\ LET hk   == hook[u]
         conf == [password |-> hk.app.password, key |-> hk.app.key, db |-> joined[u]]
         next == [hk EXCEPT !.restart = NeedsRestart(u, hk, conf)]
     IN /\ file' = [file EXCEPT ![u] = conf]
        /\ Set(u, IF hk.leader THEN [next EXCEPT !.pc = "bootstrap"]
                  ELSE IF hk.app.bootstrapped THEN Restarting(next)
                  ELSE Updated(hk))
  /\ UNCHANGED <<juju, app, deferred, operator, joined, reach, running, database,
                 faults, edits>>

\* The root principal is created the first time only.
Bootstrapped(d, p) == IF root[d] = None THEN [root EXCEPT ![d] = p] ELSE root

\* The bootstrap command succeeds; recording it takes leadership still.
Bootstrap(u) ==
  /\ hook[u].pc = "bootstrap"
  /\ reach[u] /\ schema[joined[u]]
  /\ LET hk == hook[u] IN
     /\ root' = Bootstrapped(joined[u], hk.app.password)
     /\ Set(u, IF leader # u THEN FailedHook(hk.kind)
               ELSE Restarting([Wrote(hk, WithBootstrapped(hk.app, TRUE)) EXCEPT
                                  !.restart = @ \/ ~hk.app.bootstrapped]))
  /\ UNCHANGED <<juju, app, deferred, operator, joined, workload, schema, faults, edits>>

\* Mutant: the service is restarted although bootstrap failed.
BootstrapFailsUnnoticed(u) ==
  /\ hook[u].pc = "bootstrap"
  /\ reach[u]
  /\ ~schema[joined[u]]
  /\ Set(u, Restarting(hook[u]))
  /\ UNCHANGED <<juju, app, deferred, operator, joined, workload, database, faults, edits>>

\* It fails: there is no schema, or a fault, before or after its effect.
BootstrapFails(u) ==
  /\ hook[u].pc = "bootstrap"
  /\ reach[u]
  /\ \/ ~schema[joined[u]] /\ UNCHANGED <<root, faults>>
     \/ /\ schema[joined[u]]
        /\ Fault("exec_error")
        /\ root' \in {root, Bootstrapped(joined[u], hook[u].app.password)}
  /\ Set(u, Updated(hook[u]))
  /\ UNCHANGED <<juju, app, deferred, operator, joined, workload, schema, edits>>

\* PolarisWorkload.restart
Restart(u) ==
  /\ hook[u].pc = "restart"
  /\ reach[u]
  /\ running' = [running EXCEPT ![u] = file[u]]
  /\ Set(u, Updated(hook[u]))
  /\ UNCHANGED <<juju, app, deferred, operator, joined, reach, file, database,
                 faults, edits>>

\* The service is stopped and does not start: an uncaught ChangeError.
RestartRaises(u) ==
  /\ hook[u].pc = "restart"
  /\ reach[u]
  /\ Fault("raise")
  /\ running' = [running EXCEPT ![u] = None]
  /\ Set(u, FailedHook(hook[u].kind))
  /\ UNCHANGED <<juju, app, deferred, operator, joined, reach, file, database, edits>>

\* The container went away under the handler: an uncaught ConnectionError.
PebbleLost(u) ==
  /\ ~reach[u]
  /\ hook[u].pc \in {"manage", "bootstrap", "restart"}
  /\ Set(u, FailedHook(hook[u].kind))
  /\ UNCHANGED <<juju, app, deferred, operator, joined, workload, database,
                 faults, edits>>

-------------------------------------------------------------------------------
(* Juju: dispatch, commit and failure of a hook *)

\* The one-shot events come when Juju has them to deliver, the others may come
\* at any time: update stands for every event observed by _on_update.
Deliverable(u, kind) ==
  /\ kind \in Events
  /\ kind \in {"pebble_ready", "metastore_broken"} => kind \in notices[u]
  /\ kind = "database_changed" => joined[u] # None

\* A relation is no longer visible in its own relation-broken hook.
Dispatch(u, kind) ==
  /\ hook[u].pc = "idle"
  /\ Deliverable(u, kind)
  /\ Set(u, NewHook(u, kind))
  /\ notices' = [notices EXCEPT ![u] = @ \ {kind}]
  /\ joined' = IF kind = "metastore_broken" THEN [joined EXCEPT ![u] = None] ELSE joined
  /\ UNCHANGED <<leader, peers, app, deferred, operator, workload, database,
                 faults, edits>>

\* Every handler has returned: statuses are collected, which tries to create the
\* schema unless the hook already did, and the hook's buffer is flushed.
Done(u) == hook[u].pc = "run" /\ hook[u].again = {} /\ hook[u].todo = <<>>

Collected(u) ==
  IF joined[u] = None THEN UNCHANGED <<schema, faults>>
  ELSE \E o \in SchemaOutcomes(u, hook[u]) : schema' = o.schema /\ Paid(o.cost)

MayFlush(u) == hook[u].wrote => leader = u /\ ~hook[u].deposed

Commit(u) ==
  /\ Done(u) /\ MayFlush(u)
  /\ Collected(u)
  /\ app' = IF hook[u].wrote THEN hook[u].app ELSE app
  /\ deferred' = [deferred EXCEPT ![u] = hook[u].defers]
  /\ Set(u, IdleHook)
  /\ UNCHANGED <<juju, operator, joined, workload, root, edits>>

\* Juju refuses the write of a unit that lost the lease.
CommitRefused(u) ==
  /\ Done(u) /\ ~MayFlush(u)
  /\ Collected(u)
  /\ Set(u, FailedHook(hook[u].kind))
  /\ UNCHANGED <<juju, app, deferred, operator, joined, workload, root, edits>>

\* Any uncaught exception of the hook.
Abort(u) ==
  /\ InHook(u)
  /\ Fault("raise")
  /\ Set(u, FailedHook(hook[u].kind))
  /\ UNCHANGED <<juju, app, deferred, operator, joined, workload, database, edits>>

\* Juju runs a failed hook again.
Retry(u) ==
  /\ hook[u].pc = "error"
  /\ Set(u, NewHook(u, hook[u].kind))
  /\ UNCHANGED <<juju, app, deferred, operator, joined, workload, database, faults, edits>>

-------------------------------------------------------------------------------
(* Juju, Kubernetes and the operator *)

\* The lease passes to v: between hooks, under a hook of the unit that loses it,
\* or under a hook of the unit that gets it.
Elect(v) ==
  /\ v # leader
  /\ Fault(IF InHook(v) THEN "promote" ELSE IF InHook(leader) THEN "depose" ELSE "election")
  /\ leader' = v
  /\ hook' = [hook EXCEPT ![leader].deposed = InHook(leader)]
  /\ UNCHANGED <<peers, app, deferred, notices, operator, joined, workload, database, edits>>

CreatePeers ==
  /\ ~peers
  /\ peers' = TRUE
  /\ UNCHANGED <<leader, app, hook, deferred, notices, operator, joined, workload,
                 database, faults, edits>>

\* The workload container restarts with an empty disk.
ContainerRestart(u) ==
  /\ reach[u]
  /\ Fault("churn")
  /\ reach' = [reach EXCEPT ![u] = FALSE]
  /\ file' = [file EXCEPT ![u] = None]
  /\ running' = [running EXCEPT ![u] = None]
  /\ UNCHANGED <<juju, app, hook, deferred, operator, joined, database, edits>>

PebbleUp(u) ==
  /\ ~reach[u] /\ ~InHook(u)
  /\ reach' = [reach EXCEPT ![u] = TRUE]
  /\ notices' = [notices EXCEPT ![u] = @ \cup {"pebble_ready"}]
  /\ UNCHANGED <<leader, peers, app, hook, deferred, operator, joined, file, running,
                 database, faults, edits>>

\* The provider's data reaches u.
MetastoreJoined(u) ==
  /\ hook[u].pc = "idle"
  /\ rel # None /\ joined[u] = None
  /\ joined' = [joined EXCEPT ![u] = rel]
  /\ UNCHANGED <<juju, app, hook, deferred, operator, workload, database, faults, edits>>

Edit == edits > 0 /\ edits' = edits - 1

Secrets == UserPasswords \cup {None, Inaccessible, Invalid}

SetSystemUser ==
  /\ Edit
  /\ secret' \in Secrets \ {secret}
  /\ UNCHANGED <<juju, app, hook, deferred, storage, rel, joined, workload, database, faults>>

ToggleStorage ==
  /\ Edit
  /\ storage' = ~storage
  /\ UNCHANGED <<juju, app, hook, deferred, secret, rel, joined, workload, database, faults>>

\* A relation is gone once every unit has run its relation-broken hook.
Detached(u) ==
  /\ joined[u] = None
  /\ "metastore_broken" \notin notices[u]
  /\ hook[u].kind # "metastore_broken"

RelateMetastore ==
  /\ Edit
  /\ rel = None /\ \A u \in Units : Detached(u)
  /\ rel' \in Databases
  /\ UNCHANGED <<juju, app, hook, deferred, secret, storage, joined, workload, database,
                 faults>>

RemoveMetastore ==
  /\ Edit
  /\ rel # None
  /\ rel' = None
  /\ notices' = [u \in Units |-> notices[u] \cup {"metastore_broken"}]
  /\ UNCHANGED <<leader, peers, app, hook, deferred, secret, storage, joined, workload,
                 database, faults>>

-------------------------------------------------------------------------------

Init ==
  /\ leader \in Units
  /\ peers = PeersFromStart
  /\ app = EmptyApp
  /\ hook = [u \in Units |-> IdleHook]
  /\ deferred = [u \in Units |-> {}]
  /\ notices = [u \in Units |-> {}]
  /\ secret \in UserPasswords \cup {None}
  /\ storage \in BOOLEAN
  /\ rel \in Databases \cup {None}
  /\ joined = [u \in Units |-> None]
  /\ reach = [u \in Units |-> FALSE]
  /\ file = [u \in Units |-> None]
  /\ running = [u \in Units |-> None]
  /\ root = [d \in Databases |-> None]
  /\ schema = [d \in Databases |-> FALSE]
  /\ faults = MaxFaults
  /\ edits = MaxEdits

Handle(u) ==
  \/ PolarisReconcile(u) \/ SecretChanged(u) \/ EnsureAgain(u)
  \/ MetastoreReconcile(u) \/ MetastoreBroken(u)
  \/ S3Reconcile(u) \/ CertificatesReconcile(u) \/ OAuthReconcile(u)

Update(u) ==
  \/ UpdateConfig(u) \/ Bootstrap(u) \/ BootstrapFails(u)
  \/ Restart(u) \/ RestartRaises(u) \/ PebbleLost(u)

\* A step the unit's agent takes by itself.
HookStep(u) == Handle(u) \/ Update(u) \/ Commit(u) \/ CommitRefused(u) \/ Retry(u)

Environment ==
  \/ \E v \in Units : Elect(v) \/ ContainerRestart(v) \/ PebbleUp(v) \/ MetastoreJoined(v)
  \/ CreatePeers \/ SetSystemUser \/ ToggleStorage \/ RelateMetastore \/ RemoveMetastore

Next ==
  \/ \E u \in Units : HookStep(u) \/ Abort(u) \/ \E kind \in Kinds : Dispatch(u, kind)
  \/ Environment

Spec == Init /\ [][Next]_vars

\* What Juju has to deliver to u, each thing once.
Deliver(u) == MetastoreJoined(u) \/ \E kind \in notices[u] : Dispatch(u, kind)

\* Hooks run to their end, update-status is periodic, Juju delivers what it has to
\* and Kubernetes brings the container back.
Fairness ==
  /\ WF_vars(CreatePeers)
  /\ \A u \in Units :
       /\ WF_vars(HookStep(u))
       /\ WF_vars(PebbleUp(u))
       /\ SF_vars(Deliver(u))
       /\ SF_vars(Dispatch(u, "update"))

FairSpec == Spec /\ Fairness

-------------------------------------------------------------------------------
(* Properties *)

HookType ==
  [pc: {"idle", "error", "run", "manage", "bootstrap", "restart", "ensure"},
   kind: Kinds \cup {None}, again: SUBSET Handlers, todo: Seq(Handlers),
   cur: Handlers \cup {None}, leader: BOOLEAN, deposed: BOOLEAN, app: AppData,
   wrote: BOOLEAN, defers: SUBSET Handlers, pending: BOOLEAN, restart: BOOLEAN,
   schema: BOOLEAN \cup {None}]

TypeOK ==
  /\ leader \in Units
  /\ peers \in BOOLEAN
  /\ app \in AppData
  /\ hook \in [Units -> HookType]
  /\ deferred \in [Units -> SUBSET Handlers]
  /\ notices \in [Units -> SUBSET Kinds]
  /\ secret \in Secrets
  /\ storage \in BOOLEAN
  /\ rel \in Databases \cup {None}
  /\ joined \in [Units -> Databases \cup {None}]
  /\ reach \in [Units -> BOOLEAN]
  /\ file \in [Units -> Conf \cup {None}]
  /\ running \in [Units -> Conf \cup {None}]
  /\ root \in [Databases -> Passwords \cup {None}]
  /\ schema \in [Databases -> BOOLEAN]
  /\ faults \in 0..MaxFaults
  /\ edits \in 0..MaxEdits

\* Once the token broker key is committed no hook ever replaces it: tokens
\* signed with it stay valid (_ensure_token_broker_key).
KeyIsWriteOnce == [][app.key # None => app'.key = app.key]_vars

\* A committed change of the admin password always comes with a larger epoch,
\* the one field of the databag whose change tells the other units that the
\* secret beside it changed (_ensure_admin_credentials, increment_epoch).
EpochAnnouncesPassword ==
  [][app'.password # app.password => app'.epoch > app.epoch]_vars

Ledger == INSTANCE Credentials
  WITH key <- app.key, password <- app.password, epoch <- app.epoch

\* Whatever the units do, what is committed and what the databases hold develops
\* as Credentials says: generated passwords only come first, later ones are the
\* operator's, in the databag as in the databases (_ensure_admin_credentials,
\* PolarisManager.reset_root_principal_credentials, bootstrap_metastore).
ImplementsCredentials == Ledger!Spec

\* A password in force is replaced only by one an operator asked for, never by a
\* generated one, also after the system-user option is reset
\* (_ensure_admin_credentials).
OnlyOperatorReplacesPassword ==
  [][app.password # None => app'.password \in UserPasswords \cup {app.password}]_vars

Settled == \A u \in Units : ~InHook(u)

\* Between hooks the related database has the committed password, or no root
\* principal yet: the charm can still manage it.
NotLockedOut == Settled /\ rel # None => root[rel] \in {None, app.password}

\* A service only ever runs on a database that was bootstrapped.
ServingImpliesBootstrapped ==
  \A u \in Units : running[u] # None => root[running[u].db] # None

\* All services sign and accept tokens with the same key, between hooks.
TokensAgree ==
  Settled => \A u, v \in Units :
    running[u] # None /\ running[v] # None => running[u].key = running[v].key

\* Between hooks a service runs with what is in its configuration file, unless the
\* removal of the metastore, which stops it, has still to be handled.
RunningMatchesFile ==
  \A u \in Units :
    ~InHook(u) /\ running[u] # None /\ "metastore_broken" \notin notices[u] \cup {hook[u].kind}
      => running[u] = file[u]

\* Between hooks a service runs on the database its unit is related to, unless
\* the removal of that relation has still to be handled.
RunsOnRelatedDatabase ==
  \A u \in Units :
    hook[u].pc = "idle" /\ running[u] # None /\ "metastore_broken" \notin notices[u]
      => running[u].db = joined[u]

\* Once no unit has the relation any more, the flag is down.
BrokenClearsBootstrap ==
  (rel = None /\ \A u \in Units : Detached(u)) /\ Settled => ~app.bootstrapped

Provisioned ==
  /\ peers /\ storage /\ rel # None
  /\ secret \notin {Inaccessible, Invalid}
  /\ \A u \in Units : reach[u] /\ joined[u] = rel

Serving ==
  /\ \A u \in Units : running[u] # None /\ running[u].db = rel
  /\ secret # None => app.password = secret /\ root[rel] = secret

\* A deployment that has all it needs ends up serving, with the password the
\* operator asked for.
EventuallyServing == <>[]Provisioned => <>[]Serving

\* The password the charm generates is the admin user's (config.yaml, system-user): a
\* deployment that has all it needs ends up with a committed password that is the one of
\* the root principal.
AdminHasCommittedPassword ==
  <>[]Provisioned
    => <>[](rel # None /\ app.password # None /\ root[rel] = app.password)

===============================================================================
