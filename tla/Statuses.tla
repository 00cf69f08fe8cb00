------------------------------- MODULE Statuses -------------------------------
(***************************************************************************)
(* What the units of the charm tell the operator of their state.  At the   *)
(* end of every hook each component lists what it waits for; a unit for    *)
(* which none lists anything is shown as active.                           *)
(*                                                                         *)
(* The statuses are a function of the state the hook sees: they are taken  *)
(* here as the unit would report them between two hooks.                   *)
(***************************************************************************)
EXTENDS PolarisCharm

PolarisStatuses ==
  {"secret_missing_or_denied", "secret_invalid", "pending_password", "waiting_pebble"}

\* PolarisEvents._validate_system_user_secret
SecretStatuses ==
  CASE secret = Inaccessible -> {"secret_missing_or_denied"}
    [] secret = Invalid      -> {"secret_invalid"}
    [] OTHER                 -> {}

\* Mutant: a password counts as pending before the first one only.
PendingPasswordFirst(u) ==
  /\ leader = u
  /\ SystemUserPassword # None
  /\ app.password = None

\* PolarisEvents._has_pending_admin_password_update
PendingPassword(u) ==
  /\ leader = u
  /\ SystemUserPassword # None
  /\ app.password \notin {None, SystemUserPassword}

\* PolarisEvents.get_statuses: the secret is the leader's to report.
PolarisReports(u) ==
  (IF leader # u THEN {}
   ELSE IF SecretStatuses # {} THEN SecretStatuses
   ELSE IF PendingPassword(u) THEN {"pending_password"} ELSE {})
  \cup (IF reach[u] THEN {} ELSE {"waiting_pebble"})

\* MetastoreEvents.get_statuses, without what the provider reports itself
MetastoreReports(u) ==
  IF rel = None /\ joined[u] = None THEN {"metastore_missing"}
  ELSE IF joined[u] = None THEN {"metastore_not_ready", "metastore_no_schema"}
  ELSE IF schema[joined[u]] THEN {} ELSE {"metastore_no_schema"}

\* S3Events.get_statuses: the relation is missing or has not its data.
StorageReports == IF storage THEN {} ELSE {"storage_missing"}

\* PolarisWorkloadStatus.get_statuses
WorkloadReports(u) == IF running[u] = None THEN {"polaris_not_running"} ELSE {}

\* The components, in the order StatusHandler asks them.
Reports(u) ==
  PolarisReports(u) \cup MetastoreReports(u) \cup StorageReports \cup WorkloadReports(u)

\* Between two hooks, u is shown as active.
Active(u) == hook[u].pc = "idle" /\ Reports(u) = {}

-------------------------------------------------------------------------------

\* When every unit reports that it is active and has no removal of the metastore left
\* to handle, all of them serve the related database, and the root principal there has
\* the password the operator asked for: nothing that keeps the deployment from working goes
\* unreported (get_statuses of the components, collected by StatusHandler).
ActiveMeansServing ==
  (\A u \in Units : Active(u) /\ "metastore_broken" \notin notices[u]) => Serving

===============================================================================
