------------------------------ MODULE Truststore ------------------------------
(***************************************************************************)
(* The truststore of one unit: how the CA certificates that the object     *)
(* storage and receive-ca-cert relations offer get into the keystore file  *)
(* of the Polaris container, and from there into the running service.      *)
(*                                                                         *)
(* Each keytool call and each file write is a step of its own, after which *)
(* the hook may fail.  The keystore and the files live on the disk of the  *)
(* container; the password of the keystore lives in the unit databag, and  *)
(* what a hook writes there is lost when the hook fails.                   *)
(*                                                                         *)
(* The peer relation, the credentials and the metastore are taken to be    *)
(* there: PolarisCharm has what happens without them.  The settings of     *)
(* the object storage that reach the configuration file are one value.     *)
(***************************************************************************)
EXTENDS Integers, Sequences, FiniteSets, Functions

CONSTANTS
  Certs,            \* CA certificates
  RandomPasswords,  \* outcomes of TLSManager.generate_password
  DefaultPassword,  \* password of the JVM truststore the keystore is copied from
  Settings,         \* object storage settings
  None,             \* an absent value
  Edits,            \* the kinds of change this instance makes to the relations
  Faults,           \* the kinds of fault this instance exhibits
  MaxChain,         \* bound: certificates in a chain
  MaxEdits,         \* bound: how many changes are made
  MaxFaults         \* bound: how many faults may happen

EditKinds  == {"ca", "object_storage_ca", "settings", "storage"}
FaultKinds == {"import_error", "late_import_error", "raise", "churn"}

ASSUME TruststoreAssumption ==
  /\ Edits \subseteq EditKinds /\ Faults \subseteq FaultKinds
  /\ MaxChain \in Nat /\ MaxEdits \in Nat /\ MaxFaults \in Nat
  /\ None \notin RandomPasswords \cup Settings \cup Certs
  /\ DefaultPassword \notin RandomPasswords \cup {None}

VARIABLES
  offered,   \* offered[p]: chain the relation behind alias prefix p offers
  storage,   \* settings of the object storage, None without the relation
  password,  \* committed truststore password (unit databag)
  hook,      \* the hook the unit is running
  notices,   \* events still to be delivered
  deferred,  \* deferred handlers
  reach,     \* whether Pebble answers in the container
  store,     \* the keystore file
  chain,     \* chain[p]: the chain file of prefix p
  file,      \* the configuration file
  running,   \* what the service was started with, and trusts
  edits,     \* the relation changes there were
  faults     \* the kinds of fault there were

relations == <<offered, storage>>
disk      == <<store, chain, file>>
vars == <<offered, storage, password, hook, notices, deferred, reach, store, chain,
          file, running, edits, faults>>

-------------------------------------------------------------------------------
(* Data *)

\* Alias prefixes: object-storage-ca and additional-ca
Prefixes == {"object-storage-ca", "additional-ca"}

Chains == UNION {[1..n -> Certs] : n \in 0..MaxChain}

\* The aliases of one prefix: a certificate for each index in use
Aliases == UNION {[S -> Certs] : S \in SUBSET (1..MaxChain)}

Keystores ==
  [password: RandomPasswords \cup {DefaultPassword}, aliases: [Prefixes -> Aliases]]

ASSUME AbsentAssumption == None \notin Chains \cup Keystores

NoAliases == [p \in Prefixes |-> <<>>]
NoFiles   == [p \in Prefixes |-> None]

Trusted == IF store = None THEN NoAliases ELSE store.aliases

Without(aliases, i) == [j \in DOMAIN aliases \ {i} |-> aliases[j]]

-------------------------------------------------------------------------------
(* Hooks *)

Events == {"update", "pebble_ready", "s3_changed", "s3_gone", "certificates"}

Handlers == {"polaris", "s3", "gone", "certs"}

HandlersOf(event) ==
  CASE event = "update"       -> <<"polaris">>
    [] event = "pebble_ready" -> <<"polaris", "s3", "certs">>
    [] event = "s3_changed"   -> <<"s3">>
    [] event = "s3_gone"      -> <<"gone">>
    [] event = "certificates" -> <<"certs">>

IdleHook ==
  [pc |-> "idle", event |-> None, again |-> {}, todo |-> <<>>, cur |-> None,
   defers |-> {}, password |-> None, prefix |-> None, certs |-> <<>>, stage |-> None,
   force |-> FALSE]

NewHook(event) ==
  [IdleHook EXCEPT !.pc = "run", !.event = event, !.again = deferred,
                   !.todo = HandlersOf(event), !.password = password]

FailedHook(event) == [IdleHook EXCEPT !.pc = "error", !.event = event]

InHook == hook.pc \notin {"idle", "error"}

\* Each kind of fault happens once at most.
Fault(kind) ==
  kind \in Faults \ faults /\ Cardinality(faults) < MaxFaults /\ faults' = faults \cup {kind}

Returned(hk) ==
  [hk EXCEPT !.pc = "run", !.cur = None, !.prefix = None, !.certs = <<>>,
             !.stage = None, !.force = FALSE]

Deferred(hk) == Returned([hk EXCEPT !.defers = @ \cup {hk.cur}])

\* ensure_certificates_imported is called.
Importing(hk, p, certs, stage) ==
  [hk EXCEPT !.pc = "password", !.prefix = p, !.certs = certs, !.stage = stage]

\* S3Events.reconcile up to ensure_certificates_imported
S3Entry(hk) ==
  IF ~reach THEN Deferred(hk)
  ELSE IF storage = None THEN Returned(hk)
  ELSE Importing(hk, "object-storage-ca", offered["object-storage-ca"], "import")

\* Mutant: the result of the import is not passed on.
ImportedUnforced(hk, changed) ==
  IF hk.stage = "withdraw" THEN S3Entry([hk EXCEPT !.force = FALSE])
  ELSE [hk EXCEPT !.pc = "update", !.force = FALSE]

\* ensure_certificates_imported returns: _on_s3_credential_gone drops the result
\* and reconciles, the other callers hand it to PolarisManager.update.
Imported(hk, changed) ==
  IF hk.stage = "withdraw" THEN S3Entry([hk EXCEPT !.force = FALSE])
  ELSE [hk EXCEPT !.pc = "update", !.force = changed]

\* Enter the next handler: a deferred one if any, else the event's own.
Begin ==
  /\ hook.pc = "run"
  /\ \E h \in IF hook.again # {} THEN hook.again
              ELSE IF hook.todo # <<>> THEN {Head(hook.todo)} ELSE {} :
       LET hk == IF hook.again # {}
                 THEN [hook EXCEPT !.cur = h, !.again = @ \ {h}]
                 ELSE [hook EXCEPT !.cur = h, !.todo = Tail(@)]
       IN hook' = CASE h = "s3" -> S3Entry(hk)
                    [] h = "gone" -> Importing(hk, "object-storage-ca", <<>>, "withdraw")
                    [] h = "certs" ->
                         IF reach THEN Importing(hk, "additional-ca",
                                                 offered["additional-ca"], "import")
                                  ELSE Deferred(hk)
                    [] h = "polaris" -> IF reach THEN [hk EXCEPT !.pc = "update"]
                                                 ELSE Deferred(hk)
  /\ UNCHANGED <<relations, password, notices, deferred, reach, disk, running, edits,
                 faults>>

-------------------------------------------------------------------------------
(* TLSManager.ensure_certificates_imported *)

\* truststore_password, and the copy of the JVM truststore if there is no keystore
CreateStore ==
  /\ hook.pc = "password" /\ reach
  /\ \E p \in IF hook.password = None THEN RandomPasswords ELSE {hook.password} :
       hook' = [hook EXCEPT !.password = p,
                            !.pc = IF store = None THEN "storepasswd" ELSE "open"]
  /\ store' = IF store = None THEN [password |-> DefaultPassword, aliases |-> NoAliases]
              ELSE store
  /\ UNCHANGED <<relations, password, notices, deferred, reach, chain, file, running,
                 edits, faults>>

\* Mutant: the copy keeps the password of the JVM truststore.
SetStorePasswordNot ==
  /\ hook.pc = "storepasswd" /\ reach
  /\ hook' = [hook EXCEPT !.pc = "open"]
  /\ UNCHANGED <<relations, password, notices, deferred, reach, disk, running, edits, faults>>

\* keytool -storepasswd
SetStorePassword ==
  /\ hook.pc = "storepasswd" /\ reach
  /\ store' = [store EXCEPT !.password = hook.password]
  /\ hook' = [hook EXCEPT !.pc = "open"]
  /\ UNCHANGED <<relations, password, notices, deferred, reach, chain, file, running,
                 edits, faults>>

CurrentAliases == store.aliases[hook.prefix]

\* Mutant: a chain file that changed does not count.
UpToDateByAliases(changed) == DOMAIN CurrentAliases = 1..Len(hook.certs)

\* Mutant: the aliases in the keystore are not looked at.
UpToDateByFile(changed) == ~changed

\* not content_changed and current_aliases == expected_aliases
UpToDate(changed) == ~changed /\ DOMAIN CurrentAliases = 1..Len(hook.certs)

\* List the aliases, then write the chain file and see what has to be done.
OpenStore ==
  /\ hook.pc = "open" /\ reach
  /\ store.password = hook.password
  /\ LET p == hook.prefix
         changed == chain[p] # hook.certs
     IN IF hook.certs = <<>>
        THEN hook' = [hook EXCEPT !.pc = "clear"] /\ UNCHANGED chain
        ELSE /\ chain' = [chain EXCEPT ![p] = hook.certs]
             /\ hook' = IF UpToDate(changed) THEN Imported(hook, FALSE)
                        ELSE [hook EXCEPT !.pc = "delete"]
  /\ UNCHANGED <<relations, password, notices, deferred, reach, store, file, running,
                 edits, faults>>

\* keytool fails: the password is not the keystore's.
OpenStoreFails ==
  /\ hook.pc = "open" /\ reach
  /\ store.password # hook.password
  /\ hook' = FailedHook(hook.event)
  /\ UNCHANGED <<relations, password, notices, deferred, reach, disk, running, edits,
                 faults>>

\* keytool -delete of one alias of the prefix
DeleteAlias ==
  /\ hook.pc \in {"clear", "delete"} /\ reach
  /\ \E i \in DOMAIN CurrentAliases :
       store' = [store EXCEPT !.aliases[hook.prefix] = Without(@, i)]
  /\ hook' = [hook EXCEPT !.force = TRUE]
  /\ UNCHANGED <<relations, password, notices, deferred, reach, chain, file, running,
                 edits, faults>>

\* No certificates: with the aliases gone, the chain file goes too.
ClearChain ==
  /\ hook.pc = "clear" /\ reach
  /\ DOMAIN CurrentAliases = {}
  /\ chain' = [chain EXCEPT ![hook.prefix] = None]
  /\ hook' = Imported(hook, hook.force \/ chain[hook.prefix] # None)
  /\ UNCHANGED <<relations, password, notices, deferred, reach, store, file, running,
                 edits, faults>>

\* The old aliases are gone: import the chain from its first certificate.
StartImport ==
  /\ hook.pc = "delete" /\ reach
  /\ DOMAIN CurrentAliases = {}
  /\ hook' = [hook EXCEPT !.pc = "import"]
  /\ UNCHANGED <<relations, password, notices, deferred, reach, disk, running, edits,
                 faults>>

NextIndex == Cardinality(DOMAIN CurrentAliases) + 1

\* Mutant: aliases are numbered from one more.
WithAliasShifted(aliases, i, cert) ==
  [j \in DOMAIN aliases \cup {i + 1} |-> IF j = i + 1 THEN cert ELSE aliases[j]]

WithAlias(aliases, i, cert) ==
  [j \in DOMAIN aliases \cup {i} |-> IF j = i THEN cert ELSE aliases[j]]

\* keytool -import of the next certificate
ImportCertificate ==
  /\ hook.pc = "import" /\ reach
  /\ store' = [store EXCEPT !.aliases[hook.prefix] =
                              WithAlias(@, NextIndex, hook.certs[NextIndex])]
  /\ hook' = IF NextIndex = Len(hook.certs) THEN Imported(hook, TRUE) ELSE hook
  /\ UNCHANGED <<relations, password, notices, deferred, reach, chain, file, running,
                 edits, faults>>

\* keytool -import fails and the error is raised again.
ImportFails ==
  /\ hook.pc = "import" /\ reach
  /\ \/ Fault("import_error")
     \/ password # None /\ Fault("late_import_error")
  /\ hook' = FailedHook(hook.event)
  /\ UNCHANGED <<relations, password, notices, deferred, reach, disk, running, edits>>

-------------------------------------------------------------------------------
(* PolarisManager.update, when bootstrap succeeds *)

\* The service reads the keystore when it starts, if there is a password for it.
StartedService ==
  [settings |-> storage, trust |-> IF hook.password = None THEN NoAliases ELSE Trusted]

Update ==
  /\ hook.pc = "update"
  /\ IF storage = None THEN UNCHANGED <<file, running>>
     ELSE /\ reach
          /\ file' = storage
          /\ running' = IF hook.force \/ file # storage \/ running = None
                        THEN StartedService ELSE running
  /\ hook' = Returned(hook)
  /\ UNCHANGED <<relations, password, notices, deferred, reach, store, chain, edits,
                 faults>>

-------------------------------------------------------------------------------
(* Juju and Kubernetes *)

Dispatch(event) ==
  /\ hook.pc = "idle"
  /\ event = "update" \/ event \in notices
  /\ hook' = NewHook(event)
  /\ notices' = notices \ {event}
  /\ UNCHANGED <<relations, password, deferred, reach, disk, running, edits, faults>>

Commit ==
  /\ hook.pc = "run" /\ hook.again = {} /\ hook.todo = <<>>
  /\ password' = hook.password
  /\ deferred' = hook.defers
  /\ hook' = IdleHook
  /\ UNCHANGED <<relations, notices, reach, disk, running, edits, faults>>

\* Pebble is gone under a step that needs it.
PebbleLost ==
  /\ ~reach
  /\ \/ hook.pc \in {"password", "storepasswd", "open", "clear", "delete", "import"}
     \/ hook.pc = "update" /\ storage # None
  /\ hook' = FailedHook(hook.event)
  /\ UNCHANGED <<relations, password, notices, deferred, reach, disk, running, edits,
                 faults>>

Abort ==
  /\ InHook
  /\ Fault("raise")
  /\ hook' = FailedHook(hook.event)
  /\ UNCHANGED <<relations, password, notices, deferred, reach, disk, running, edits>>

Retry ==
  /\ hook.pc = "error"
  /\ hook' = NewHook(hook.event)
  /\ UNCHANGED <<relations, password, notices, deferred, reach, disk, running, edits,
                 faults>>

\* The container restarts with an empty disk.
ContainerRestart ==
  /\ reach
  /\ Fault("churn")
  /\ reach' = FALSE
  /\ store' = None /\ chain' = NoFiles /\ file' = None /\ running' = None
  /\ UNCHANGED <<relations, password, hook, notices, deferred, edits>>

PebbleUp ==
  /\ ~reach /\ ~InHook
  /\ reach' = TRUE
  /\ notices' = notices \cup {"pebble_ready"}
  /\ UNCHANGED <<relations, password, hook, deferred, disk, running, edits, faults>>

Edit(kind, event) ==
  /\ kind \in Edits
  /\ Len(edits) < MaxEdits /\ edits' = Append(edits, kind)
  /\ notices' = notices \cup {event}
  /\ UNCHANGED <<password, hook, deferred, reach, disk, running, faults>>

ChangeCertificates ==
  /\ Edit("ca", "certificates")
  /\ \E c \in Chains : offered' = [offered EXCEPT !["additional-ca"] = c]
  /\ UNCHANGED storage

ChangeStorageCertificates ==
  /\ storage # None
  /\ Edit("object_storage_ca", "s3_changed")
  /\ \E c \in Chains : offered' = [offered EXCEPT !["object-storage-ca"] = c]
  /\ UNCHANGED storage

ChangeSettings ==
  /\ storage # None
  /\ Edit("settings", "s3_changed")
  /\ storage' \in Settings
  /\ UNCHANGED offered

RemoveStorage ==
  /\ storage # None
  /\ Edit("storage", "s3_gone")
  /\ storage' = None
  /\ offered' = [offered EXCEPT !["object-storage-ca"] = <<>>]

\* The relation can be made again once the unit has handled its removal.
RelateStorage ==
  /\ storage = None
  /\ "s3_gone" \notin notices /\ hook.event # "s3_gone" /\ "gone" \notin deferred
  /\ Edit("storage", "s3_changed")
  /\ storage' \in Settings
  /\ UNCHANGED offered

-------------------------------------------------------------------------------

Init ==
  /\ offered = NoAliases
  /\ storage \in Settings \cup {None}
  /\ notices = IF storage = None THEN {} ELSE {"s3_changed"}
  /\ password = None
  /\ hook = IdleHook
  /\ deferred = {}
  /\ reach = FALSE
  /\ store = None
  /\ chain = NoFiles
  /\ file = None
  /\ running = None
  /\ edits = <<>>
  /\ faults = {}

EnsureCertificatesImported ==
  \/ CreateStore \/ SetStorePassword \/ OpenStore \/ OpenStoreFails \/ DeleteAlias
  \/ ClearChain \/ StartImport \/ ImportCertificate \/ ImportFails

HookStep == Begin \/ EnsureCertificatesImported \/ Update \/ Commit \/ PebbleLost \/ Retry

Environment ==
  \/ Abort \/ ContainerRestart \/ PebbleUp
  \/ ChangeCertificates \/ ChangeStorageCertificates \/ ChangeSettings
  \/ RemoveStorage \/ RelateStorage

Next == HookStep \/ (\E event \in Events : Dispatch(event)) \/ Environment

Spec == Init /\ [][Next]_vars

-------------------------------------------------------------------------------
(* Properties *)

HookType ==
  [pc: {"idle", "error", "run", "password", "storepasswd", "open", "clear", "delete",
        "import", "update"},
   event: Events \cup {None}, again: SUBSET Handlers, todo: Seq(Handlers),
   cur: Handlers \cup {None}, defers: SUBSET Handlers,
   password: RandomPasswords \cup {None}, prefix: Prefixes \cup {None}, certs: Chains,
   stage: {"withdraw", "import", None}, force: BOOLEAN]

TypeOK ==
  /\ offered \in [Prefixes -> Chains]
  /\ storage \in Settings \cup {None}
  /\ password \in RandomPasswords \cup {None}
  /\ hook \in HookType
  /\ notices \subseteq Events
  /\ deferred \subseteq Handlers
  /\ reach \in BOOLEAN
  /\ store \in Keystores \cup {None}
  /\ chain \in [Prefixes -> Chains \cup {None}]
  /\ file \in Settings \cup {None}
  /\ running = None \/ running \in [settings: Settings, trust: [Prefixes -> Aliases]]
  /\ edits \in Seq(Edits) /\ Len(edits) <= MaxEdits
  /\ faults \subseteq Faults

\* No hook failed in the middle for another reason than an import that keytool refused
\* when the password of the keystore was committed.
NoHookFailed == faults \cap {"raise", "import_error"} = {}

\* Between hooks the password in the databag opens the keystore (truststore_password).
StoreOpens == ~InHook /\ store # None /\ NoHookFailed => store.password = password

\* Nothing is left to handle.
Quiet == hook.pc = "idle" /\ notices = {} /\ deferred = {} /\ reach

\* Then the keystore holds, for each relation, the chain it offers: no certificate
\* of an earlier chain, none missing (ensure_certificates_imported).
StoreFollowsRelations == Quiet /\ store # None /\ NoHookFailed => store.aliases = offered

\* Then also after a hook that failed at any step, and whatever it left behind, the
\* keystore has one alias for each certificate offered: an import that stopped half
\* way is taken up again, and an alias too many is removed.
StoreComplete ==
  Quiet /\ store # None =>
    \A p \in Prefixes : DOMAIN store.aliases[p] = 1..Len(offered[p])

\* Then a running service trusts what is in the keystore: every change of the
\* keystore was followed by a restart.  A restart that is asked for while the object
\* storage is away is dropped (PolarisManager.update), so the relation stays.
RunningTrustsStore ==
  Quiet /\ running # None /\ NoHookFailed /\ "storage" \notin Range(edits)
    => running.trust = Trusted

===============================================================================
