------------------------------ MODULE Database ------------------------------
(***************************************************************************)
(* The relation between Polaris and its database: what each side publishes,*)
(* how the credentials become secrets, how the requirer finds out what     *)
(* changed, and what reaches the workload.                                 *)
(*                                                                         *)
(* The leader of the requirer asks for a database and for secrets when the *)
(* relation is created.  The leader of the provider notices the request by *)
(* comparing it with what it saw last, and publishes fields: those the     *)
(* requirer asked to be secret go into a secret of their group, of which   *)
(* only the URI is published.  Each unit of the requirer compares the      *)
(* published fields with the ones it saved and emits at most one event for *)
(* them, next to the events for statuses.                                  *)
(*                                                                         *)
(* A hook is one step, as in Console.  The other prerequisites of Polaris  *)
(* are taken to be there, and the schema can always be created.            *)
(***************************************************************************)
EXTENDS Naturals, FiniteSets, Functions

CONSTANTS
  Units,      \* units of the requirer
  Servers,    \* units of the provider
  Addresses,  \* endpoints of the database
  Passwords,  \* passwords of the user made for the relation
  Codes,      \* codes of the statuses the provider may raise
  User,       \* name of that user
  None,       \* an absent value
  Edits,      \* what the provider does in this instance
  Faults,     \* the kinds of fault this instance exhibits
  MaxEdits,   \* bound: how many times the provider publishes
  MaxFaults   \* bound: how many faults may happen

ASSUME ConstantsAssumption ==
  /\ Edits \subseteq {"credentials", "endpoints", "replicas", "tls", "status", "subordinate"}
  /\ Faults \subseteq {"raise", "churn", "election", "depose", "failover"}
  /\ MaxEdits \in Nat /\ MaxFaults \in Nat
  /\ None \notin Addresses \cup Passwords \cup {User}
  /\ None \notin [endpoint: Addresses, user: {User}, password: Passwords]
  /\ None \notin {"created", "changed", "secret_changed", "update",
                   "database_created", "endpoints_changed"}
  /\ \A codes \in SUBSET Codes : None # codes

VARIABLES
  leader,    \* the requirer's unit that holds its leadership lease
  primary,   \* the provider's unit that holds its own
  request,   \* fields of the requirer's application databag
  bag,       \* the provider's application databag, but for its "data"
  seen,      \* the provider's "data": the request it saw last
  requested, \* whether the provider emitted database_requested
  secrets,   \* secrets[g]: the last secret made for group g, by its URI, a number
             \* within the group; an empty content is one that was removed
  ready,     \* whether the provider's units say that they are ready
  snapshot,  \* snapshot[u]: "data" in the databag of unit u
  told,      \* history: told[u]: statuses u was told of and not told resolved
  conf,      \* conf[u]: settings of the metastore that Polaris runs with on u
  reach,     \* reach[u]: whether Pebble answers on u
  notices,   \* notices[u]: events Juju has still to deliver to u
  pending,   \* provider's units with a relation-changed to be delivered
  failed,    \* failed[u]: the kind of the hook that failed on u, if one did
  deferred,  \* deferred[u]: whether an update of the workload was deferred on u
  mishaps,   \* history: what happened that delays or loses news
  edits,     \* publications left
  faults     \* faults left

vars == <<leader, primary, request, bag, seen, requested, secrets, ready, snapshot, told,
          conf, reach, notices, pending, failed, deferred, mishaps, edits, faults>>
requirer == <<snapshot, told, conf, reach, failed, deferred>>
provider == <<bag, secrets, ready>>
leases   == <<leader, primary>>

Edit(kind)  == kind \in Edits /\ edits > 0 /\ edits' = edits - 1
Fault(kind) == kind \in Faults /\ faults > 0 /\ faults' = faults - 1

-------------------------------------------------------------------------------
(* Fields of a databag and secrets *)

\* Data.SECRET_LABEL_MAP, of the fields modelled here
GroupOf ==
  [f \in {"username", "password", "tls", "tls-ca"} |->
     IF f \in {"username", "password"} THEN "user" ELSE "tls"]

\* RequirerData.SECRET_FIELDS
SecretFields == DOMAIN GroupOf

\* Data._generate_secret_field_name
SecretField == [user |-> "secret-user", tls |-> "secret-tls"]

Groups == Range(GroupOf)

EmptyBag == [f \in {} |-> None]

\* What is written over what was there.
Over(data, b) ==
  [f \in DOMAIN data \cup DOMAIN b |-> IF f \in DOMAIN data THEN data[f] ELSE b[f]]

\* A databag with one field.
Only(f, v) == [x \in {f} |-> v]

Part(b, fields) == Restrict(b, DOMAIN b \cap fields)

\* CachedSecret.meta, Data._get_relation_secret: the provider finds its secret by
\* label.
Exists(g) == DOMAIN secrets[g].content # {}

\* CachedSecret.get_content
Content(g) == IF Exists(g) THEN secrets[g].content ELSE EmptyBag

\* A field of the databag.
Published(f) == IF f \in DOMAIN bag THEN bag[f] ELSE None

\* Data._fetch_relation_data_with_secrets: a field of the provider, in a secret or not.
Fetched(f) ==
  IF f \in SecretFields /\ f \in DOMAIN Content(GroupOf[f])
  THEN Content(GroupOf[f])[f] ELSE Published(f)

\* Metastore._user_secret_content: what is found under the URI in the databag.
UserSecretContent ==
  IF Published("secret-user") = secrets["user"].uri THEN Content("user") ELSE EmptyBag

\* Metastore reads the secret by its URI, not as the library does.
MetastoreField(f) == IF f \in DOMAIN UserSecretContent THEN UserSecretContent[f] ELSE Published(f)

\* ProviderData._load_secrets_from_databag: what the requirer wants to be secret.
RequestedSecrets == IF "requested-secrets" \in request THEN SecretFields ELSE {}

\* Data._process_secret_fields: a relation that started on the databag stays there.
SecretPart(fields) ==
  IF RequestedSecrets \cap DOMAIN bag # {} THEN {} ELSE fields \cap RequestedSecrets

\* Mutant: the fields are written whether or not a database was asked for.
PrematureNever(data) == FALSE

\* ProviderData._update_relation_data refuses all but the endpoints before there is
\* a request.
Premature(data) ==
  "database" \notin request /\ DOMAIN data \ {"endpoints", "read-only-endpoints"} # {}

\* Data._content_for_secret_group
ForGroup(data, fields, g) == Part(data, {f \in fields : GroupOf[f] = g})

\* CachedSecret.add_secret: a secret under a new URI, granted to the relation.
AddedSecret(data, fields, g) ==
  [uri |-> secrets[g].uri + 1, content |-> ForGroup(data, fields, g)]

\* Data._update_relation_secret: what the secret held and is not given stays.
UpdatedSecret(data, fields, g) ==
  [secrets[g] EXCEPT !.content = Over(ForGroup(data, fields, g), @)]

\* Data._add_or_update_relation_secrets, for the groups that are given fields.
SecretsWith(data, fields) ==
  [g \in Groups |-> IF DOMAIN ForGroup(data, fields, g) = {} THEN secrets[g]
                    ELSE IF Exists(g) THEN UpdatedSecret(data, fields, g)
                    ELSE AddedSecret(data, fields, g)]

\* Data.set_secret_uri: a secret that was added can be found.
Uris(fields) ==
  LET added == {g \in {GroupOf[f] : f \in fields} : ~Exists(g)}
  IN  [f \in {SecretField[g] : g \in added} |-> secrets[AntiFunction(SecretField)[f]].uri + 1]

\* Data._update_relation_data_without_secrets
BagWith(data) == Over(data, bag)

\* Data._update_relation_data: each field goes to the secret of its group or to the
\* databag.
UpdateRelationData(data) ==
  LET secret == SecretPart(DOMAIN data)
  IN  /\ ~Premature(data)
      /\ secrets' = SecretsWith(data, secret)
      /\ bag' = BagWith(Over(Uris(secret), Part(data, DOMAIN data \ secret)))

\* Data._delete_relation_secret: a secret that misses one of the fields to delete,
\* whichever they are, keeps them all.
Loses(g, fields) == Exists(g) /\ fields \subseteq DOMAIN Content(g)

\* Data._delete_relation_data: a secret that holds nothing any more is removed, and
\* what is not taken from a secret is taken from the databag.
DeleteRelationData(fields) ==
  LET losing == {g \in Groups : (\E f \in SecretPart(fields) : GroupOf[f] = g) /\ Loses(g, fields)}
      left(g) == Part(Content(g), SecretFields \ fields)
      gone   == {SecretField[g] : g \in {h \in losing : DOMAIN left(h) = {}}}
      normal == {f \in fields : f \notin SecretPart(fields) \/ GroupOf[f] \notin losing}
  IN  /\ secrets' = [g \in Groups |-> IF g \in losing THEN [secrets[g] EXCEPT !.content = left(g)]
                                      ELSE secrets[g]]
      /\ bag' = Part(bag, DOMAIN bag \ (gone \cup normal))

-------------------------------------------------------------------------------
(* What a unit of the requirer makes of a relation-changed *)

\* diff, between what was saved and what is published
Added(old, new)   == DOMAIN new \ DOMAIN old
Changed(old, new) == {f \in DOMAIN new \cap DOMAIN old : new[f] # old[f]}

\* The codes in a databag, or in what was saved of it.
StatusCodes(b) == IF "status" \in DOMAIN b THEN b.status ELSE {}

\* Data.fetch_relation_field, fetch_my_relation_field: the codes as each side
\* fetches them.
CurrentCodes == IF Fetched("status") = None THEN {} ELSE Fetched("status")

\* Mutant: what was raised is told, and nothing else.
ResolvedNever(old) == {}

\* RequirerEventHandlers._on_relation_changed_event
Raised(old)   == CurrentCodes \ StatusCodes(old)
Resolved(old) == StatusCodes(old) \ CurrentCodes

\* RequirerEventHandlers._main_credentials_shared
MainCredentialsShared(added) == "secret-user" \in added \/ {"username", "password"} \subseteq added

\* Mutant: an address that replaces another goes unnoticed.
EventOfAdded(old, new) ==
  LET added == Added(old, new)
  IN  IF MainCredentialsShared(added) THEN "database_created"
      ELSE IF "endpoints" \in added THEN "endpoints_changed" ELSE None

\* DatabaseRequirerEventHandlers._on_relation_changed_event: one event at most.
EventOf(old, new) ==
  LET touched == Added(old, new) \cup Changed(old, new)
  IN  CASE MainCredentialsShared(Added(old, new)) -> "database_created"
        [] ~MainCredentialsShared(Added(old, new)) /\ "endpoints" \in touched -> "endpoints_changed"
        [] OTHER -> IF "read-only-endpoints" \in touched THEN "read_only_endpoints_changed" ELSE None

\* A subordinate provider is not listened to until its unit is ready.
Withheld == "subordinated" \in DOMAIN bag /\ ~ready

\* The events MetastoreEvents listens to, among those this relation-changed emits.
Heard(u) ==
  \/ Raised(snapshot[u]) # {}
  \/ Resolved(snapshot[u]) # {}
  \/ ~Withheld /\ EventOf(snapshot[u], bag) \in {"database_created", "endpoints_changed"}

\* Mutant: an endpoint is taken for complete connection data.
SettingsOfEndpoint ==
  LET s == [endpoint |-> Published("endpoints"), user |-> MetastoreField("username"),
            password |-> MetastoreField("password")]
  IN  IF s.endpoint = None THEN None ELSE s

\* Metastore, PolarisConfig: the settings, when the connection data is complete.
Settings ==
  LET s == [endpoint |-> Published("endpoints"), user |-> MetastoreField("username"),
            password |-> MetastoreField("password")]
  IN  IF None \in Range(s) THEN None ELSE s

-------------------------------------------------------------------------------
(* Hooks of the requirer *)

\* What EventHandlers has the framework observe on the relation.
LibraryKinds == {"created", "changed", "secret_changed"}

Kinds == LibraryKinds \cup {"update"}

\* What waits for u, or happens at any time.
Begins(u, kind) ==
  /\ IF failed[u] # None THEN kind = failed[u] ELSE kind = "update" \/ kind \in notices[u]
  /\ notices' = [notices EXCEPT ![u] = @ \ {kind}]

\* Mutant: nothing but the relation itself makes Polaris look again.
UpdatesByEvent(u, kind) == deferred[u] \/ (kind = "changed" /\ Heard(u))

\* Whether some handler of the hook updates the workload.
Updates(u, kind) == deferred[u] \/ kind = "update" \/ (kind = "changed" /\ Heard(u))

\* MetastoreEvents.reconcile
Reconciled(u, kind) == IF Updates(u, kind) /\ reach[u] /\ Settings # None THEN Settings ELSE conf[u]

\* Mutant: the request is left in the databag of the unit.
RequestUnheard(u) == request

\* DatabaseRequirerEventHandlers._on_relation_created_event: the leader's request.
Request(u) == IF u = leader THEN {"requested-secrets", "database"} ELSE request

\* Data saved for the next comparison.
Saved(u) == IF Withheld THEN snapshot[u] ELSE bag

\* Juju tells the provider of a write to the application's or the unit's databag.
Tell(written) == pending' = IF written THEN Servers ELSE pending

Created(u) ==
  /\ request' = Request(u)
  /\ Tell(u = leader)
  /\ UNCHANGED <<snapshot, told>>

RelationChanged(u) ==
  /\ snapshot' = [snapshot EXCEPT ![u] = Saved(u)]
  /\ told' = [told EXCEPT ![u] = (@ \cup Raised(snapshot[u])) \ Resolved(snapshot[u])]
  /\ Tell(Saved(u) # snapshot[u])
  /\ UNCHANGED request

\* DatabaseRequirerEventHandlers._on_secret_changed_event
SecretChanged == UNCHANGED <<request, pending, snapshot, told>>

Hook(u, kind) ==
  /\ Begins(u, kind)
  /\ CASE kind = "created" -> Created(u)
       [] kind = "changed" -> RelationChanged(u)
       [] kind = "secret_changed" -> SecretChanged
       [] kind = "update"  -> UNCHANGED <<request, pending, snapshot, told>>
  /\ conf' = [conf EXCEPT ![u] = Reconciled(u, kind)]
  /\ deferred' = [deferred EXCEPT ![u] = Updates(u, kind) /\ ~reach[u]]
  /\ failed' = [failed EXCEPT ![u] = None]
  /\ UNCHANGED <<leases, provider, seen, requested, reach, mishaps, edits, faults>>

\* A handler raises: the workload may have been updated, nothing else is kept.
HookRaises(u, kind) ==
  /\ Begins(u, kind)
  /\ Fault("raise")
  /\ conf' \in {conf, [conf EXCEPT ![u] = Reconciled(u, kind)]}
  /\ failed' = [failed EXCEPT ![u] = kind]
  /\ UNCHANGED <<leases, provider, request, seen, requested, snapshot, told, reach, pending,
                 deferred, mishaps, edits>>

\* A lease passes to a unit whose own turn to ask, or to look at what was asked, has
\* gone by: the request is not made, or not noticed, for getting it.
MissesCreated(v) == request = {} /\ "created" \notin notices[v] \cup {failed[v]}
MissesRequest(s) == seen # request /\ s \notin pending

MissedIf(missed) == mishaps' = IF missed THEN mishaps \cup {"request_missed"} ELSE mishaps

\* The leader loses the lease during the hook that asks for the database.
HookDeposed(u, v) ==
  /\ u = leader /\ v # u
  /\ Begins(u, "created")
  /\ Fault("depose")
  /\ leader' = v /\ MissedIf(MissesCreated(v))
  /\ failed' = [failed EXCEPT ![u] = "created"]
  /\ UNCHANGED <<primary, provider, request, seen, requested, snapshot, told, conf, reach,
                 pending, deferred, edits>>

-------------------------------------------------------------------------------
(* The provider *)

Notify(us, kind) == notices' = [u \in Units |-> notices[u] \cup (IF u \in us THEN {kind} ELSE {})]

\* DatabaseProviderEventHandlers._on_relation_changed_event: only the leader looks.
Serve(s) ==
  /\ s \in pending
  /\ pending' = pending \ {s}
  /\ IF s = primary /\ request # seen
     THEN /\ seen' = request
          /\ requested' = (requested \/ "database" \in request \ seen)
          /\ Notify(Units, "changed")
     ELSE UNCHANGED <<seen, requested, notices>>
  /\ UNCHANGED <<leases, requirer, provider, request, mishaps, edits, faults>>

\* CachedSecret.set_content makes a revision only of a new content.
Revised == \E g \in Groups : /\ Exists(g)
                             /\ secrets'[g].uri = secrets[g].uri
                             /\ secrets'[g].content \notin {Content(g), EmptyBag}

\* The requirer hears of a databag that changed and of a secret with a new revision.
Announced ==
  (IF bag' # bag THEN {"changed"} ELSE {}) \cup (IF Revised THEN {"secret_changed"} ELSE {})

NotifyAll(kinds) == notices' = [u \in Units |-> notices[u] \cup kinds]

\* Some unit has yet to hear of a change of field f that this write takes back.
Undone(f) ==
  \E u \in Units :
    /\ f \in DOMAIN snapshot[u] \cap DOMAIN bag'
    /\ f \notin DOMAIN bag \/ bag[f] # bag'[f]
    /\ f = "secret-user" \/ snapshot[u][f] = bag'[f]

Publish(data) ==
  /\ UpdateRelationData(data)
  /\ NotifyAll(Announced)
  /\ mishaps' = IF Undone("endpoints") \/ Undone("secret-user")
                THEN mishaps \cup {"change_undone"} ELSE mishaps
  /\ UNCHANGED <<leases, requirer, request, seen, requested, ready, pending, faults>>

SetCredentials(p) == Edit("credentials") /\ Publish([username |-> User, password |-> p])

SetEndpoints(a) == Edit("endpoints") /\ Publish([endpoints |-> a])

SetReadOnlyEndpoints(a) == Edit("replicas") /\ Publish(Only("read-only-endpoints", a))

SetTls == Edit("tls") /\ Publish([tls |-> "true"])

SetTlsCa(t) == Edit("tls") /\ Publish(Only("tls-ca", t))

RaiseStatus(c) == Edit("status") /\ Publish([status |-> CurrentCodes \cup {c}])

ResolveStatus(c) ==
  /\ c \in CurrentCodes
  /\ Edit("status")
  /\ Publish([status |-> CurrentCodes \ {c}])

Delete(fields) ==
  /\ DeleteRelationData(fields)
  /\ NotifyAll(Announced)
  /\ UNCHANGED <<leases, requirer, request, seen, requested, ready, pending, mishaps, faults>>

ClearStatuses == "status" \in DOMAIN bag /\ Edit("status") /\ Delete({"status"})

\* An address that is replaced by nothing.
DeleteEndpoints == "endpoints" \in DOMAIN bag /\ Edit("endpoints") /\ Delete({"endpoints"})

\* The user is taken away, to be made again later.
DeleteCredentials ==
  /\ Exists("user")
  /\ Edit("credentials")
  /\ Delete({"username", "password"})

\* TLS is switched off.
DeleteTls(fields) == Exists("tls") /\ Edit("tls") /\ Delete(fields)

SetSubordinated == Edit("subordinate") /\ Publish([subordinated |-> "true"])

\* A unit of a subordinate provider becomes ready.
BecomeReady ==
  /\ "subordinated" \in DOMAIN bag /\ ~ready
  /\ ready' = TRUE
  /\ Notify(Units, "changed")
  /\ UNCHANGED <<leases, requirer, request, seen, requested, bag, secrets, pending, mishaps,
                 edits, faults>>

-------------------------------------------------------------------------------
(* Juju and Kubernetes *)

Elect(v) ==
  /\ v # leader /\ Fault("election")
  /\ leader' = v /\ MissedIf(MissesCreated(v))
  /\ UNCHANGED <<primary, requirer, provider, request, seen, requested, notices, pending, edits>>

FailOver(s) ==
  /\ s # primary /\ Fault("failover")
  /\ primary' = s /\ MissedIf(MissesRequest(s))
  /\ UNCHANGED <<leader, requirer, provider, request, seen, requested, notices, pending, edits>>

ContainerRestart(u) ==
  /\ reach[u] /\ Fault("churn")
  /\ reach' = [reach EXCEPT ![u] = FALSE]
  /\ conf' = [conf EXCEPT ![u] = None]
  /\ UNCHANGED <<leases, provider, request, seen, requested, snapshot, told, notices, pending,
                 mishaps, failed, deferred, edits>>

PebbleUp(u) ==
  /\ ~reach[u]
  /\ reach' = [reach EXCEPT ![u] = TRUE]
  /\ Notify({u}, "update")
  /\ UNCHANGED <<leases, provider, request, seen, requested, snapshot, told, conf, pending,
                 mishaps, failed, deferred, edits, faults>>

-------------------------------------------------------------------------------

Init ==
  /\ leader \in Units /\ primary \in Servers
  /\ request = {} /\ seen = {} /\ requested = FALSE
  /\ bag = EmptyBag /\ ready = FALSE
  /\ secrets = [g \in Groups |-> [uri |-> 0, content |-> EmptyBag]]
  /\ snapshot = [u \in Units |-> EmptyBag]
  /\ told = [u \in Units |-> {}]
  /\ conf = [u \in Units |-> None]
  /\ reach = [u \in Units |-> TRUE]
  /\ notices = [u \in Units |-> {"created", "changed"}]
  /\ pending = Servers
  /\ failed = [u \in Units |-> None]
  /\ deferred = [u \in Units |-> FALSE]
  /\ mishaps = {}
  /\ edits = MaxEdits /\ faults = MaxFaults

Next ==
  \/ \E u \in Units :
       \/ \E kind \in Kinds : Hook(u, kind) \/ HookRaises(u, kind)
       \/ \E v \in Units : HookDeposed(u, v)
       \/ Elect(u) \/ ContainerRestart(u) \/ PebbleUp(u)
  \/ \E s \in Servers : Serve(s) \/ FailOver(s)
  \/ \E p \in Passwords : SetCredentials(p)
  \/ \E a \in Addresses : SetEndpoints(a) \/ SetReadOnlyEndpoints(a) \/ SetTlsCa(a)
  \/ \E c \in Codes : RaiseStatus(c) \/ ResolveStatus(c)
  \/ SetTls
  \/ \E fields \in {{"tls"}, {"tls", "tls-ca"}} : DeleteTls(fields)
  \/ ClearStatuses \/ DeleteEndpoints \/ DeleteCredentials
  \/ SetSubordinated \/ BecomeReady

Spec == Init /\ [][Next]_vars

\* Kubernetes brings containers back; Juju runs failed hooks again, delivers what it
\* owes, and update-status from time to time.
Fairness ==
  \A u \in Units :
    /\ WF_vars(PebbleUp(u))
    /\ WF_vars(\E kind \in notices[u] \cup ({failed[u]} \ {None}) : Hook(u, kind))
    /\ SF_vars(Hook(u, "update"))

FairSpec == Spec /\ Fairness

-------------------------------------------------------------------------------
(* Properties *)

Fields == {"endpoints", "read-only-endpoints", "username", "password", "tls", "tls-ca", "status",
           "subordinated", "secret-user", "secret-tls"}

TypeOK ==
  /\ leader \in Units /\ primary \in Servers
  /\ request \subseteq {"requested-secrets", "database"} /\ seen \subseteq request
  /\ requested \in BOOLEAN /\ ready \in BOOLEAN
  /\ mishaps \subseteq {"request_missed", "change_undone"}
  /\ DOMAIN bag \subseteq Fields /\ StatusCodes(bag) \subseteq Codes
  /\ \A g \in Groups : /\ secrets[g].uri \in 0..MaxEdits
                       /\ \A f \in DOMAIN secrets[g].content : GroupOf[f] = g
  /\ \A u \in Units : DOMAIN snapshot[u] \subseteq Fields /\ told[u] \subseteq Codes
  /\ conf \in [Units -> [endpoint: Addresses, user: {User}, password: Passwords] \cup {None}]
  /\ notices \in [Units -> SUBSET Kinds] /\ pending \subseteq Servers
  /\ failed \in [Units -> Kinds \cup {None}]

\* Nothing is left to be done on u.
Quiet(u) == failed[u] = None /\ notices[u] = {} /\ ~deferred[u]

\* Whatever the provider publishes and when, the credentials of a requirer that asks
\* for secrets are never published in clear: the request and the wish for secrets
\* become visible together, and nothing secret is accepted before them
\* (ProviderData._update_relation_data, Data._process_secret_fields).
CredentialsStaySecret == SecretFields \cap DOMAIN bag = {}

\* A unit with nothing left to handle runs Polaris on the address that is published,
\* however many changes one relation-changed stood for, whatever failed and was
\* retried, and however long a subordinate was not listened to.  It may not until the
\* next periodic update where a change was taken back before a unit compared: by then
\* another hook, or one that failed, may have put the change into Polaris.
SettingsFollowEndpoints ==
  \A u \in Units :
    Quiet(u) /\ reach[u] /\ Settings # None /\ ~Withheld /\ "change_undone" \notin mishaps
      => conf[u] # None /\ conf[u].endpoint = bag.endpoints

\* A unit with nothing left to handle was told of exactly the statuses that are
\* raised, each raise and resolution told once it is committed.
StatusesTold ==
  \A u \in Units : Quiet(u) /\ "subordinated" \notin DOMAIN bag => told[u] = StatusCodes(bag)

\* When everything was handled, the database was asked for and the provider knows,
\* whichever leases moved, between hooks or under the hook that asks, and however often,
\* unless one passed to a unit that had looked when it was not its turn
\* (DatabaseRequirerEventHandlers._on_relation_created_event,
\* DatabaseProviderEventHandlers._on_relation_changed_event).
RequestReachesProvider ==
  (\A u \in Units : Quiet(u)) /\ pending = {} /\ "request_missed" \notin mishaps => requested

\* The settings the provider stays with are the ones Polaris runs with in the end: a
\* password that changes in the secret, which changes nothing that is published, and
\* a change that a failed or a late hook made nothing of, wait for the next periodic
\* update.
SettingsReachPolaris ==
  \A u \in Units, s \in [endpoint: Addresses, user: {User}, password: Passwords] :
    <>[](Settings = s) => <>[](conf[u] = s)

===============================================================================
