------------------------------- MODULE Console -------------------------------
(***************************************************************************)
(* How the console is exposed: its certificate, its open port, the backend *)
(* the ingress is told of, the address the ingress gives it, and the OAuth *)
(* client registered for that address.                                     *)
(*                                                                         *)
(* Each unit configures its own console; the leader alone writes what the  *)
(* ingress and the OAuth provider are told.  A certificate event cascades: *)
(* TLSEvents updates the console and the port, then IngressEvents publishes*)
(* the backend, then OAuthEvents publishes the client and updates the      *)
(* console again.  A cascaded call has no event to defer.                  *)
(*                                                                         *)
(* A hook is one step: it sees the relations as they were when it began,   *)
(* what it publishes is buffered until it commits, the leader is the only  *)
(* writer of what the units share, and the container is its own.  A hook   *)
(* that raises keeps what it did to the container and loses the rest.      *)
(***************************************************************************)
EXTENDS Naturals, Sequences

CONSTANTS
  Units,      \* units of the application
  Certs,      \* certificates the provider may issue, each with its private key
  HttpUrls,   \* addresses the ingress may give the application, without TLS
  HttpsUrls,  \* and with TLS
  Deployments, \* sets of relations, one of which is made at deployment
  Late,       \* units whose containers have still to start
  PeersFromStart, \* whether the peer relation is there from the start
  None,       \* an absent value
  Blank,      \* the console environment without OAuth values
  Edits,      \* the kinds of change this instance makes
  Faults,     \* the kinds of fault this instance exhibits
  MaxEdits,   \* bound: how many changes are made
  MaxFaults   \* bound: how many faults may happen

Relations  == {"tls", "ingress", "oauth"}
Containers == {"polaris", "console"}
Urls       == HttpUrls \cup HttpsUrls
Schemes    == {"http", "https"}

ASSUME ConstantsAssumption ==
  /\ HttpUrls \cap HttpsUrls = {}
  /\ Deployments \subseteq SUBSET Relations /\ Late \subseteq Units /\ PeersFromStart \in BOOLEAN
  /\ Edits \subseteq {"relations", "renewal", "url", "wipe", "departure", "secret"}
  /\ Faults \subseteq {"raise", "churn", "move", "election", "depose"}
  /\ MaxEdits \in Nat /\ MaxFaults \in Nat
  /\ None \notin Certs \cup Urls \cup Schemes \cup {Blank} /\ Blank \notin Urls

VARIABLES
  leader,    \* the unit that holds the leadership lease
  peers,     \* whether the peer relation exists
  related,   \* the relations of the application
  failed,    \* failed[u]: the kind of the hook that failed on u, if one did
  deferred,  \* deferred[u]: handlers whose notice unit u has deferred
  notices,   \* notices[u]: events Juju has still to deliver to u
  reach,     \* reach[u]: the containers of u whose Pebble answers
  cert,      \* cert[u]: certificate assigned to u on the TLS relation
  ingress,   \* data on the ingress relation, both sides
  oauth,     \* redirect address published on the OAuth relation, and registered
             \* with a client whose secret can be read
  stored,    \* stored[u]: IngressPerAppRequirer's stored current_url
  port,      \* port[u]: the port u opened, by its scheme
  console,   \* console[u]: the container: assets on disk, plan, service
  mishaps,   \* history: what happened that the charm does not recover from
  edits,     \* changes left
  faults     \* faults left

vars == <<leader, peers, related, failed, deferred, notices, reach, cert, ingress,
          oauth, stored, port, console, mishaps, edits, faults>>
data      == <<cert, ingress, oauth>>
own       == <<stored, port>>
juju      == <<leader, peers, related, notices>>
budget    == <<edits, faults>>

-------------------------------------------------------------------------------
(* Hooks *)

\* What each constructor has the framework observe.
PolarisKinds   == {"update", "console_ready", "polaris_ready", "leader_elected"}
TlsKinds       == {"console_ready", "certificate", "tls_broken"}
SetUrlKinds    == {"ingress_changed", "ingress_departed"}
ForgetUrlKinds == {"ingress_broken"}
IngressKinds   == {"ingress_created", "ingress_changed", "ingress_broken"}
OAuthKinds     == {"oauth_changed", "oauth_broken"}

Observed ==
  [polaris |-> PolarisKinds, tls |-> TlsKinds, set_url |-> SetUrlKinds,
   forget_url |-> ForgetUrlKinds, ingress |-> IngressKinds, oauth |-> OAuthKinds]

Handlers == DOMAIN Observed
Kinds    == UNION {Observed[h] : h \in Handlers}

ASSUME AbsentAssumption == None \notin Kinds

\* The turns of a hook: the notices deferred earlier, then the handlers of its event
\* in the order they were registered.  In one hook deferred handlers do the same in
\* any order.
Turns == <<"polaris", "tls", "oauth",
           "polaris", "tls", "set_url", "forget_url", "ingress", "oauth">>

\* Whether a hook takes its n-th turn.
Taken(u, kind, n) ==
  IF n <= 3 THEN Turns[n] \in deferred[u] ELSE kind \in Observed[Turns[n]]

Broken == [tls |-> "tls_broken", ingress |-> "ingress_broken", oauth |-> "oauth_broken"]

KindsOf == [tls     |-> {"certificate"},
            ingress |-> {"ingress_created", "ingress_changed", "ingress_departed"},
            oauth   |-> {"oauth_changed"}]

\* A relation that is removed is visible until its relation-broken hook.
Visible(u, r) == r \in related \/ Broken[r] \in notices[u]

\* Context.console_tls: the certificate assigned to the unit, if there is one.
ConsoleTls(u, kind) == IF Visible(u, "tls") /\ kind # "tls_broken" THEN cert[u] ELSE None

\* OAuth.ready: the provider published a client and its secret can be read.
OAuthReady == oauth.client # None /\ oauth.secret

\* What a hook of the given kind sees on the relations.
Sees(u, kind) ==
  LET sees(r) == Visible(u, r) /\ kind # Broken[r]
  IN  [cert    |-> ConsoleTls(u, kind),
       ingress |-> sees("ingress"),
       url     |-> IF sees("ingress") THEN ingress.url ELSE None,
       oauth   |-> sees("oauth"),
       client  |-> IF sees("oauth") /\ OAuthReady THEN oauth.client ELSE None]

\* What a hook works on: what it sees, the notices it defers, and the writes that
\* are buffered until it commits.
NewHook(u, kind) ==
  [sees |-> Sees(u, kind), defers |-> {}, scheme |-> None, config |-> None,
   member |-> FALSE, stored |-> stored[u], port |-> port[u]]

\* event.defer(), then return.
Deferred(hk, h) == [hk EXCEPT !.defers = @ \cup {h}]

Edit(kind)  == kind \in Edits /\ edits > 0 /\ edits' = edits - 1
Fault(kind) == kind \in Faults /\ faults > 0 /\ faults' = faults - 1

-------------------------------------------------------------------------------
(* ConsoleManager.update *)

\* IngressPerAppRequirer.url
Url(hk) == IF hk.stored # None THEN hk.stored ELSE hk.sees.url

\* ConsoleManager.environment
Environment(hk) == IF hk.sees.client # None /\ Url(hk) # None THEN Url(hk) ELSE Blank

\* Mutant: a console that runs is restarted for its environment only.
NeedsStartForEnv(hk, con) == con.running = None \/ con.env # Environment(hk)

\* The service is down, its environment changed, or its assets were replaced.
NeedsStart(hk, con) ==
  con.running = None \/ con.env # Environment(hk) \/ con.assets # hk.sees.cert

\* ensure_tls_assets, remove_tls_assets
WithAssets(hk, con) == [con EXCEPT !.assets = hk.sees.cert]

\* ConsoleWorkload.start, restart: the layer is added, then the service is started.
Started(hk, con) ==
  [assets |-> hk.sees.cert, env |-> Environment(hk),
   running |-> [env |-> Environment(hk), cert |-> hk.sees.cert]]

\* ConsoleManager.update
Updated(hk, con) == IF NeedsStart(hk, con) THEN Started(hk, con) ELSE WithAssets(hk, con)

\* Where an uncaught exception may leave the container: before, within or after the
\* update, or with the service stopped and its layer added.
Interrupted(hk, con) ==
  {con, WithAssets(hk, con), Updated(hk, con)} \cup
  (IF NeedsStart(hk, con) THEN {[Started(hk, con) EXCEPT !.running = None]} ELSE {})

-------------------------------------------------------------------------------
(* PolarisEvents, TLSEvents, IngressEvents, OAuthEvents: each handler is a      *)
(* function of the hook and of the container, and says what it leaves of both.  *)

\* The scheme, and with it the port, of the console.
SchemeOf(c) == IF c # None THEN "https" ELSE "http"

\* Mutant: the port follows the relation instead of the certificate.
PortedEagerly(u, hk) == [hk EXCEPT !.port = IF Visible(u, "tls") THEN "https" ELSE "http"]

\* Unit.set_ports
Ported(u, hk) == [hk EXCEPT !.port = SchemeOf(hk.sees.cert)]

\* Mutant: the backend is published for the first time only.
ProvidedOnce(u, hk) ==
  IF ~hk.sees.ingress THEN hk
  ELSE [hk EXCEPT !.member = TRUE,
                  !.scheme = IF leader = u /\ ingress.backend = None
                             THEN SchemeOf(hk.sees.cert) ELSE @]

\* IngressPerAppRequirer.provide_ingress_requirements: the application data by
\* the leader, the unit data by each unit.
Provided(u, hk) ==
  IF ~hk.sees.ingress THEN hk
  ELSE [hk EXCEPT !.member = TRUE,
                  !.scheme = IF leader = u THEN SchemeOf(hk.sees.cert) ELSE @]

\* Mutant: a client configuration is published once.
ClientConfiguredOnce(u, hk) ==
  IF Url(hk) \in HttpsUrls /\ hk.sees.oauth /\ leader = u /\ hk.sees.client = None
  THEN [hk EXCEPT !.config = Url(hk)] ELSE hk

\* Mutant: whatever the address.
ClientConfiguredForAny(u, hk) ==
  IF Url(hk) # None /\ hk.sees.oauth /\ leader = u
  THEN [hk EXCEPT !.config = Url(hk)] ELSE hk

\* oauth_client_config and OAuthRequirer.update_client_config
ClientConfigured(u, hk) ==
  IF Url(hk) \in HttpsUrls /\ hk.sees.oauth /\ leader = u
  THEN [hk EXCEPT !.config = Url(hk)] ELSE hk

Outcome(hk, con) == [hook |-> hk, console |-> con]

\* The peer relation exists and the given containers answer.
Able(u, containers) == peers /\ containers \subseteq reach[u]

\* PolarisEvents.reconcile, as far as the console goes
PolarisReconcile(u, hk, con) ==
  IF Able(u, Containers) THEN Outcome(hk, Updated(hk, con))
                         ELSE Outcome(Deferred(hk, "polaris"), con)

\* OAuthEvents.reconcile: at the end of a cascade there is no event to defer.
OAuthReconcile(u, hk, con, event) ==
  IF Able(u, Containers) THEN Outcome(ClientConfigured(u, hk), Updated(hk, con))
  ELSE Outcome(IF event THEN Deferred(hk, "oauth") ELSE hk, con)

\* IngressEvents.reconcile
IngressReconcile(u, hk, con) == OAuthReconcile(u, Provided(u, hk), con, FALSE)

\* Mutant: the cascade stops where the port is already the one to open.
TlsReconcileWhenMoved(u, hk, con) ==
  IF ~Able(u, {"console"}) THEN Outcome(Deferred(hk, "tls"), con)
  ELSE IF Ported(u, hk) = hk THEN Outcome(hk, Updated(hk, con))
  ELSE IngressReconcile(u, Ported(u, hk), Updated(hk, con))

\* TLSEvents.reconcile, also from relation-broken
TlsReconcile(u, hk, con) ==
  IF Able(u, {"console"}) THEN IngressReconcile(u, Ported(u, hk), Updated(hk, con))
                          ELSE Outcome(Deferred(hk, "tls"), con)

\* IngressPerAppRequirer._handle_relation: the address is stored when there is a
\* new one; when the provider has withdrawn it the last one stays.
SetUrl(hk) == [hk EXCEPT !.stored = IF hk.sees.url # None THEN hk.sees.url ELSE @]

\* IngressPerAppRequirer._handle_relation_broken
ForgetUrl(hk) == [hk EXCEPT !.stored = None]

Result(u, h, hk, con) ==
  CASE h = "polaris"    -> PolarisReconcile(u, hk, con)
    [] h = "tls"        -> TlsReconcile(u, hk, con)
    [] h = "ingress"    -> IngressReconcile(u, hk, con)
    [] h = "oauth"      -> OAuthReconcile(u, hk, con, TRUE)
    [] h = "set_url"    -> Outcome(SetUrl(hk), con)
    [] h = "forget_url" -> Outcome(ForgetUrl(hk), con)

\* A client configuration the leader would have published is dropped with the end
\* of its cascade.
Drops(u, h, hk) ==
  /\ ~Able(u, Containers)
  /\ h = "ingress" \/ (h = "tls" /\ Able(u, {"console"}))
  /\ ClientConfigured(u, hk) # hk

\* What each turn of a hook leaves.
Course(u, kind) ==
  LET left[n \in 0..Len(Turns)] ==
        IF n = 0 THEN Outcome(NewHook(u, kind), console[u])
        ELSE LET o == left[n - 1]
             IN  IF Taken(u, kind, n) THEN Result(u, Turns[n], o.hook, o.console) ELSE o
  IN  left

Mishaps(u, kind) ==
  IF \E n \in DOMAIN Turns :
       Taken(u, kind, n) /\ Drops(u, Turns[n], Course(u, kind)[n - 1].hook)
  THEN mishaps \cup {"config_dropped"} ELSE mishaps

-------------------------------------------------------------------------------
(* Juju: delivery, commit and failure of a hook *)

\* What is waiting for u, or happens at any time.
Deliverable(u, kind) ==
  \/ kind = "update"
  \/ kind \in notices[u] /\ \A r \in Relations : kind \in KindsOf[r] => Visible(u, r)

\* After relation-broken nothing else of the relation is delivered.
Remaining(u, kind) ==
  (notices[u] \ {kind}) \ UNION {KindsOf[r] : r \in {q \in Relations : kind = Broken[q]}}

\* The hook that comes next on u: the one that failed is run again first.
Begins(u, kind) ==
  /\ IF failed[u] # None THEN kind = failed[u] ELSE Deliverable(u, kind)
  /\ notices' = [notices EXCEPT ![u] = Remaining(u, kind)]

\* Whether the hook changes application data, which takes leadership.
WritesApp(hk) == hk.scheme \notin {None, ingress.backend} \/ hk.config \notin {None, oauth.config}

\* Every handler returned, and the buffer is flushed.
Hook(u, kind) ==
  /\ Begins(u, kind)
  /\ LET o  == Course(u, kind)[Len(Turns)]
         hk == o.hook
     IN  /\ console' = [console EXCEPT ![u] = o.console]
         /\ ingress' = [ingress EXCEPT
                          !.backend = IF hk.scheme # None THEN hk.scheme ELSE @,
                          !.members = IF hk.member THEN @ \cup {u} ELSE @,
                          !.stale = IF hk.member THEN @ \ {u} ELSE @]
         /\ oauth' = IF hk.config # None THEN [oauth EXCEPT !.config = hk.config] ELSE oauth
         /\ stored' = [stored EXCEPT ![u] = hk.stored]
         /\ port' = [port EXCEPT ![u] = hk.port]
         /\ deferred' = [deferred EXCEPT ![u] = hk.defers]
  /\ mishaps' = Mishaps(u, kind)
  /\ failed' = [failed EXCEPT ![u] = None]
  /\ UNCHANGED <<leader, peers, related, reach, cert, budget>>

\* A handler raises.  When it does after the assets were replaced and before the
\* restart, the restart is lost: the next update finds nothing changed.
HookRaises(u, kind) ==
  /\ Begins(u, kind)
  /\ Fault("raise")
  /\ \E n \in DOMAIN Turns :
       LET o    == Course(u, kind)[n - 1]
           next == Course(u, kind)[n]
       IN  /\ Taken(u, kind, n)
           /\ \E con \in IF next.console = o.console THEN {o.console}
                         ELSE Interrupted(next.hook, o.console) :
                /\ console' = [console EXCEPT ![u] = con]
                /\ mishaps' = IF con.running # None /\ con.running.cert # con.assets
                              THEN mishaps \cup {"restart_lost"} ELSE mishaps
  /\ failed' = [failed EXCEPT ![u] = kind]
  /\ UNCHANGED <<leader, peers, related, deferred, reach, data, own, edits>>

\* The backend is not the port of v, which has nothing left to handle that would publish
\* it: nobody publishes a backend for being elected.
BackendMissed(v) ==
  /\ "ingress" \in related /\ "console" \in reach[v]
  /\ port[v] \notin {None, ingress.backend}
  /\ (notices[v] \cup {failed[v]}) \cap (TlsKinds \cup IngressKinds) = {}
  /\ "tls" \notin deferred[v]

LeaseMoves(v) ==
  /\ leader' = v
  /\ mishaps' = mishaps \cup {"lease_moved"}
                 \cup (IF BackendMissed(v) THEN {"backend_missed"} ELSE {})

\* The lease is lost during the hook, and Juju refuses what the unit published.
HookDeposed(u, v, kind) ==
  /\ leader = u /\ v # u
  /\ Begins(u, kind)
  /\ Fault("depose")
  /\ LET o == Course(u, kind)[Len(Turns)]
     IN  WritesApp(o.hook) /\ console' = [console EXCEPT ![u] = o.console]
  /\ LeaseMoves(v)
  /\ failed' = [failed EXCEPT ![u] = kind]
  /\ UNCHANGED <<peers, related, deferred, reach, data, own, edits>>

-------------------------------------------------------------------------------
(* Juju, Kubernetes, the operator and the other charms *)

Notify(us, kind) == notices' = [u \in Units |-> notices[u] \cup (IF u \in us THEN {kind} ELSE {})]

CreatePeers ==
  /\ ~peers
  /\ peers' = TRUE
  /\ UNCHANGED <<leader, related, failed, deferred, notices, reach, data, own, console,
                 mishaps, budget>>

\* The lease passes to v between hooks.
Elect(v) ==
  /\ v # leader
  /\ Fault("election")
  /\ LeaseMoves(v)
  /\ Notify({v}, "leader_elected")
  /\ UNCHANGED <<peers, related, failed, deferred, reach, data, own, console, edits>>

EmptyConsole == [assets |-> None, env |-> None, running |-> None]

ContainerRestart(u, c) ==
  /\ c \in reach[u]
  /\ Fault("churn")
  /\ reach' = [reach EXCEPT ![u] = @ \ {c}]
  /\ console' = IF c = "console" THEN [console EXCEPT ![u] = EmptyConsole] ELSE console
  /\ UNCHANGED <<juju, failed, deferred, data, own, mishaps, edits>>

PebbleUp(u, c) ==
  /\ c \notin reach[u]
  /\ reach' = [reach EXCEPT ![u] = @ \cup {c}]
  /\ Notify({u}, IF c = "console" THEN "console_ready" ELSE "polaris_ready")
  /\ UNCHANGED <<leader, peers, related, failed, deferred, data, own, console, mishaps, budget>>

\* Kubernetes replaces the pod of u.  Its containers are lost, and so is what the
\* charm keeps on the pod: the stored address and the deferred notices.  The address
\* it published is the old pod's, and so is the one in its certificate request: a
\* certificate for the new request is not there yet.
PodMoves(u) ==
  /\ reach[u] # {}
  /\ Fault("move")
  /\ reach' = [reach EXCEPT ![u] = {}]
  /\ console' = [console EXCEPT ![u] = EmptyConsole]
  /\ stored' = [stored EXCEPT ![u] = None]
  /\ deferred' = [deferred EXCEPT ![u] = {}]
  /\ cert' = [cert EXCEPT ![u] = None]
  /\ ingress' = [ingress EXCEPT !.stale = @ \cup ({u} \cap ingress.members)]
  /\ UNCHANGED <<juju, failed, oauth, port, mishaps, edits>>

NewIngress == [backend |-> None, members |-> {}, stale |-> {}, url |-> None]
NewOAuth   == [config |-> None, client |-> None, secret |-> FALSE]

\* A relation is gone once every unit has run its relation-broken hook.
Detached(r) == \A u \in Units : ~Visible(u, r) /\ failed[u] # Broken[r]

CreatedKind == [tls |-> "certificate", ingress |-> "ingress_created", oauth |-> "oauth_changed"]

AddRelation(r) ==
  /\ Edit("relations")
  /\ Detached(r)
  /\ related' = related \cup {r}
  /\ cert' = IF r = "tls" THEN [u \in Units |-> None] ELSE cert
  /\ ingress' = IF r = "ingress" THEN NewIngress ELSE ingress
  /\ oauth' = IF r = "oauth" THEN NewOAuth ELSE oauth
  /\ Notify(Units, CreatedKind[r])
  /\ UNCHANGED <<leader, peers, failed, deferred, reach, own, console, mishaps, faults>>

RemoveRelation(r) ==
  /\ Edit("relations")
  /\ r \in related
  /\ related' = related \ {r}
  /\ Notify(Units, Broken[r])
  /\ UNCHANGED <<leader, peers, failed, deferred, reach, data, own, console, mishaps, faults>>

\* The TLS library emits certificate_available for a new or a renewed certificate.
IssueCertificate(u) ==
  /\ "tls" \in related
  /\ IF cert[u] = None THEN UNCHANGED edits ELSE Edit("renewal")
  /\ cert' \in {[cert EXCEPT ![u] = c] : c \in Certs \ {cert[u]}}
  /\ Notify({u}, "certificate")
  /\ UNCHANGED <<leader, peers, related, failed, deferred, reach, ingress, oauth, own,
                 console, mishaps, faults>>

\* IngressPerAppProvider.is_ready: the application's data and every unit's.
ProviderReady == "ingress" \in related /\ ingress.backend # None /\ ingress.members = Units

\* IngressPerAppProvider.publish_url
PublishUrl ==
  /\ ProviderReady
  /\ IF ingress.url = None THEN UNCHANGED edits ELSE Edit("url")
  /\ ingress' \in {[ingress EXCEPT !.url = a] : a \in Urls \ {ingress.url}}
  /\ Notify(Units, "ingress_changed")
  /\ UNCHANGED <<leader, peers, related, failed, deferred, reach, cert, oauth, own,
                 console, mishaps, faults>>

\* IngressPerAppProvider.wipe_ingress_data
WipeUrl ==
  /\ "ingress" \in related /\ ingress.url # None
  /\ Edit("wipe")
  /\ ingress' = [ingress EXCEPT !.url = None]
  /\ Notify(Units, "ingress_changed")
  /\ UNCHANGED <<leader, peers, related, failed, deferred, reach, cert, oauth, own,
                 console, mishaps, faults>>

\* A unit of the ingress provider departs.
IngressDeparts ==
  /\ "ingress" \in related
  /\ Edit("departure")
  /\ Notify(Units, "ingress_departed")
  /\ UNCHANGED <<leader, peers, related, failed, deferred, reach, data, own, console,
                 mishaps, faults>>

\* The OAuth provider registers the client it was asked for, with a new secret.
RegisterClient ==
  /\ "oauth" \in related /\ oauth.config # None
  /\ oauth.config # oauth.client \/ ~oauth.secret
  /\ oauth' = [oauth EXCEPT !.client = oauth.config, !.secret = TRUE]
  /\ Notify(Units, "oauth_changed")
  /\ UNCHANGED <<leader, peers, related, failed, deferred, reach, cert, ingress, own,
                 console, mishaps, budget>>

\* It removes the secret of the client first, and nobody is told.
WithdrawSecret ==
  /\ oauth.secret
  /\ Edit("secret")
  /\ oauth' = [oauth EXCEPT !.secret = FALSE]
  /\ UNCHANGED <<juju, failed, deferred, reach, cert, ingress, own, console, mishaps, faults>>

-------------------------------------------------------------------------------

Init ==
  /\ leader \in Units
  /\ peers = PeersFromStart
  /\ related \in Deployments
  /\ failed = [u \in Units |-> None]
  /\ deferred = [u \in Units |-> {}]
  /\ notices = [u \in Units |-> {CreatedKind[r] : r \in related}]
  /\ reach = [u \in Units |-> IF u \in Late THEN {} ELSE Containers]
  /\ cert = [u \in Units |-> None]
  /\ ingress = NewIngress
  /\ oauth = NewOAuth
  /\ stored = [u \in Units |-> None]
  /\ port = [u \in Units |-> None]
  /\ console = [u \in Units |-> EmptyConsole]
  /\ mishaps = {}
  /\ edits = MaxEdits
  /\ faults = MaxFaults

Next ==
  \/ \E u \in Units :
       \/ Elect(u) \/ IssueCertificate(u) \/ PodMoves(u)
       \/ \E kind \in Kinds :
            \/ Hook(u, kind) \/ HookRaises(u, kind)
            \/ \E v \in Units : HookDeposed(u, v, kind)
       \/ \E c \in Containers : ContainerRestart(u, c) \/ PebbleUp(u, c)
  \/ \E r \in Relations : AddRelation(r) \/ RemoveRelation(r)
  \/ CreatePeers \/ PublishUrl \/ WipeUrl \/ IngressDeparts \/ RegisterClient \/ WithdrawSecret

Spec == Init /\ [][Next]_vars

-------------------------------------------------------------------------------
(* Properties *)

Env == Urls \cup {Blank}

TypeOK ==
  /\ leader \in Units /\ peers \in BOOLEAN /\ related \subseteq Relations
  /\ failed \in [Units -> Kinds \cup {None}]
  /\ deferred \in [Units -> SUBSET {"polaris", "tls", "oauth"}]
  /\ notices \in [Units -> SUBSET Kinds]
  /\ reach \in [Units -> SUBSET Containers]
  /\ cert \in [Units -> Certs \cup {None}]
  /\ ingress \in [backend: Schemes \cup {None}, members: SUBSET Units,
                stale: SUBSET Units, url: Urls \cup {None}]
  /\ oauth \in [config: HttpsUrls \cup {None}, client: HttpsUrls \cup {None}, secret: BOOLEAN]
  /\ stored \in [Units -> Urls \cup {None}]
  /\ port \in [Units -> Schemes \cup {None}]
  /\ console \in [Units -> [assets: Certs \cup {None}, env: Env \cup {None},
                            running: [env: Env, cert: Certs \cup {None}] \cup {None}]]
  /\ mishaps \subseteq {"restart_lost", "config_dropped", "lease_moved", "backend_missed"}

\* Nothing is left to be delivered to u.
Quiet(u) == failed[u] = None /\ notices[u] = {} /\ deferred[u] = {}

AllQuiet ==
  /\ \A u \in Units : Quiet(u)
  /\ oauth.config # None => oauth.client = oauth.config /\ oauth.secret

\* Between hooks the console runs with the certificate on its disk and with the
\* environment of its plan, unless a hook failed between the two halves of
\* ConsoleManager.update, whose restart is lost.
RunsWhatIsOnDisk ==
  \A u \in Units :
    failed[u] = None /\ console[u].running # None /\ "restart_lost" \notin mishaps
      => console[u].running = [env |-> console[u].env, cert |-> console[u].assets]

\* When a unit has handled everything, the port it opened and the certificate on its
\* disk are those of the certificate it was assigned, whatever was deferred, failed
\* and retried on the way (TLSEvents.reconcile).
PortFollowsCertificate ==
  \A u \in Units :
    Quiet(u) /\ port[u] # None /\ console[u].running # None
      => LET c == IF "tls" \in related THEN cert[u] ELSE None
         IN  port[u] = SchemeOf(c) /\ console[u].assets = c

\* Once the units agree on having a certificate or not, the ingress was told of a
\* backend and it is the port they all opened, as long as the console of the leader
\* answers, and however often the lease moved, unless it passed to a unit with another
\* port and nothing left to handle (IngressEvents.reconcile).
BackendMatchesPorts ==
  AllQuiet /\ "ingress" \in related /\ "console" \in reach[leader] /\ "backend_missed" \notin mishaps
    => \A s \in Schemes : (\A u \in Units : port[u] = s) => ingress.backend = s

\* The address u takes the console to have, between hooks.
Address(u) == IF stored[u] # None THEN stored[u] ELSE ingress.url

\* OAuthEvents.get_statuses
OAuthStatus(u, reachable) ==
  IF "oauth" \notin related THEN "none"
  ELSE IF "ingress" \notin related THEN "requires_ingress"
  ELSE IF Address(u) = None THEN "waiting_for_ingress_url"
  ELSE IF Address(u) \notin HttpsUrls THEN "requires_https_ingress"
  ELSE IF ~OAuthReady THEN "provider_not_ready"
  ELSE IF ~reachable THEN "provider_unreachable"
  ELSE "active"

OAuthActive(u) == OAuthStatus(u, TRUE) = "active"

\* A unit that reports OAuth as working has a console that sends its users to the
\* provider with the redirect address registered there, unless the lease moved or
\* the end of a cascade was dropped (OAuthEvents.reconcile, ConsoleManager.environment).
\* A unit may not while its Polaris container is away, as the end of its own cascade
\* was then dropped, or where it kept another address than the leader did, which takes
\* an address that is replaced and withdrawn before every unit saw it.
ActiveMeansLoginWorks ==
  AllQuiet /\ mishaps = {}
    => \A u \in Units :
         /\ OAuthActive(u) /\ console[u].running # None
         /\ u # leader => reach[u] = Containers /\ Address(u) = Address(leader)
         => console[u].running.env = oauth.client

\* A unit that has handled everything and whose console answers gave the ingress the
\* address of the pod it is in, although the pod may have moved and taken with it
\* the notices that were deferred (TLSEvents.reconcile, IngressEvents.reconcile).
IngressKnowsPods ==
  \A u \in Units :
    Quiet(u) /\ "ingress" \in related /\ "console" \in reach[u]
      => u \in ingress.members \ ingress.stale

===============================================================================
