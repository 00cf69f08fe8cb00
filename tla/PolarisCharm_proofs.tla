-------------------------- MODULE PolarisCharm_proofs --------------------------
(***************************************************************************)
(* What holds of PolarisCharm for any set of units, passwords, keys and    *)
(* databases and any number of faults and changes: its state is well       *)
(* formed, and as long as no unit gets the lease under a hook of its own,  *)
(* the committed credentials only ever move forward and the charm          *)
(* implements Credentials.                                                 *)
(***************************************************************************)
EXTENDS PolarisCharm, TLAPS

-------------------------------------------------------------------------------
(* The invariant behind type correctness: what a hook may rely on where it  *)
(* stands.                                                                  *)

\* A running hook has an event and a running handler, and update has passed its
\* early returns.
Control(u, hk) ==
  /\ hk.pc # "idle" => hk.kind \in Kinds
  /\ hk.pc \in {"manage", "bootstrap", "restart", "ensure"} => hk.cur \in Handlers
  /\ hk.pc \in {"manage", "bootstrap"} => joined[u] # None /\ ClusterReady(hk.app)

HookOK(u, hk) == hk \in HookType /\ Control(u, hk)

WellFormed == TypeOK /\ \A u \in Units : Control(u, hook[u])

-------------------------------------------------------------------------------
(* How a databag evolves within a hook                                      *)

\* h comes after a: a key in a is kept, a changed password moved the epoch, and a
\* password in a was only replaced by an operator's.
Advances(h, a) ==
  /\ a.key # None => h.key = a.key
  /\ h.epoch >= a.epoch
  /\ h.password # a.password => h.epoch > a.epoch
  /\ a.password # None => h.password \in UserPasswords \cup {a.password}

\* A databag comes after itself.
LEMMA AdvancesReflexive ==
  ASSUME NEW a \in AppData
  PROVE  Advances(a, a)
BY DEF Advances, AppData

\* Steps within a hook add up.
LEMMA AdvancesTransitive ==
  ASSUME NEW a \in AppData, NEW b \in AppData, NEW c \in AppData,
         Advances(b, a), Advances(c, b)
  PROVE  Advances(c, a)
<1>1. None \notin Passwords
  BY ConstantsAssumption
<1>2. b.password \in Passwords \cup {None} /\ UserPasswords \subseteq Passwords
  BY DEF AppData, Passwords
<1> QED
  BY <1>1, <1>2 DEF Advances, AppData

\* What set_metastore_bootstrapped writes is a databag after the one before.
LEMMA WithBootstrappedAdvances ==
  ASSUME NEW a \in AppData, NEW b \in BOOLEAN
  PROVE  /\ WithBootstrapped(a, b) \in AppData
         /\ Advances(WithBootstrapped(a, b), a)
         /\ ClusterReady(a) => ClusterReady(WithBootstrapped(a, b))
BY DEF WithBootstrapped, Advances, AppData, ClusterReady

\* _ensure_token_broker_key adds a key or changes nothing.
LEMMA KeyOutcomesAdvance ==
  ASSUME NEW u, NEW a \in AppData, NEW b \in KeyOutcomes(u, a)
  PROVE  b \in AppData /\ Advances(b, a)
BY DEF KeyOutcomes, WithKey, Advances, AppData

\* A reset of the credentials leaves every database with a password or none.
LEMMA ResetOutcomesType ==
  ASSUME TypeOK, NEW u \in Units, NEW old, NEW new \in Passwords,
         NEW o \in ResetOutcomes(u, old, new)
  PROVE  o.root \in [Databases -> Passwords \cup {None}]
<1>1. running[u] # None => running[u].db \in Databases
  BY DEF TypeOK, Conf
<1>2. root \in [Databases -> Passwords \cup {None}]
  BY DEF TypeOK
<1> QED
  BY <1>1, <1>2 DEF ResetOutcomes

\* The password wanted is one, and when one is in force it is that or an operator's.
LEMMA WantedPasswordsType ==
  ASSUME NEW a \in AppData, NEW p \in WantedPasswords(a)
  PROVE  /\ p \in Passwords
         /\ a.password # None => p \in UserPasswords \cup {a.password}
BY DEF WantedPasswords, SystemUserPassword, AppData, Passwords

\* Setting a password that differs moves the epoch.
LEMMA WithPasswordAdvances ==
  ASSUME NEW a \in AppData, NEW p \in WantedPasswords(a)
  PROVE  WithPassword(a, p) \in AppData /\ Advances(WithPassword(a, p), a)
<1>1. /\ p \in Passwords
      /\ a.password # None => p \in UserPasswords \cup {a.password}
  BY WantedPasswordsType
<1>2. a.epoch \in Nat /\ a.epoch + 1 \in Nat /\ a.epoch + 1 > a.epoch
  BY DEF AppData
<1>3. WithPassword(a, p) \in AppData
  BY <1>1, <1>2 DEF WithPassword, AppData
<1>4. /\ WithPassword(a, p).key = a.key
      /\ WithPassword(a, p).epoch = a.epoch + 1
      /\ WithPassword(a, p).password = p
  BY DEF WithPassword, AppData
<1> QED
  BY <1>1, <1>2, <1>3, <1>4 DEF Advances

\* _ensure_admin_credentials keeps the databag well formed and moves it forward.
LEMMA CredentialOutcomesAdvance ==
  ASSUME TypeOK, NEW u \in Units, NEW a \in AppData, NEW o \in CredentialOutcomes(u, a)
  PROVE  /\ o.app \in AppData /\ Advances(o.app, a)
         /\ o.root \in [Databases -> Passwords \cup {None}]
<1>1. root \in [Databases -> Passwords \cup {None}]
  BY DEF TypeOK
<1>2. Advances(a, a)
  BY AdvancesReflexive
<1>3. CASE leader # u \/ secret \in {Inaccessible, Invalid}
  BY <1>1, <1>2, <1>3 DEF CredentialOutcomes
<1>4. CASE ~(leader # u \/ secret \in {Inaccessible, Invalid})
  <2>1. PICK p \in WantedPasswords(a) :
          \/ o.app = a /\ o.root = root
          \/ o.app = WithPassword(a, p) /\ o.root = root
          \/ \E r \in ResetOutcomes(u, a.password, p) :
               o.app \in {a, WithPassword(a, p)} /\ o.root = r.root
    BY <1>4 DEF CredentialOutcomes
  <2>2. p \in Passwords
    BY WantedPasswordsType
  <2>3. WithPassword(a, p) \in AppData /\ Advances(WithPassword(a, p), a)
    BY WithPasswordAdvances
  <2> QED
    BY <1>1, <1>2, <2>1, <2>2, <2>3, ResetOutcomesType
<1> QED
  BY <1>3, <1>4

-------------------------------------------------------------------------------
(* How the pieces of a handler change the hook record                       *)

\* A record a handler works on: its event and itself are known.
InHandler(hk) == hk \in HookType /\ hk.kind \in Kinds /\ hk.cur \in Handlers

\* The databag and the fate of the lease are carried over.
Same(hk, old) == hk.app = old.app /\ hk.deposed = old.deposed

\* A hook that goes on has a databag after the one it had.
Forward(hk, old) ==
  \/ hk.pc \in {"idle", "error"}
  \/ Advances(hk.app, old.app) /\ hk.deposed = old.deposed

\* A step of u's hook that leaves it well formed and never goes back.
HookMoves(u) == \E hk : HookOK(u, hk) /\ Forward(hk, hook[u]) /\ Set(u, hk)

\* Every event has a sequence of handlers.
LEMMA HandlersOfType ==
  ASSUME NEW kind \in Kinds
  PROVE  HandlersOf(kind) \in Seq(Handlers)
<1>1. /\ <<"polaris">> \in Seq(Handlers) /\ <<"secret">> \in Seq(Handlers)
      /\ <<"metastore">> \in Seq(Handlers) /\ <<"broken">> \in Seq(Handlers)
      /\ <<"s3">> \in Seq(Handlers) /\ <<"oauth">> \in Seq(Handlers)
      /\ <<"polaris", "s3", "certs">> \in Seq(Handlers)
  BY DEF Handlers
<1>2. CASE kind \in {"update", "secret_changed", "pebble_ready"}
  BY <1>1, <1>2 DEF HandlersOf
<1>3. CASE kind \in {"database_changed", "metastore_broken"}
  BY <1>1, <1>3 DEF HandlersOf
<1>4. CASE kind \in {"storage_changed", "oauth_changed"}
  BY <1>1, <1>4 DEF HandlersOf
<1> QED
  BY <1>2, <1>3, <1>4 DEF Kinds

\* Juju's empty databag is well formed.
LEMMA EmptyAppType == EmptyApp \in AppData
BY DEF EmptyApp, AppData

\* A unit with no hook, a failed hook and a new hook are well formed.
LEMMA IdleHookOK ==
  ASSUME NEW u
  PROVE  HookOK(u, IdleHook)
BY EmptyAppType DEF HookOK, Control, IdleHook, HookType

LEMMA FailedHookOK ==
  ASSUME NEW u, NEW kind \in Kinds
  PROVE  HookOK(u, FailedHook(kind)) /\ FailedHook(kind).pc = "error"
<1>1. IdleHook \in HookType
  BY EmptyAppType DEF IdleHook, HookType
<1>2. /\ FailedHook(kind) \in HookType
      /\ FailedHook(kind).pc = "error" /\ FailedHook(kind).kind = kind
  BY <1>1 DEF FailedHook, HookType
<1> QED
  BY <1>2 DEF HookOK, Control

LEMMA NewHookOK ==
  ASSUME TypeOK, NEW u \in Units, NEW kind \in Kinds
  PROVE  HookOK(u, NewHook(u, kind)) /\ NewHook(u, kind).app = app
<1>1. app \in AppData /\ deferred[u] \in SUBSET Handlers
  BY DEF TypeOK
<1> QED
  BY <1>1, HandlersOfType DEF HookOK, Control, NewHook, HookType

\* Ready picks a handler of the hook and Entered begins it.
LEMMA EnteredOK ==
  ASSUME WellFormed, NEW u \in Units, NEW h, Ready(u, h)
  PROVE  InHandler(Entered(u, h)) /\ Same(Entered(u, h), hook[u])
<1>1. hook[u] \in HookType /\ hook[u].kind \in Kinds
  BY DEF WellFormed, TypeOK, Control, Ready
<1>2. CASE hook[u].again # {}
  BY <1>1, <1>2 DEF Ready, Entered, InHandler, Same, HookType
<1>3. CASE hook[u].again = {}
  <2>1. h \in Handlers /\ Tail(hook[u].todo) \in Seq(Handlers)
    BY <1>1, <1>3 DEF Ready, HookType
  <2> QED
    BY <1>1, <1>3, <2>1 DEF Entered, InHandler, Same, HookType
<1> QED
  BY <1>2, <1>3

\* A handler may return, defer its event or write to the databag.
LEMMA ReturnedOK ==
  ASSUME NEW u, NEW hk, InHandler(hk)
  PROVE  HookOK(u, Returned(hk)) /\ Same(Returned(hk), hk)
BY DEF InHandler, Returned, HookOK, Control, Same, HookType

LEMMA DeferredOK ==
  ASSUME NEW u, NEW hk, InHandler(hk)
  PROVE  HookOK(u, Deferred(hk)) /\ Same(Deferred(hk), hk)
<1> DEFINE d == [hk EXCEPT !.defers = @ \cup {hk.cur}]
<1>1. InHandler(d) /\ Same(d, hk)
  BY DEF InHandler, Same, HookType
<1> QED
  BY <1>1, ReturnedOK DEF Deferred, Same

LEMMA WroteOK ==
  ASSUME NEW hk, InHandler(hk), NEW a \in AppData
  PROVE  InHandler(Wrote(hk, a)) /\ Wrote(hk, a).app = a
         /\ Wrote(hk, a).deposed = hk.deposed /\ Wrote(hk, a).pc = hk.pc
BY DEF InHandler, Wrote, HookType

\* PolarisManager.update may be entered, may return, and may go on to restart.
LEMMA UpdatedOK ==
  ASSUME NEW u, NEW hk, InHandler(hk)
  PROVE  HookOK(u, Updated(hk)) /\ Same(Updated(hk), hk)
<1>1. CASE hk.pending
  BY <1>1 DEF InHandler, Updated, HookOK, Control, Same, HookType
<1>2. CASE ~hk.pending
  BY <1>2, ReturnedOK DEF Updated
<1> QED
  BY <1>1, <1>2

LEMMA CalledOK ==
  ASSUME NEW u, NEW hk, InHandler(hk)
  PROVE  HookOK(u, Called(u, hk)) /\ Same(Called(u, hk), hk)
<1>1. CASE Updatable(u, hk)
  BY <1>1 DEF InHandler, Called, Updatable, HookOK, Control, Same, HookType, ClusterReady
<1>2. CASE ~Updatable(u, hk)
  BY <1>2, UpdatedOK DEF Called
<1> QED
  BY <1>1, <1>2

LEMMA RestartingOK ==
  ASSUME NEW u, NEW hk, InHandler(hk)
  PROVE  HookOK(u, Restarting(hk)) /\ Same(Restarting(hk), hk)
<1>1. CASE hk.restart
  BY <1>1 DEF InHandler, Restarting, HookOK, Control, Same, HookType
<1>2. CASE ~hk.restart
  BY <1>2, UpdatedOK DEF Restarting
<1> QED
  BY <1>1, <1>2

-------------------------------------------------------------------------------
(* What the handlers and update do to the hook of their unit, to the        *)
(* databases and to the faults left                                         *)

Roots == [Databases -> Passwords \cup {None}]

Schemas == [Databases -> BOOLEAN]

\* A fault that happened is used up.
LEMMA FaultType ==
  ASSUME TypeOK, NEW kind, Fault(kind)
  PROVE  faults' \in 0..MaxFaults
BY ConstantsAssumption DEF TypeOK, Fault

LEMMA PaidType ==
  ASSUME TypeOK, NEW cost, Paid(cost)
  PROVE  faults' \in 0..MaxFaults
<1>1. CASE cost = "none"
  BY <1>1 DEF Paid, TypeOK
<1>2. CASE cost # "none"
  BY <1>2, FaultType DEF Paid
<1> QED
  BY <1>1, <1>2

\* A record that carries over the databag and the lease is a move forward.
LEMMA SameMoves ==
  ASSUME WellFormed, NEW u \in Units, NEW hk, HookOK(u, hk), Same(hk, hook[u]), Set(u, hk)
  PROVE  HookMoves(u)
<1>1. Advances(hook[u].app, hook[u].app)
  <2>1. hook[u].app \in AppData
    BY DEF WellFormed, TypeOK, HookType
  <2> QED
    BY <2>1, AdvancesReflexive
<1> QED
  BY <1>1 DEF HookMoves, Forward, Same

\* So is a failed hook.
LEMMA FailedMoves ==
  ASSUME NEW u \in Units, NEW kind \in Kinds, Set(u, FailedHook(kind))
  PROVE  HookMoves(u)
BY FailedHookOK DEF HookMoves, Forward

\* PolarisEvents.reconcile: the credentials and the key move forward.
LEMMA ReconcileMoves ==
  ASSUME WellFormed, NEW u \in Units, NEW hk, InHandler(hk), Same(hk, hook[u]),
         Reconcile(u, hk)
  PROVE  HookMoves(u) /\ root' \in Roots /\ faults' \in 0..MaxFaults
<1>1. TypeOK /\ hk.app \in AppData /\ hk.app = hook[u].app
  BY DEF WellFormed, InHandler, HookType, Same
<1>2. CASE ~peers \/ ~reach[u]
  <2>1. Set(u, Deferred(hk)) /\ UNCHANGED <<root, faults>>
    BY <1>2 DEF Reconcile
  <2>2. HookOK(u, Deferred(hk)) /\ Same(Deferred(hk), hook[u])
    BY DeferredOK DEF Same
  <2>3. HookMoves(u)
    BY <2>1, <2>2, SameMoves
  <2> QED
    BY <1>1, <2>1, <2>3 DEF TypeOK, Roots
<1>3. CASE peers /\ reach[u]
  <2>1. PICK o \in CredentialOutcomes(u, hk.app) :
          /\ Took(o)
          /\ IF o.result = "FAILED"
             THEN Set(u, Returned(hk))
             ELSE \E a \in KeyOutcomes(u, o.app) :
                    Set(u, Called(u, [Wrote(hk, a) EXCEPT !.pending = o.result = "PENDING"]))
    BY <1>3 DEF Reconcile
  <2>2. o.app \in AppData /\ Advances(o.app, hk.app) /\ o.root \in Roots
    BY <1>1, CredentialOutcomesAdvance DEF Roots
  <2>3. root' \in Roots /\ faults' \in 0..MaxFaults
    BY <1>1, <2>1, <2>2, PaidType DEF Took
  <2>4. CASE o.result = "FAILED"
    <3>1. HookOK(u, Returned(hk)) /\ Same(Returned(hk), hook[u])
      BY ReturnedOK DEF Same
    <3>2. HookMoves(u)
      BY <2>1, <2>4, <3>1, SameMoves
    <3> QED
      BY <2>3, <3>2
  <2>5. CASE o.result # "FAILED"
    <3>1. PICK a \in KeyOutcomes(u, o.app) :
            Set(u, Called(u, [Wrote(hk, a) EXCEPT !.pending = o.result = "PENDING"]))
      BY <2>1, <2>5
    <3> DEFINE w == Wrote(hk, a)
               c == [w EXCEPT !.pending = o.result = "PENDING"]
    <3>2. a \in AppData /\ Advances(a, hk.app)
      BY <1>1, <2>2, KeyOutcomesAdvance, AdvancesTransitive
    <3>3. InHandler(w) /\ w.app = a /\ w.deposed = hk.deposed
      BY <3>2, WroteOK
    <3>4. InHandler(c) /\ Same(c, w)
      BY <3>3 DEF InHandler, Same, HookType
    <3>5. HookOK(u, Called(u, c)) /\ Same(Called(u, c), c)
      BY <3>4, CalledOK
    <3>6. Forward(Called(u, c), hook[u])
      BY <1>1, <3>2, <3>3, <3>4, <3>5 DEF Same, Forward
    <3>7. HookMoves(u)
      BY <3>1, <3>5, <3>6 DEF HookMoves
    <3> QED
      BY <2>3, <3>7
  <2> QED
    BY <2>4, <2>5
<1> QED
  BY <1>2, <1>3

\* SchemaOutcomes is well typed.
LEMMA SchemaOutcomesType ==
  ASSUME TypeOK, NEW u \in Units, NEW hk \in HookType, joined[u] # None,
         NEW o \in SchemaOutcomes(u, hk)
  PROVE  o.ok \in BOOLEAN /\ o.schema \in Schemas
<1>1. joined[u] \in Databases /\ schema \in Schemas
  BY DEF TypeOK, Schemas
<1>2. [schema EXCEPT ![joined[u]] = TRUE] \in Schemas
  BY <1>1 DEF Schemas
<1>3. CASE hk.schema # None
  <2>1. hk.schema \in BOOLEAN
    BY <1>3 DEF HookType
  <2>2. o = [ok |-> hk.schema, schema |-> schema, cost |-> "none"]
    BY <1>3 DEF SchemaOutcomes
  <2>3. o.ok = hk.schema /\ o.schema = schema
    BY <2>2, Zenon
  <2>4. o.ok \in BOOLEAN
    BY <2>1, <2>3
  <2>5. o.schema \in Schemas
    BY <1>1, <2>3
  <2> QED
    BY <2>4, <2>5
<1>4. CASE hk.schema = None
  <2>1. \/ o = [ok |-> TRUE, schema |-> [schema EXCEPT ![joined[u]] = TRUE], cost |-> "none"]
        \/ o = [ok |-> FALSE, schema |-> schema, cost |-> "schema_error"]
    BY <1>4 DEF SchemaOutcomes
  <2>2. CASE o = [ok |-> TRUE, schema |-> [schema EXCEPT ![joined[u]] = TRUE], cost |-> "none"]
    <3>1. o.ok = TRUE /\ o.schema = [schema EXCEPT ![joined[u]] = TRUE]
      BY <2>2, Zenon
    <3> QED
      BY <1>2, <3>1
  <2>3. CASE o = [ok |-> FALSE, schema |-> schema, cost |-> "schema_error"]
    <3>1. o.ok = FALSE /\ o.schema = schema
      BY <2>3, Zenon
    <3> QED
      BY <1>1, <3>1
  <2> QED
    BY <2>1, <2>2, <2>3
<1> QED
  BY <1>3, <1>4

\* The containers, the databases and the faults left are well typed.
Contents ==
  /\ file \in [Units -> Conf \cup {None}]
  /\ running \in [Units -> Conf \cup {None}]
  /\ root \in Roots
  /\ schema \in Schemas
  /\ faults \in 0..MaxFaults

\* What no handler touches.
Frame == UNCHANGED <<leader, peers, notices, app, deferred, secret, storage, rel,
                     joined, reach, edits>>

\* A hook in the middle of update, or after it, is in a handler.
LEMMA InUpdate ==
  ASSUME WellFormed, NEW u \in Units,
         hook[u].pc \in {"manage", "bootstrap", "restart", "ensure"}
  PROVE  InHandler(hook[u])
BY DEF WellFormed, TypeOK, Control, InHandler

\* A handler that fails, returns or calls update keeps the databag.
LEMMA HandlerMoves ==
  ASSUME WellFormed, NEW u \in Units, NEW hk, InHandler(hk), Same(hk, hook[u]),
         \/ Set(u, Returned(hk)) \/ Set(u, Deferred(hk))
         \/ Set(u, Called(u, hk)) \/ Set(u, Updated(hk)) \/ Set(u, Restarting(hk))
  PROVE  HookMoves(u)
<1>1. /\ HookOK(u, Returned(hk)) /\ Same(Returned(hk), hook[u])
      /\ HookOK(u, Deferred(hk)) /\ Same(Deferred(hk), hook[u])
      /\ HookOK(u, Called(u, hk)) /\ Same(Called(u, hk), hook[u])
      /\ HookOK(u, Updated(hk)) /\ Same(Updated(hk), hook[u])
      /\ HookOK(u, Restarting(hk)) /\ Same(Restarting(hk), hook[u])
  BY ReturnedOK, DeferredOK, CalledOK, UpdatedOK, RestartingOK DEF Same
<1> QED
  BY <1>1, SameMoves

\* A handler that writes to the databag moves it forward when the write does.
LEMMA WriteMoves ==
  ASSUME WellFormed, NEW u \in Units, NEW hk, InHandler(hk), Same(hk, hook[u]),
         NEW a \in AppData, Advances(a, hk.app),
         NEW w, InHandler(w), w.app = a, w.deposed = hk.deposed,
         Set(u, Returned(w)) \/ Set(u, Restarting(w))
  PROVE  HookMoves(u)
<1>1. /\ HookOK(u, Returned(w)) /\ Same(Returned(w), w)
      /\ HookOK(u, Restarting(w)) /\ Same(Restarting(w), w)
  BY ReturnedOK, RestartingOK
<1>2. Forward(Returned(w), hook[u]) /\ Forward(Restarting(w), hook[u])
  BY <1>1 DEF Forward, Same
<1> QED
  BY <1>1, <1>2 DEF HookMoves

\* The handlers of PolarisEvents.
LEMMA PolarisMoves ==
  ASSUME WellFormed, NEW u \in Units,
         PolarisReconcile(u) \/ SecretChanged(u) \/ EnsureAgain(u)
  PROVE  HookMoves(u) /\ Contents' /\ Frame
<1>1. Contents /\ TypeOK
  BY DEF WellFormed, TypeOK, Contents, Roots, Schemas
<1>2. CASE PolarisReconcile(u)
  <2>1. InHandler(Entered(u, "polaris")) /\ Same(Entered(u, "polaris"), hook[u])
    BY <1>2, EnteredOK DEF PolarisReconcile
  <2>2. HookMoves(u) /\ root' \in Roots /\ faults' \in 0..MaxFaults
    BY <1>2, <2>1, ReconcileMoves DEF PolarisReconcile
  <2> QED
    BY <1>1, <1>2, <2>2
    DEF PolarisReconcile, Contents, Frame, juju, operator, workload
<1>3. CASE SecretChanged(u)
  <2> DEFINE hk == Entered(u, "secret")
  <2>1. InHandler(hk) /\ Same(hk, hook[u])
    BY <1>3, EnteredOK DEF SecretChanged
  <2>2. \/ Set(u, Returned(hk)) /\ UNCHANGED <<root, faults>>
        \/ Set(u, FailedHook(hk.kind)) /\ UNCHANGED <<root, faults>>
        \/ Reconcile(u, hk)
    BY <1>3 DEF SecretChanged
  <2>3. HookMoves(u)
    BY <2>1, <2>2, HandlerMoves, FailedMoves, ReconcileMoves DEF InHandler
  <2>4. root' \in Roots /\ faults' \in 0..MaxFaults
    BY <1>1, <2>1, <2>2, ReconcileMoves DEF Contents
  <2> QED
    BY <1>1, <1>3, <2>3, <2>4
    DEF SecretChanged, Contents, Frame, juju, operator, workload
<1>4. CASE EnsureAgain(u)
  <2> DEFINE hk == hook[u]
  <2>1. InHandler(hk) /\ Same(hk, hook[u]) /\ hk.app \in AppData
    BY <1>4, InUpdate DEF EnsureAgain, Same, InHandler, HookType
  <2>2. PICK o \in CredentialOutcomes(u, hk.app) :
          /\ Took(o)
          /\ Set(u, IF o.result = "PENDING" THEN Deferred(hk)
                    ELSE Returned(Wrote(hk, o.app)))
    BY <1>4 DEF EnsureAgain
  <2>3. o.app \in AppData /\ Advances(o.app, hk.app) /\ o.root \in Roots
    BY <1>1, <2>1, CredentialOutcomesAdvance DEF Roots
  <2>4. root' \in Roots /\ faults' \in 0..MaxFaults
    BY <1>1, <2>2, <2>3, PaidType DEF Took
  <2>5. HookMoves(u)
    <3>1. CASE o.result = "PENDING"
      BY <2>1, <2>2, <3>1, HandlerMoves
    <3>2. CASE o.result # "PENDING"
      <4>1. /\ InHandler(Wrote(hk, o.app)) /\ Wrote(hk, o.app).app = o.app
            /\ Wrote(hk, o.app).deposed = hk.deposed
        BY <2>1, <2>3, WroteOK
      <4> QED
        BY <2>1, <2>2, <2>3, <3>2, <4>1, WriteMoves
    <3> QED
      BY <3>1, <3>2
  <2>6. Contents' /\ Frame
    BY <1>1, <1>4, <2>4
    DEF EnsureAgain, Contents, Frame, juju, operator, workload
  <2> QED
    BY <2>5, <2>6
<1> QED
  BY <1>2, <1>3, <1>4

\* The handlers of the metastore, the object storage, the certificates and OAuth.
LEMMA IntegrationMoves ==
  ASSUME WellFormed, NEW u \in Units,
         \/ MetastoreReconcile(u) \/ MetastoreBroken(u)
         \/ S3Reconcile(u) \/ CertificatesReconcile(u) \/ OAuthReconcile(u)
  PROVE  HookMoves(u) /\ Contents' /\ Frame
<1>1. Contents /\ TypeOK
  BY DEF WellFormed, TypeOK, Contents, Roots, Schemas
<1>2. CASE MetastoreReconcile(u)
  <2> DEFINE hk == Entered(u, "metastore")
  <2>1. InHandler(hk) /\ Same(hk, hook[u]) /\ hk \in HookType
    BY <1>2, EnteredOK DEF MetastoreReconcile, InHandler
  <2>2. CASE (Set(u, Deferred(hk)) \/ Set(u, Returned(hk))) /\ UNCHANGED <<schema, faults>>
    <3>1. HookMoves(u)
      BY <2>1, <2>2, HandlerMoves
    <3> QED
      BY <1>1, <1>2, <2>2, <3>1
      DEF MetastoreReconcile, Contents, Frame, juju, operator, workload
  <2>3. CASE joined[u] # None /\ \E o \in SchemaOutcomes(u, hk) :
               /\ Paid(o.cost)
               /\ schema' = o.schema
               /\ LET known == [hk EXCEPT !.schema = o.ok]
                  IN Set(u, IF o.ok THEN Called(u, known) ELSE Returned(known))
    <3>1. PICK o \in SchemaOutcomes(u, hk) :
               /\ Paid(o.cost)
               /\ schema' = o.schema
               /\ LET known == [hk EXCEPT !.schema = o.ok]
                  IN Set(u, IF o.ok THEN Called(u, known) ELSE Returned(known))
      BY <2>3
    <3> DEFINE known == [hk EXCEPT !.schema = o.ok]
    <3>2. o.ok \in BOOLEAN /\ o.schema \in Schemas
      BY <1>1, <2>1, <2>3, SchemaOutcomesType
    <3>3. InHandler(known) /\ Same(known, hook[u])
      BY <2>1, <3>2 DEF InHandler, Same, HookType
    <3>4. Set(u, Called(u, known)) \/ Set(u, Returned(known))
      BY <3>1
    <3>5. HookMoves(u)
      BY <3>3, <3>4, HandlerMoves
    <3>6. faults' \in 0..MaxFaults
      BY <1>1, <3>1, PaidType
    <3> QED
      BY <1>1, <1>2, <3>1, <3>2, <3>5, <3>6
      DEF MetastoreReconcile, Contents, Frame, juju, operator, workload
  <2> QED
    BY <1>2, <2>2, <2>3 DEF MetastoreReconcile
<1>3. CASE MetastoreBroken(u)
  <2> DEFINE hk == Entered(u, "broken")
             a  == WithBootstrapped(hk.app, FALSE)
  <2>1. InHandler(hk) /\ Same(hk, hook[u]) /\ hk.app \in AppData
    BY <1>3, EnteredOK DEF MetastoreBroken, InHandler, HookType
  <2>2. Set(u, Returned(hk)) \/ Set(u, Returned(Wrote(hk, a)))
    BY <1>3 DEF MetastoreBroken
  <2>3. a \in AppData /\ Advances(a, hk.app)
    BY <2>1, WithBootstrappedAdvances
  <2>4. /\ InHandler(Wrote(hk, a)) /\ Wrote(hk, a).app = a
        /\ Wrote(hk, a).deposed = hk.deposed
    BY <2>1, <2>3, WroteOK
  <2>5. HookMoves(u)
    BY <2>1, <2>2, <2>3, <2>4, HandlerMoves, WriteMoves
  <2> QED
    BY <1>1, <1>3, <2>5
    DEF MetastoreBroken, Contents, Frame, juju, operator, database
<1>4. CASE S3Reconcile(u) \/ CertificatesReconcile(u) \/ OAuthReconcile(u)
  <2>1. PICK h \in Handlers, proceeds \in BOOLEAN, force \in BOOLEAN :
          ReconcileWorkload(u, h, proceeds, force)
    BY <1>1, <1>4 DEF Handlers, TypeOK, S3Reconcile, CertificatesReconcile, OAuthReconcile
  <2> DEFINE hk == Entered(u, h)
             forced == [hk EXCEPT !.restart = force]
  <2>2. InHandler(hk) /\ Same(hk, hook[u])
    BY <2>1, EnteredOK DEF ReconcileWorkload
  <2>3. InHandler(forced) /\ Same(forced, hook[u])
    BY <2>2 DEF InHandler, Same, HookType
  <2>4. Set(u, Deferred(hk)) \/ Set(u, Returned(hk)) \/ Set(u, Called(u, forced))
    BY <2>1 DEF ReconcileWorkload
  <2>5. HookMoves(u)
    BY <2>2, <2>3, <2>4, HandlerMoves
  <2> QED
    BY <1>1, <2>1, <2>5
    DEF ReconcileWorkload, Contents, Frame, juju, operator, workload, database
<1> QED
  BY <1>2, <1>3, <1>4

\* The steps of PolarisManager.update.
LEMMA UpdateMoves ==
  ASSUME WellFormed, NEW u \in Units, Update(u)
  PROVE  HookMoves(u) /\ Contents' /\ Frame
<1> DEFINE hk == hook[u]
<1>1. Contents /\ TypeOK
  BY DEF WellFormed, TypeOK, Contents, Roots, Schemas
<1>2. InHandler(hk) /\ Same(hk, hook[u]) /\ hk.app \in AppData /\ hk.kind \in Kinds
  BY InUpdate DEF Update, UpdateConfig, Bootstrap, BootstrapFails, Restart,
     RestartRaises, PebbleLost, Same, InHandler, HookType
<1>3. CASE UpdateConfig(u)
  <2> DEFINE conf == [password |-> hk.app.password, key |-> hk.app.key, db |-> joined[u]]
             next == [hk EXCEPT !.restart = NeedsRestart(u, hk, conf)]
  <2>1. joined[u] \in Databases /\ ClusterReady(hk.app)
    BY <1>1, <1>3 DEF UpdateConfig, WellFormed, Control, TypeOK
  <2>2. conf \in Conf
    BY <1>2, <2>1 DEF ClusterReady, AppData, Conf
  <2>3. NeedsRestart(u, hk, conf) \in BOOLEAN
    BY <1>2 DEF NeedsRestart, InHandler, HookType
  <2>4. InHandler(next) /\ Same(next, hook[u])
    BY <1>2, <2>3 DEF InHandler, Same, HookType
  <2> DEFINE b == [next EXCEPT !.pc = "bootstrap"]
  <2>5. HookOK(u, b) /\ Same(b, hook[u])
    BY <1>2, <1>3, <2>1, <2>4
    DEF InHandler, HookOK, Control, Same, HookType, UpdateConfig, WellFormed
  <2>6. HookMoves(u)
    <3>1. CASE Set(u, b)
      BY <2>5, <3>1, SameMoves
    <3>2. CASE Set(u, Restarting(next)) \/ Set(u, Updated(hk))
      BY <1>2, <2>4, <3>2, HandlerMoves
    <3> QED
      BY <1>3, <3>1, <3>2 DEF UpdateConfig
  <2> QED
    BY <1>1, <1>3, <2>2, <2>6
    DEF UpdateConfig, Contents, Frame, juju, operator, database
<1>4. CASE Bootstrap(u)
  <2> DEFINE a == WithBootstrapped(hk.app, TRUE)
             w == Wrote(hk, a)
             r == [w EXCEPT !.restart = @ \/ ~hk.app.bootstrapped]
  <2>1. joined[u] \in Databases /\ hk.app.password \in Passwords
    BY <1>1, <1>2, <1>4 DEF Bootstrap, WellFormed, Control, TypeOK, ClusterReady, AppData
  <2>2. root' \in Roots
    BY <1>1, <1>4, <2>1 DEF Bootstrap, Bootstrapped, Roots, Contents
  <2>3. a \in AppData /\ Advances(a, hk.app)
    BY <1>2, WithBootstrappedAdvances
  <2>4. InHandler(w) /\ w.app = a /\ w.deposed = hk.deposed
    BY <1>2, <2>3, WroteOK
  <2>5. InHandler(r) /\ r.app = a /\ r.deposed = hk.deposed
    BY <2>4 DEF InHandler, HookType
  <2>6. Set(u, FailedHook(hk.kind)) \/ Set(u, Restarting(r))
    BY <1>4 DEF Bootstrap
  <2>7. HookMoves(u)
    BY <1>2, <2>3, <2>5, <2>6, FailedMoves, WriteMoves
  <2> QED
    BY <1>1, <1>4, <2>2, <2>7
    DEF Bootstrap, Contents, Frame, juju, operator, workload
<1>5. CASE BootstrapFails(u)
  <2>1. joined[u] \in Databases /\ hk.app.password \in Passwords
    BY <1>1, <1>2, <1>5 DEF BootstrapFails, WellFormed, Control, TypeOK, ClusterReady, AppData
  <2>2. root' \in Roots /\ faults' \in 0..MaxFaults
    BY <1>1, <1>5, <2>1, FaultType DEF BootstrapFails, Bootstrapped, Roots, Contents
  <2>3. HookMoves(u)
    BY <1>2, <1>5, HandlerMoves DEF BootstrapFails
  <2> QED
    BY <1>1, <1>5, <2>2, <2>3
    DEF BootstrapFails, Contents, Frame, juju, operator, workload
<1>6. CASE Restart(u)
  <2>1. HookMoves(u)
    BY <1>2, <1>6, HandlerMoves DEF Restart
  <2>2. running' \in [Units -> Conf \cup {None}]
    BY <1>1, <1>6 DEF Restart, Contents
  <2> QED
    BY <1>1, <1>6, <2>1, <2>2 DEF Restart, Contents, Frame, juju, operator, database
<1>7. CASE RestartRaises(u)
  <2>1. HookMoves(u)
    BY <1>2, <1>7, FailedMoves DEF RestartRaises
  <2>2. running' \in [Units -> Conf \cup {None}] /\ faults' \in 0..MaxFaults
    BY <1>1, <1>7, FaultType DEF RestartRaises, Contents
  <2> QED
    BY <1>1, <1>7, <2>1, <2>2 DEF RestartRaises, Contents, Frame, juju, operator, database
<1>8. CASE PebbleLost(u)
  <2>1. HookMoves(u)
    BY <1>2, <1>8, FailedMoves DEF PebbleLost
  <2> QED
    BY <1>1, <1>8, <2>1 DEF PebbleLost, Contents, Frame, juju, operator, workload, database
<1> QED
  BY <1>3, <1>4, <1>5, <1>6, <1>7, <1>8 DEF Update

-------------------------------------------------------------------------------
(* Type correctness                                                         *)

\* Giving a unit a well formed hook keeps all hooks well formed.
LEMMA SetOK ==
  ASSUME WellFormed, NEW u \in Units, NEW hk, HookOK(u, hk), Set(u, hk), joined' = joined
  PROVE  hook' \in [Units -> HookType] /\ \A v \in Units : Control(v, hook[v])'
<1>1. hook \in [Units -> HookType] /\ \A v \in Units : Control(v, hook[v])
  BY DEF WellFormed, TypeOK
<1>2. hook' = [hook EXCEPT ![u] = hk] /\ hk \in HookType /\ Control(u, hk)
  BY DEF Set, HookOK
<1>3. ASSUME NEW v \in Units PROVE Control(v, hook[v])'
  <2>1. CASE v = u
    BY <1>1, <1>2, <2>1 DEF Control
  <2>2. CASE v # u
    <3>1. hook'[v] = hook[v] /\ Control(v, hook[v])
      BY <1>1, <1>2, <2>2
    <3> QED
      BY <3>1 DEF Control
  <2> QED
    BY <2>1, <2>2
<1> QED
  BY <1>1, <1>2, <1>3

\* A step of a hook keeps the state well formed.
LEMMA MovesWellFormed ==
  ASSUME WellFormed, NEW u \in Units, HookMoves(u), Contents', Frame
  PROVE  WellFormed'
<1>1. PICK hk : HookOK(u, hk) /\ Set(u, hk)
  BY DEF HookMoves
<1>2. hook' \in [Units -> HookType] /\ \A v \in Units : Control(v, hook[v])'
  BY <1>1, SetOK DEF Frame
<1> QED
  BY <1>2 DEF WellFormed, TypeOK, Contents, Frame, Roots, Schemas

\* What Juju does with hooks keeps the state well formed.
LEMMA JujuWellFormed ==
  ASSUME WellFormed, NEW u \in Units,
         \/ Commit(u) \/ CommitRefused(u) \/ Abort(u) \/ Retry(u)
         \/ \E kind \in Kinds : Dispatch(u, kind)
  PROVE  WellFormed'
<1>1. TypeOK /\ hook[u] \in HookType /\ (hook[u].pc # "idle" => hook[u].kind \in Kinds)
  BY DEF WellFormed, TypeOK, Control
<1>2. ASSUME Collected(u) PROVE schema' \in Schemas /\ faults' \in 0..MaxFaults
  <2>1. CASE joined[u] = None
    BY <1>1, <1>2, <2>1 DEF Collected, TypeOK, Schemas
  <2>2. CASE joined[u] # None
    <3>1. PICK o \in SchemaOutcomes(u, hook[u]) : schema' = o.schema /\ Paid(o.cost)
      BY <1>2, <2>2 DEF Collected
    <3> QED
      BY <1>1, <2>2, <3>1, SchemaOutcomesType, PaidType
  <2> QED
    BY <2>1, <2>2
<1>3. CASE Commit(u)
  <2>1. hook' \in [Units -> HookType] /\ \A v \in Units : Control(v, hook[v])'
    BY <1>3, IdleHookOK, SetOK DEF Commit
  <2>2. app' \in AppData /\ deferred' \in [Units -> SUBSET Handlers]
    BY <1>1, <1>3 DEF Commit, TypeOK, HookType
  <2>3. schema' \in Schemas /\ faults' \in 0..MaxFaults
    BY <1>2, <1>3 DEF Commit
  <2> QED
    BY <1>1, <1>3, <2>1, <2>2, <2>3
    DEF Commit, WellFormed, TypeOK, juju, operator, workload, Schemas
<1>4. CASE CommitRefused(u)
  <2>1. hook[u].kind \in Kinds
    BY <1>1, <1>4 DEF CommitRefused, Done
  <2>2. hook' \in [Units -> HookType] /\ \A v \in Units : Control(v, hook[v])'
    BY <1>4, <2>1, FailedHookOK, SetOK DEF CommitRefused
  <2>3. schema' \in Schemas /\ faults' \in 0..MaxFaults
    BY <1>2, <1>4 DEF CommitRefused
  <2> QED
    BY <1>1, <1>4, <2>2, <2>3
    DEF CommitRefused, WellFormed, TypeOK, juju, operator, workload, Schemas
<1>5. CASE Abort(u)
  <2>1. hook[u].kind \in Kinds
    BY <1>1, <1>5 DEF Abort, InHook
  <2>2. hook' \in [Units -> HookType] /\ \A v \in Units : Control(v, hook[v])'
    BY <1>5, <2>1, FailedHookOK, SetOK DEF Abort
  <2>3. faults' \in 0..MaxFaults
    BY <1>1, <1>5, FaultType DEF Abort
  <2> QED
    BY <1>1, <1>5, <2>2, <2>3
    DEF Abort, WellFormed, TypeOK, juju, operator, workload, database
<1>6. CASE Retry(u)
  <2>1. hook[u].kind \in Kinds
    BY <1>1, <1>6 DEF Retry
  <2>2. hook' \in [Units -> HookType] /\ \A v \in Units : Control(v, hook[v])'
    BY <1>1, <1>6, <2>1, NewHookOK, SetOK DEF Retry
  <2> QED
    BY <1>1, <1>6, <2>2
    DEF Retry, WellFormed, TypeOK, juju, operator, workload, database
<1>7. ASSUME NEW kind \in Kinds, Dispatch(u, kind) PROVE WellFormed'
  <2>1. HookOK(u, NewHook(u, kind)) /\ NewHook(u, kind).pc = "run"
    BY <1>1, NewHookOK DEF NewHook
  <2>2. hook' \in [Units -> HookType]
    BY <1>1, <1>7, <2>1 DEF Dispatch, Set, HookOK, TypeOK
  <2>3. joined' \in [Units -> Databases \cup {None}]
    BY <1>1, <1>7 DEF Dispatch, TypeOK
  <2>4. ASSUME NEW v \in Units PROVE Control(v, hook[v])'
    <3>1. CASE v = u
      <4>1. hook'[v] = NewHook(u, kind)
        BY <1>1, <1>7, <3>1 DEF Dispatch, Set, TypeOK
      <4> QED
        BY <2>1, <4>1 DEF HookOK, Control
    <3>2. CASE v # u
      <4>1. hook'[v] = hook[v] /\ joined'[v] = joined[v] /\ Control(v, hook[v])
        BY <1>1, <1>7, <3>2 DEF Dispatch, Set, TypeOK, WellFormed
      <4> QED
        BY <4>1 DEF Control
    <3> QED
      BY <3>1, <3>2
  <2>5. notices' \in [Units -> SUBSET Kinds]
    BY <1>1, <1>7 DEF Dispatch, TypeOK
  <2> QED
    BY <1>1, <1>7, <2>2, <2>3, <2>4, <2>5
    DEF Dispatch, WellFormed, TypeOK, operator, workload, database
<1> QED
  BY <1>3, <1>4, <1>5, <1>6, <1>7

\* What Juju, Kubernetes and the operator do keeps the state well formed.
LEMMA EnvironmentWellFormed ==
  ASSUME WellFormed, Environment
  PROVE  WellFormed'
<1>1. TypeOK /\ \A v \in Units : Control(v, hook[v])
  BY DEF WellFormed
<1>2. ASSUME hook' = hook, joined' = joined
      PROVE  hook' \in [Units -> HookType] /\ \A v \in Units : Control(v, hook[v])'
  BY <1>1, <1>2 DEF TypeOK, Control
<1>3. ASSUME NEW v \in Units, Elect(v) PROVE WellFormed'
  <2>1. hook' = [hook EXCEPT ![leader].deposed = InHook(leader)] /\ joined' = joined
    BY <1>3 DEF Elect, operator
  <2>2. hook' \in [Units -> HookType]
    <3> DEFINE old == hook[leader]
    <3>1. InHook(leader) \in BOOLEAN
      BY DEF InHook
    <3>2. old \in HookType /\ leader \in Units
      BY <1>1 DEF TypeOK
    <3>3. ASSUME NEW b \in BOOLEAN PROVE [old EXCEPT !.deposed = b] \in HookType
      BY <3>2 DEF HookType
    <3>4. hook' = [hook EXCEPT ![leader] = [old EXCEPT !.deposed = InHook(leader)]]
      BY <2>1
    <3> QED
      BY <1>1, <3>1, <3>2, <3>3, <3>4 DEF TypeOK
  <2>3. ASSUME NEW w \in Units PROVE Control(w, hook[w])'
    <3>1. /\ hook'[w].pc = hook[w].pc /\ hook'[w].kind = hook[w].kind
          /\ hook'[w].cur = hook[w].cur /\ hook'[w].app = hook[w].app
      BY <1>1, <2>1 DEF TypeOK, HookType
    <3> QED
      BY <1>1, <2>1, <3>1 DEF Control
  <2>4. faults' \in 0..MaxFaults
    BY <1>1, <1>3, FaultType DEF Elect
  <2> QED
    BY <1>1, <1>3, <2>2, <2>3, <2>4
    DEF Elect, WellFormed, TypeOK, operator, workload, database
<1>4. ASSUME NEW v \in Units, ContainerRestart(v) PROVE WellFormed'
  <2>1. faults' \in 0..MaxFaults
    BY <1>1, <1>4, FaultType DEF ContainerRestart
  <2> QED
    BY <1>1, <1>2, <1>4, <2>1
    DEF ContainerRestart, WellFormed, TypeOK, juju, operator, database
<1>5. ASSUME NEW v \in Units, PebbleUp(v) PROVE WellFormed'
  <2>1. notices' \in [Units -> SUBSET Kinds]
    BY <1>1, <1>5 DEF PebbleUp, TypeOK, Kinds
  <2> QED
    BY <1>1, <1>2, <1>5, <2>1 DEF PebbleUp, WellFormed, TypeOK, operator, database
<1>6. ASSUME NEW v \in Units, MetastoreJoined(v) PROVE WellFormed'
  <2>1. joined' \in [Units -> Databases \cup {None}]
    BY <1>1, <1>6 DEF MetastoreJoined, TypeOK
  <2>2. ASSUME NEW w \in Units PROVE Control(w, hook[w])'
    <3>1. CASE w = v
      BY <1>1, <1>6, <3>1 DEF MetastoreJoined, Control
    <3>2. CASE w # v
      <4>1. hook'[w] = hook[w] /\ joined'[w] = joined[w] /\ Control(w, hook[w])
        BY <1>1, <1>6, <3>2 DEF MetastoreJoined, TypeOK
      <4> QED
        BY <4>1 DEF Control
    <3> QED
      BY <3>1, <3>2
  <2> QED
    BY <1>1, <1>6, <2>1, <2>2
    DEF MetastoreJoined, WellFormed, TypeOK, juju, operator, workload, database
<1>7. CASE CreatePeers
  BY <1>1, <1>2, <1>7 DEF CreatePeers, WellFormed, TypeOK, operator, workload, database
<1>8. CASE SetSystemUser \/ ToggleStorage \/ RelateMetastore
  <2>1. edits' \in 0..MaxEdits
    BY <1>1, <1>8, ConstantsAssumption
    DEF SetSystemUser, ToggleStorage, RelateMetastore, Edit, TypeOK
  <2>2. secret' \in Secrets /\ storage' \in BOOLEAN /\ rel' \in Databases \cup {None}
    BY <1>1, <1>8 DEF SetSystemUser, ToggleStorage, RelateMetastore, TypeOK
  <2> QED
    BY <1>1, <1>2, <1>8, <2>1, <2>2
    DEF SetSystemUser, ToggleStorage, RelateMetastore, WellFormed, TypeOK, juju,
        workload, database
<1>9. CASE RemoveMetastore
  <2>1. edits' \in 0..MaxEdits
    BY <1>1, <1>9, ConstantsAssumption DEF RemoveMetastore, Edit, TypeOK
  <2>2. notices' \in [Units -> SUBSET Kinds] /\ rel' \in Databases \cup {None}
    BY <1>1, <1>9 DEF RemoveMetastore, TypeOK, Kinds
  <2> QED
    BY <1>1, <1>2, <1>9, <2>1, <2>2
    DEF RemoveMetastore, WellFormed, TypeOK, workload, database
<1> QED
  BY <1>3, <1>4, <1>5, <1>6, <1>7, <1>8, <1>9 DEF Environment

\* A handler or a step of update is a move of the hook.
LEMMA HookStepMoves ==
  ASSUME WellFormed, NEW u \in Units, Handle(u) \/ Update(u)
  PROVE  HookMoves(u) /\ Contents' /\ Frame
BY PolarisMoves, IntegrationMoves, UpdateMoves DEF Handle

LEMMA InitWellFormed ==
  ASSUME Init
  PROVE  WellFormed
<1>1. \A u \in Units : HookOK(u, IdleHook)
  BY IdleHookOK
<1>2. \A u \in Units : hook[u] = IdleHook
  BY DEF Init
<1>3. hook \in [Units -> HookType] /\ \A u \in Units : Control(u, hook[u])
  BY <1>1, <1>2 DEF Init, HookOK
<1>4. app \in AppData
  BY EmptyAppType DEF Init
<1>5. faults \in 0..MaxFaults /\ edits \in 0..MaxEdits /\ peers \in BOOLEAN
  BY ConstantsAssumption DEF Init
<1> QED
  BY <1>3, <1>4, <1>5 DEF Init, WellFormed, TypeOK, Secrets

LEMMA NextWellFormed ==
  ASSUME WellFormed, [Next]_vars
  PROVE  WellFormed'
<1>1. CASE UNCHANGED vars
  <2>1. \A u \in Units : Control(u, hook[u])'
    BY <1>1 DEF WellFormed, Control, vars
  <2> QED
    BY <1>1, <2>1 DEF WellFormed, TypeOK, vars
<1>2. ASSUME NEW u \in Units, Handle(u) \/ Update(u) PROVE WellFormed'
  BY <1>2, HookStepMoves, MovesWellFormed
<1> QED
  BY <1>1, <1>2, JujuWellFormed, EnvironmentWellFormed DEF Next, HookStep

\* The state is well typed, whatever the constants: in particular no handler
\* writes a configuration without a password, a key and a database.
THEOREM TypeCorrect == Spec => []TypeOK
<1>1. Init => WellFormed
  BY InitWellFormed
<1>2. WellFormed /\ [Next]_vars => WellFormed'
  BY NextWellFormed
<1>3. WellFormed => TypeOK
  BY DEF WellFormed
<1> QED
  BY <1>1, <1>2, <1>3, PTL DEF Spec

-------------------------------------------------------------------------------
(* The committed credentials                                                *)
(*                                                                          *)
(* A hook reads the databag once and writes it back when it commits.  That  *)
(* no commit undoes another is because a hook that may flush is one of the  *)
(* leader and has been all along, so that nobody else committed meanwhile.  *)

\* A hook that may still commit has a databag after the committed one.
Fresh ==
  \A u \in Units :
    InHook(u) /\ u = leader /\ ~hook[u].deposed => Advances(hook[u].app, app)

Consistent == WellFormed /\ Fresh

\* No unit gets the lease while it is in a hook, which Juju is taken to ensure.
NoPromotion == "promote" \notin Faults

\* A handler or a step of update is one of a hook in progress.
LEMMA HookStepInHook ==
  ASSUME NEW u \in Units, Handle(u) \/ Update(u)
  PROVE  InHook(u)
BY DEF InHook, Handle, Update, PolarisReconcile, SecretChanged, EnsureAgain,
   MetastoreReconcile, MetastoreBroken, S3Reconcile, CertificatesReconcile,
   OAuthReconcile, ReconcileWorkload, Ready, UpdateConfig, Bootstrap, BootstrapFails,
   Restart, RestartRaises, PebbleLost

\* What a handler writes comes after what is committed.
LEMMA MovesFresh ==
  ASSUME Consistent, NEW u \in Units, InHook(u), HookMoves(u), Frame
  PROVE  Fresh'
<1>1. PICK hk : HookOK(u, hk) /\ Forward(hk, hook[u]) /\ Set(u, hk)
  BY DEF HookMoves
<1>2. /\ app \in AppData /\ hook[u].app \in AppData /\ hk.app \in AppData
      /\ hook \in [Units -> HookType]
  BY <1>1 DEF Consistent, WellFormed, TypeOK, HookType, HookOK
<1>3. hook' = [hook EXCEPT ![u] = hk] /\ app' = app /\ leader' = leader
  BY <1>1 DEF Set, Frame
<1>4. ASSUME NEW v \in Units, InHook(v)', v = leader', ~hook'[v].deposed
      PROVE  Advances(hook[v].app, app)'
  <2>1. CASE v = u
    <3>1. hook'[v] = hk /\ hk.pc \notin {"idle", "error"} /\ ~hk.deposed
      BY <1>2, <1>3, <1>4, <2>1 DEF InHook
    <3>2. Advances(hk.app, hook[u].app) /\ ~hook[u].deposed
      BY <1>1, <3>1 DEF Forward
    <3>3. Advances(hook[u].app, app)
      BY <1>3, <1>4, <2>1, <3>2 DEF Consistent, Fresh
    <3>4. Advances(hk.app, app)
      BY <1>2, <3>2, <3>3, AdvancesTransitive
    <3> QED
      BY <1>3, <3>1, <3>4 DEF Advances
  <2>2. CASE v # u
    <3>1. hook'[v] = hook[v]
      BY <1>2, <1>3, <2>2
    <3>2. Advances(hook[v].app, app)
      BY <1>3, <1>4, <3>1 DEF Consistent, Fresh, InHook
    <3> QED
      BY <1>3, <3>1, <3>2 DEF Advances
  <2> QED
    BY <2>1, <2>2
<1> QED
  BY <1>4 DEF Fresh

\* Steps that leave the databag, the lease and the hooks in progress alone.
LEMMA QuietFresh ==
  ASSUME Consistent, app' = app, leader' = leader,
         \A u \in Units : InHook(u)' => InHook(u) /\ hook'[u] = hook[u]
  PROVE  Fresh'
<1>1. ASSUME NEW u \in Units, InHook(u)', u = leader', ~hook'[u].deposed
      PROVE  Advances(hook[u].app, app)'
  <2>1. Advances(hook[u].app, app) /\ hook'[u] = hook[u]
    BY <1>1 DEF Consistent, Fresh
  <2> QED
    BY <2>1 DEF Advances
<1> QED
  BY <1>1 DEF Fresh

\* Only the hook of the leader commits, and it had its databag from the last one
\* that did.
LEMMA CommitFresh ==
  ASSUME Consistent, NEW u \in Units, Commit(u)
  PROVE  Fresh' /\ Advances(app', app)
<1>1. hook \in [Units -> HookType] /\ app \in AppData
  BY DEF Consistent, WellFormed, TypeOK
<1>2. leader' = leader /\ hook' = [hook EXCEPT ![u] = IdleHook] /\ InHook(u)
  BY DEF Commit, Set, Done, juju, InHook
<1>3. \A v \in Units : InHook(v)' => v # u /\ InHook(v) /\ hook'[v] = hook[v]
  BY <1>1, <1>2 DEF InHook, IdleHook
<1>4. CASE ~hook[u].wrote
  <2>1. app' = app
    BY <1>4 DEF Commit
  <2> QED
    BY <1>1, <1>2, <1>3, <2>1, QuietFresh, AdvancesReflexive
<1>5. CASE hook[u].wrote
  <2>1. app' = hook[u].app /\ leader = u /\ ~hook[u].deposed
    BY <1>5 DEF Commit, MayFlush
  <2>2. Advances(app', app)
    BY <1>2, <2>1 DEF Consistent, Fresh
  <2>3. Fresh'
    BY <1>2, <1>3, <2>1 DEF Fresh
  <2> QED
    BY <2>2, <2>3
<1> QED
  BY <1>4, <1>5

\* A hook that starts takes the committed databag.
LEMMA StartFresh ==
  ASSUME Consistent, NEW u \in Units, NEW kind, Set(u, NewHook(u, kind)),
         app' = app, leader' = leader
  PROVE  Fresh'
<1>1. hook \in [Units -> HookType] /\ app \in AppData
  BY DEF Consistent, WellFormed, TypeOK
<1>2. ASSUME NEW v \in Units, InHook(v)', v = leader', ~hook'[v].deposed
      PROVE  Advances(hook[v].app, app)'
  <2>1. CASE v = u
    <3>1. hook'[v].app = app
      BY <1>1, <2>1 DEF Set, NewHook
    <3> QED
      BY <1>1, <3>1, AdvancesReflexive
  <2>2. CASE v # u
    <3>1. hook'[v] = hook[v]
      BY <1>1, <2>2 DEF Set
    <3>2. Advances(hook[v].app, app)
      BY <1>2, <3>1 DEF Consistent, Fresh, InHook
    <3> QED
      BY <3>1, <3>2 DEF Advances
  <2> QED
    BY <2>1, <2>2
<1> QED
  BY <1>2 DEF Fresh

\* The environment commits nothing, and moves the lease to no unit in a hook.
LEMMA EnvironmentFresh ==
  ASSUME NoPromotion, Consistent, Environment
  PROVE  Fresh' /\ app' = app
<1>1. hook \in [Units -> HookType] /\ leader \in Units
  BY DEF Consistent, WellFormed, TypeOK
<1>2. ASSUME NEW v \in Units, Elect(v) PROVE Fresh' /\ app' = app
  <2>1. /\ leader' = v /\ v # leader /\ app' = app
        /\ hook' = [hook EXCEPT ![leader].deposed = InHook(leader)]
    BY <1>2 DEF Elect
  <2>2. ~InHook(v)
    BY <1>2 DEF Elect, Fault, NoPromotion
  <2>3. hook'[v] = hook[v] /\ ~InHook(v)'
    BY <1>1, <2>1, <2>2 DEF InHook
  <2> QED
    BY <2>1, <2>3 DEF Fresh
<1>3. CASE \/ \E v \in Units : ContainerRestart(v) \/ PebbleUp(v) \/ MetastoreJoined(v)
           \/ CreatePeers \/ SetSystemUser \/ ToggleStorage
           \/ RelateMetastore \/ RemoveMetastore
  <2>1. hook' = hook /\ app' = app /\ leader' = leader
    BY <1>3 DEF ContainerRestart, PebbleUp, MetastoreJoined, CreatePeers, SetSystemUser,
       ToggleStorage, RelateMetastore, RemoveMetastore, juju
  <2> QED
    BY <2>1, QuietFresh DEF InHook
<1> QED
  BY <1>2, <1>3 DEF Environment

\* No step takes the committed credentials back.
LEMMA NextFresh ==
  ASSUME NoPromotion, Consistent, [Next]_vars
  PROVE  Fresh' /\ Advances(app', app)
<1>1. app \in AppData /\ hook \in [Units -> HookType] /\ Advances(app, app)
  <2>1. app \in AppData /\ hook \in [Units -> HookType]
    BY DEF Consistent, WellFormed, TypeOK
  <2> QED
    BY <2>1, AdvancesReflexive
<1>2. CASE UNCHANGED vars
  <2>1. app' = app /\ leader' = leader /\ hook' = hook
    BY <1>2 DEF vars
  <2> QED
    BY <1>1, <2>1, QuietFresh DEF InHook
<1>3. ASSUME NEW u \in Units, Handle(u) \/ Update(u) PROVE Fresh' /\ Advances(app', app)
  <2>1. HookMoves(u) /\ Frame /\ InHook(u)
    BY <1>3, HookStepMoves, HookStepInHook DEF Consistent
  <2> QED
    BY <1>1, <2>1, MovesFresh DEF Frame
<1>4. ASSUME NEW u \in Units, CommitRefused(u) \/ Abort(u) PROVE Fresh' /\ Advances(app', app)
  <2>1. /\ hook' = [hook EXCEPT ![u] = FailedHook(hook[u].kind)]
        /\ app' = app /\ leader' = leader
    BY <1>4 DEF CommitRefused, Abort, Set, juju
  <2>2. FailedHook(hook[u].kind).pc = "error"
    BY DEF FailedHook, IdleHook
  <2>3. \A v \in Units : InHook(v)' => InHook(v) /\ hook'[v] = hook[v]
    BY <1>1, <2>1, <2>2 DEF InHook
  <2> QED
    BY <1>1, <2>1, <2>3, QuietFresh
<1>5. ASSUME NEW u \in Units, Retry(u) PROVE Fresh' /\ Advances(app', app)
  <2>1. Set(u, NewHook(u, hook[u].kind)) /\ app' = app /\ leader' = leader
    BY <1>5 DEF Retry, juju
  <2> QED
    BY <1>1, <2>1, StartFresh
<1>6. ASSUME NEW u \in Units, NEW kind \in Kinds, Dispatch(u, kind)
      PROVE  Fresh' /\ Advances(app', app)
  <2>1. Set(u, NewHook(u, kind)) /\ app' = app /\ leader' = leader
    BY <1>6 DEF Dispatch
  <2> QED
    BY <1>1, <2>1, StartFresh
<1>7. CASE Environment
  BY <1>1, <1>7, EnvironmentFresh
<1> QED
  BY <1>2, <1>3, <1>4, <1>5, <1>6, <1>7, CommitFresh DEF Next, HookStep

LEMMA InitConsistent ==
  ASSUME Init
  PROVE  Consistent
BY InitWellFormed DEF Consistent, Fresh, InHook, Init, IdleHook

\* The databag of a hook that may still commit is never behind the committed one.
THEOREM CredentialsConsistent ==
  ASSUME NoPromotion
  PROVE  Spec => []Consistent
<1>1. Init => Consistent
  BY InitConsistent
<1>2. Consistent /\ [Next]_vars => Consistent'
  BY NextFresh, NextWellFormed DEF Consistent
<1> QED
  BY <1>1, <1>2, PTL DEF Spec

\* The token broker key is never replaced, however hooks, failures and elections
\* interleave.
THEOREM KeyKept ==
  ASSUME NoPromotion
  PROVE  Spec => KeyIsWriteOnce
<1>1. Consistent /\ [Next]_vars => [app.key # None => app'.key = app.key]_vars
  BY NextFresh DEF Advances
<1> QED
  BY <1>1, CredentialsConsistent, PTL DEF Spec, KeyIsWriteOnce

\* No commit changes the admin password without moving the epoch, so that no unit
\* misses the change.
THEOREM PasswordAnnounced ==
  ASSUME NoPromotion
  PROVE  Spec => EpochAnnouncesPassword
<1>1. Consistent /\ [Next]_vars => [app'.password # app.password => app'.epoch > app.epoch]_vars
  BY NextFresh DEF Advances
<1> QED
  BY <1>1, CredentialsConsistent, PTL DEF Spec, EpochAnnouncesPassword

\* A password in force is only ever replaced by one an operator put in the secret.
THEOREM PasswordKept ==
  ASSUME NoPromotion
  PROVE  Spec => OnlyOperatorReplacesPassword
<1>1. Consistent /\ [Next]_vars
        => [app.password # None => app'.password \in UserPasswords \cup {app.password}]_vars
  BY NextFresh DEF Advances
<1> QED
  BY <1>1, CredentialsConsistent, PTL DEF Spec, OnlyOperatorReplacesPassword

-------------------------------------------------------------------------------
(* How the root principals of the databases change                          *)

\* What Credentials lets happen to them: one is created, or gets a password of the
\* operator.
Permitted(r) ==
  \/ r = root
  \/ \E d \in Databases :
       \/ root[d] = None /\ \E p \in Passwords : r = [root EXCEPT ![d] = p]
       \/ root[d] # None /\ \E p \in UserPasswords : r = [root EXCEPT ![d] = p]

\* A password that replaces one in force is the operator's, and a reset takes the
\* password of a root principal that exists.
LEMMA ResetPermitted ==
  ASSUME TypeOK, NEW u \in Units, NEW a \in AppData, a.password # None,
         NEW p \in WantedPasswords(a), p # a.password,
         NEW o \in ResetOutcomes(u, a.password, p)
  PROVE  Permitted(o.root)
<1>1. p \in UserPasswords
  BY WantedPasswordsType
<1>2. running[u] # None => running[u].db \in Databases
  BY DEF TypeOK, Conf
<1> QED
  BY <1>1, <1>2 DEF ResetOutcomes, Permitted

\* _ensure_admin_credentials resets at most one database.
LEMMA CredentialOutcomesPermitted ==
  ASSUME TypeOK, NEW u \in Units, NEW a \in AppData, NEW o \in CredentialOutcomes(u, a)
  PROVE  Permitted(o.root)
<1>1. CASE leader # u \/ secret \in {Inaccessible, Invalid}
  BY <1>1 DEF CredentialOutcomes, Permitted
<1>2. CASE ~(leader # u \/ secret \in {Inaccessible, Invalid})
  <2>1. PICK p \in WantedPasswords(a) :
          \/ o.root = root
          \/ /\ a.password # p /\ a.password # None
             /\ \E r \in ResetOutcomes(u, a.password, p) : o.root = r.root
    BY <1>2 DEF CredentialOutcomes
  <2>2. CASE o.root = root
    BY <2>2 DEF Permitted
  <2>3. CASE o.root # root
    <3>1. PICK r \in ResetOutcomes(u, a.password, p) : o.root = r.root
      BY <2>1, <2>3
    <3>2. Permitted(r.root)
      BY <2>1, <2>3, ResetPermitted
    <3> QED
      BY <3>1, <3>2
  <2> QED
    BY <2>2, <2>3
<1> QED
  BY <1>1, <1>2

\* PolarisEvents.reconcile
LEMMA ReconcilePermitted ==
  ASSUME TypeOK, NEW u \in Units, NEW hk, hk.app \in AppData, Reconcile(u, hk)
  PROVE  Permitted(root')
<1>1. CASE ~peers \/ ~reach[u]
  BY <1>1 DEF Reconcile, Permitted
<1>2. CASE ~(~peers \/ ~reach[u])
  <2>1. PICK o \in CredentialOutcomes(u, hk.app) : root' = o.root
    BY <1>2 DEF Reconcile, Took
  <2> QED
    BY <2>1, CredentialOutcomesPermitted
<1> QED
  BY <1>1, <1>2

\* The bootstrap command creates a root principal or changes nothing.
LEMMA BootstrappedPermitted ==
  ASSUME WellFormed, NEW u \in Units, hook[u].pc = "bootstrap"
  PROVE  Permitted(Bootstrapped(joined[u], hook[u].app.password))
<1>1. joined[u] \in Databases
  BY DEF WellFormed, TypeOK, Control
<1>2. hook[u].app.password \in Passwords
  BY DEF WellFormed, TypeOK, Control, HookType, AppData, ClusterReady
<1> QED
  BY <1>1, <1>2 DEF Bootstrapped, Permitted

\* A handler or a step of update.
LEMMA HookStepPermitted ==
  ASSUME WellFormed, NEW u \in Units, Handle(u) \/ Update(u)
  PROVE  Permitted(root') /\ app' = app
<1>1. app' = app
  BY HookStepMoves DEF Frame
<1>2. /\ TypeOK /\ hook[u].app \in AppData
      /\ \A h : Entered(u, h).app \in AppData
  BY DEF WellFormed, TypeOK, HookType, Entered
<1>3. CASE PolarisReconcile(u)
  BY <1>1, <1>2, <1>3, ReconcilePermitted DEF PolarisReconcile
<1>4. CASE SecretChanged(u)
  <2>1. root' = root \/ Reconcile(u, Entered(u, "secret"))
    BY <1>4 DEF SecretChanged
  <2> QED
    BY <1>1, <1>2, <2>1, ReconcilePermitted DEF Permitted
<1>5. CASE EnsureAgain(u)
  <2>1. PICK o \in CredentialOutcomes(u, hook[u].app) : root' = o.root
    BY <1>5 DEF EnsureAgain, Took
  <2> QED
    BY <1>1, <1>2, <2>1, CredentialOutcomesPermitted
<1>6. CASE Bootstrap(u) \/ BootstrapFails(u)
  <2>1. /\ hook[u].pc = "bootstrap"
        /\ root' \in {root, Bootstrapped(joined[u], hook[u].app.password)}
    BY <1>6 DEF Bootstrap, BootstrapFails
  <2>2. Permitted(root)
    BY DEF Permitted
  <2>3. Permitted(Bootstrapped(joined[u], hook[u].app.password))
    BY <2>1, BootstrappedPermitted
  <2> QED
    BY <1>1, <2>1, <2>2, <2>3
<1>7. CASE \/ MetastoreReconcile(u) \/ MetastoreBroken(u)
           \/ S3Reconcile(u) \/ CertificatesReconcile(u) \/ OAuthReconcile(u)
           \/ UpdateConfig(u) \/ Restart(u) \/ RestartRaises(u) \/ PebbleLost(u)
  <2>1. root' = root
    BY <1>7 DEF MetastoreReconcile, MetastoreBroken, S3Reconcile, CertificatesReconcile,
       OAuthReconcile, ReconcileWorkload, UpdateConfig, Restart, RestartRaises,
       PebbleLost, database
  <2> QED
    BY <1>1, <2>1 DEF Permitted
<1> QED
  BY <1>1, <1>3, <1>4, <1>5, <1>6, <1>7 DEF Handle, Update

-------------------------------------------------------------------------------
(* The refinement                                                           *)

\* A permitted change of a root principal that publishes nothing is a step of
\* Credentials.
LEMMA PermittedLedger ==
  ASSUME Permitted(root'), app' = app
  PROVE  [Ledger!Next]_(Ledger!vars)
<1>1. CASE root' = root
  BY <1>1 DEF Ledger!vars
<1>2. ASSUME NEW d \in Databases, NEW p \in Passwords,
             root[d] = None, root' = [root EXCEPT ![d] = p]
      PROVE  Ledger!Bootstrap(d)
  BY <1>2 DEF Ledger!Bootstrap, Passwords
<1>3. ASSUME NEW d \in Databases, NEW p \in UserPasswords,
             root[d] # None, root' = [root EXCEPT ![d] = p]
      PROVE  Ledger!Reset(d)
  BY <1>3 DEF Ledger!Reset
<1> QED
  BY <1>1, <1>2, <1>3 DEF Permitted, Ledger!Next

\* A commit that moves the databag forward is a publication.
LEMMA AdvanceLedger ==
  ASSUME app \in AppData, app' \in AppData, Advances(app', app), root' = root
  PROVE  Ledger!Publish
<1>1. /\ app'.key \in RandomKeys \cup {None} /\ app'.password \in Passwords \cup {None}
      /\ app.epoch \in Nat /\ app'.epoch \in Nat
  BY DEF AppData
<1>2. app'.key \in IF app.key = None THEN RandomKeys \cup {None} ELSE {app.key}
  BY <1>1 DEF Advances
<1>3. \/ app'.password = app.password /\ app'.epoch >= app.epoch
      \/ /\ app'.password \in UserPasswords \cup (IF app.password = None THEN RandomPasswords ELSE {})
         /\ app'.epoch > app.epoch
  <2>1. CASE app'.password = app.password
    BY <2>1 DEF Advances
  <2>2. CASE app'.password # app.password
    <3>1. app'.epoch > app.epoch
      BY <2>2 DEF Advances
    <3>2. app.password # None => app'.password \in UserPasswords
      BY <2>2 DEF Advances
    <3>3. app.password = None => app'.password \in UserPasswords \cup RandomPasswords
      BY <1>1, <2>2 DEF Passwords
    <3> QED
      BY <3>1, <3>2, <3>3
  <2> QED
    BY <2>1, <2>2
<1> QED
  BY <1>2, <1>3 DEF Ledger!Publish

\* Every step maps to a step or a stutter.
LEMMA NextLedger ==
  ASSUME NoPromotion, Consistent, [Next]_vars
  PROVE  [Ledger!Next]_(Ledger!vars)
<1>1. WellFormed
  BY DEF Consistent
<1>2. CASE UNCHANGED vars
  BY <1>2 DEF vars, Ledger!vars
<1>3. ASSUME NEW u \in Units, Handle(u) \/ Update(u)
      PROVE  [Ledger!Next]_(Ledger!vars)
  BY <1>1, <1>3, HookStepPermitted, PermittedLedger
<1>4. ASSUME NEW u \in Units, Commit(u)
      PROVE  [Ledger!Next]_(Ledger!vars)
  <2>1. root' = root
    BY <1>4 DEF Commit
  <2>2. app \in AppData /\ app' \in AppData
    BY <1>1, NextWellFormed DEF WellFormed, TypeOK
  <2>3. Advances(app', app)
    BY NextFresh
  <2> QED
    BY <2>1, <2>2, <2>3, AdvanceLedger DEF Ledger!Next
<1>5. ASSUME NEW u \in Units,
             \/ CommitRefused(u) \/ Abort(u) \/ Retry(u)
             \/ \E kind \in Kinds : Dispatch(u, kind)
      PROVE  root' = root /\ app' = app
  BY <1>5 DEF CommitRefused, Abort, Retry, Dispatch, database
<1>6. CASE Environment
  <2>1. root' = root /\ app' = app
    BY <1>6 DEF Environment, Elect, ContainerRestart, PebbleUp, MetastoreJoined, CreatePeers,
       SetSystemUser, ToggleStorage, RelateMetastore, RemoveMetastore, database
  <2> QED
    BY <2>1 DEF Ledger!vars
<1>7. root' = root /\ app' = app => [Ledger!Next]_(Ledger!vars)
  BY DEF Ledger!vars
<1> QED
  BY <1>2, <1>3, <1>4, <1>5, <1>6, <1>7 DEF Next, HookStep

\* Nothing is committed and no database has a root principal at first.
LEMMA InitLedger ==
  ASSUME Init
  PROVE  Ledger!Init
BY DEF Init, EmptyApp, Ledger!Init

\* The credentials of the charm develop as Credentials says, whatever the units do:
\* in the databag and in the databases a generated password only comes first.
THEOREM CredentialsImplemented ==
  ASSUME NoPromotion
  PROVE  Spec => ImplementsCredentials
<1>1. Init => Ledger!Init
  BY InitLedger
<1>2. Consistent /\ [Next]_vars => [Ledger!Next]_(Ledger!vars)
  BY NextLedger
<1> QED
  BY <1>1, <1>2, CredentialsConsistent, PTL DEF Spec, ImplementsCredentials, Ledger!Spec

===============================================================================
