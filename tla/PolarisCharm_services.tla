------------------------- MODULE PolarisCharm_services -------------------------
(***************************************************************************)
(* What holds of the services, the databases and the passwords, for any    *)
(* set of units, passwords and keys and any number of faults and changes.  *)
(*                                                                         *)
(* Each part names what it takes for granted: nothing, a leader that       *)
(* keeps its lease (StableLease), one database behind the relation         *)
(* (OneDatabase), hooks that run to their end (HooksComplete).             *)
(***************************************************************************)
EXTENDS Statuses, PolarisCharm_proofs

-------------------------------------------------------------------------------
(* What a handler or a step of update makes of the hook record              *)

\* hk is the record old at the end of a handler, or at a step within it.
Carried(hk, old) ==
  /\ hk \in HookType
  /\ hk.kind = old.kind /\ hk.leader = old.leader /\ hk.deposed = old.deposed
  /\ hk.again = old.again /\ hk.todo = old.todo
  /\ hk.app = old.app /\ hk.wrote = old.wrote
  /\ hk.defers \in {old.defers, old.defers \cup {old.cur}}
  /\ hk.pc # "run" => hk.cur = old.cur

\* hk is u's hook in handler h, or after it.
Served(u, h, hk) ==
  /\ hk \in HookType
  /\ hk.kind = hook[u].kind /\ hk.leader = hook[u].leader /\ hk.deposed = hook[u].deposed
  /\ hk.again \subseteq hook[u].again
  /\ hk.defers \subseteq hook[u].defers \cup {h}
  /\ hk.pc # "run" => hk.cur = h
  /\ \/ h \in hook[u].again /\ hk.todo = hook[u].todo
     \/ hook[u].pc # "run" /\ h = hook[u].cur /\ hk.todo = hook[u].todo
     \/ /\ hook[u].pc = "run" /\ hook[u].again = {} /\ hook[u].todo # <<>>
        /\ h = Head(hook[u].todo) /\ hk.todo = Tail(hook[u].todo)

\* hk is u's hook in handler h.
Begun(u, h, hk) == InHandler(hk) /\ hk.cur = h /\ Served(u, h, hk)

\* A handler that returns, defers, calls update or goes on in it carries the record.
LEMMA ReturnedCarries ==
  ASSUME NEW hk, InHandler(hk)
  PROVE  /\ Carried(Returned(hk), hk) /\ Returned(hk).pc = "run"
         /\ Returned(hk).defers = hk.defers
BY DEF InHandler, Returned, Carried, HookType

LEMMA DeferredCarries ==
  ASSUME NEW hk, InHandler(hk)
  PROVE  Carried(Deferred(hk), hk) /\ Deferred(hk).pc = "run"
<1> DEFINE d == [hk EXCEPT !.defers = @ \cup {hk.cur}]
<1>1. InHandler(d) /\ d.defers = hk.defers \cup {hk.cur}
  BY DEF InHandler, HookType
<1>2. Carried(Returned(d), d) /\ Returned(d).pc = "run" /\ Returned(d).defers = d.defers
  BY <1>1, ReturnedCarries
<1>3. /\ d.kind = hk.kind /\ d.leader = hk.leader /\ d.deposed = hk.deposed
      /\ d.again = hk.again /\ d.todo = hk.todo /\ d.app = hk.app /\ d.wrote = hk.wrote
  BY DEF InHandler, HookType
<1> QED
  BY <1>1, <1>2, <1>3 DEF Deferred, Carried

LEMMA UpdatedCarries ==
  ASSUME NEW hk, InHandler(hk)
  PROVE  Carried(Updated(hk), hk) /\ Updated(hk).pc \in {"run", "ensure"}
<1>1. CASE hk.pending
  BY <1>1 DEF InHandler, Updated, Carried, HookType
<1>2. CASE ~hk.pending
  BY <1>2, ReturnedCarries DEF Updated
<1> QED
  BY <1>1, <1>2

LEMMA CalledCarries ==
  ASSUME NEW u, NEW hk, InHandler(hk)
  PROVE  /\ Carried(Called(u, hk), hk)
         /\ Called(u, hk).pc \in {"run", "ensure", "manage"}
         /\ Called(u, hk).pc = "manage" => Updatable(u, hk)
<1>1. CASE Updatable(u, hk)
  BY <1>1 DEF InHandler, Called, Carried, HookType
<1>2. CASE ~Updatable(u, hk)
  BY <1>2, UpdatedCarries DEF Called
<1> QED
  BY <1>1, <1>2

LEMMA RestartingCarries ==
  ASSUME NEW hk, InHandler(hk)
  PROVE  /\ Carried(Restarting(hk), hk)
         /\ \/ hk.restart /\ Restarting(hk).restart /\ Restarting(hk).pc = "restart"
            \/ ~hk.restart /\ Restarting(hk).pc \in {"run", "ensure"}
<1>1. CASE hk.restart
  BY <1>1 DEF InHandler, Restarting, Carried, HookType
<1>2. CASE ~hk.restart
  BY <1>2, UpdatedCarries DEF Restarting
<1> QED
  BY <1>1, <1>2

\* The handler that Ready picks is begun by Entered, with the databag as it was.
LEMMA EnteredBegins ==
  ASSUME WellFormed, NEW u \in Units, NEW h, Ready(u, h)
  PROVE  /\ Begun(u, h, Entered(u, h))
         /\ Entered(u, h).app = hook[u].app /\ Entered(u, h).wrote = hook[u].wrote
         /\ Entered(u, h).defers = hook[u].defers
<1>1. InHandler(Entered(u, h)) /\ Entered(u, h) \in HookType /\ hook[u] \in HookType
  BY EnteredOK DEF InHandler, WellFormed, TypeOK
<1>2. CASE hook[u].again # {}
  BY <1>1, <1>2 DEF Ready, Entered, Begun, Served, HookType
<1>3. CASE hook[u].again = {}
  BY <1>1, <1>3 DEF Ready, Entered, Begun, Served, HookType
<1> QED
  BY <1>2, <1>3

\* A hook in update, or past it, is in its handler.
LEMMA UpdateBegun ==
  ASSUME WellFormed, NEW u \in Units,
         hook[u].pc \in {"manage", "bootstrap", "restart", "ensure"}
  PROVE  Begun(u, hook[u].cur, hook[u])
<1>1. InHandler(hook[u])
  BY InUpdate
<1> QED
  BY <1>1 DEF Begun, Served, InHandler

\* What a handler in progress carries to its end it has served.
LEMMA BegunServed ==
  ASSUME NEW u, NEW h, NEW s, Begun(u, h, s), NEW hk, Carried(hk, s)
  PROVE  Served(u, h, hk)
BY DEF Begun, Served, Carried

\* Locals of the handler and writes to the databag leave it begun.
LEMMA WroteBegun ==
  ASSUME NEW u, NEW h, NEW s, Begun(u, h, s), NEW a \in AppData
  PROVE  /\ Begun(u, h, Wrote(s, a)) /\ Wrote(s, a).app = a
         /\ Wrote(s, a).wrote <=> s.wrote \/ a # s.app
BY DEF Begun, Served, InHandler, Wrote, HookType

LEMMA LocalsBegun ==
  ASSUME NEW u, NEW h, NEW s, Begun(u, h, s), NEW b \in BOOLEAN, NEW c,
         \/ c = [s EXCEPT !.pending = b]
         \/ c = [s EXCEPT !.restart = b]
         \/ c = [s EXCEPT !.schema = b]
  PROVE  Begun(u, h, c) /\ c.app = s.app /\ c.wrote = s.wrote
BY DEF Begun, Served, InHandler, HookType

-------------------------------------------------------------------------------
(* The steps of a hook                                                      *)

\* One database only: the application is never related to another one.
OneDatabase == \A c, d \in Databases : c = d

\* What a database has, it keeps.
Grown ==
  /\ \A d \in Databases : root[d] # None => root[d]' # None
  /\ \A d \in Databases : schema[d] => schema[d]'

\* The databases have the password p for their root principal, or none yet.
Locked(p) == \A d \in Databases : root[d] \in {None, p}

\* Handler h of u returns or calls update, leaving its hook at hk: only the leader
\* changes its databag or a database.
Handled(u, h, hk) ==
  /\ Served(u, h, hk) /\ Set(u, hk) /\ Frame /\ UNCHANGED <<file, running>>
  /\ hook[u].pc = "run" \/ (hook[u].pc = "ensure" /\ h = hook[u].cur)
  /\ hook[u].pc = "run" => h # "broken"
  /\ hk.pc \in {"run", "ensure", "manage"}
  /\ hk.pc = "manage" => peers /\ reach[u] /\ joined[u] # None /\ ClusterReady(hk.app)
  /\ hk.app.bootstrapped = hook[u].app.bootstrapped
  /\ Advances(hk.app, hook[u].app)
  /\ hk.wrote <=> hook[u].wrote \/ hk.app # hook[u].app
  /\ leader # u => hk.app = hook[u].app /\ UNCHANGED root
  /\ Grown
  /\ OneDatabase /\ "lost_reply" \notin Faults /\ Locked(hook[u].app.password)
       => \A d \in Databases : root'[d] \in {None, hk.app.password}

\* A handler or a step of update raises: the service may have been stopped, and a
\* database bootstrapped.
Raised(u) ==
  /\ Set(u, FailedHook(hook[u].kind)) /\ UNCHANGED file
  /\ UNCHANGED <<leader, peers, notices, app, deferred, secret, storage, rel, joined, reach>>
  /\ running' = running \/ running' = [running EXCEPT ![u] = None]
  /\ Grown

\* A complete databag stays so.
LEMMA AdvancesReady ==
  ASSUME NEW a \in AppData, NEW b \in AppData, Advances(b, a)
  PROVE  /\ a.password # None => b.password # None
         /\ ClusterReady(a) => ClusterReady(b)
<1>1. None \notin Passwords /\ UserPasswords \subseteq Passwords
  BY ConstantsAssumption DEF Passwords
<1> QED
  BY <1>1 DEF Advances, ClusterReady, AppData

\* A reset moves a password that was there, to the wanted one when it says so and
\* otherwise only if its answer was lost.
LEMMA ResetOutcomesGrow ==
  ASSUME TypeOK, NEW u \in Units, NEW old \in Passwords, NEW new \in Passwords,
         NEW o \in ResetOutcomes(u, old, new)
  PROVE  /\ \A d \in Databases : root[d] # None => o.root[d] # None
         /\ \/ o.cost = "lost_reply"
            \/ o.root = root
            \/ o.ok /\ \E d \in Databases : o.root = [root EXCEPT ![d] = new]
<1>1. running[u] # None => running[u].db \in Databases
  BY DEF TypeOK, Conf
<1>2. root \in [Databases -> Passwords \cup {None}] /\ None \notin Passwords
  BY ConstantsAssumption DEF TypeOK
<1> DEFINE authentic == running[u] # None /\ root[running[u].db] = old
           changed   == [root EXCEPT ![running[u].db] = new]
<1>3. CASE ~authentic
  <2>1. o.root = root
    BY <1>3 DEF ResetOutcomes
  <2> QED
    BY <2>1
<1>4. CASE authentic
  <2>1. \/ o.ok /\ o.root = changed
        \/ o.root = root
        \/ o.root = changed /\ o.cost = "lost_reply"
    BY <1>4 DEF ResetOutcomes
  <2>2. \A d \in Databases : root[d] # None => changed[d] # None
    BY <1>1, <1>2, <1>4
  <2> QED
    BY <1>1, <1>4, <2>1, <2>2
<1> QED
  BY <1>3, <1>4

\* _ensure_admin_credentials, besides moving forward, leaves the key and the flag alone,
\* and a database with another password than the databag's only when an answer is lost.
LEMMA CredentialOutcomesKeep ==
  ASSUME TypeOK, NEW u \in Units, NEW a \in AppData, NEW o \in CredentialOutcomes(u, a)
  PROVE  /\ o.app.bootstrapped = a.bootstrapped /\ o.app.key = a.key
         /\ leader # u => o.app = a /\ o.root = root
         /\ \A d \in Databases : root[d] # None => o.root[d] # None
         /\ OneDatabase /\ o.cost # "lost_reply" /\ Locked(a.password)
              => \A d \in Databases : o.root[d] \in {None, o.app.password}
<1>1. root \in [Databases -> Passwords \cup {None}] /\ None \notin Passwords
  BY ConstantsAssumption DEF TypeOK
<1>2. CASE leader # u
  <2>1. o.app = a /\ o.root = root
    BY <1>2 DEF CredentialOutcomes
  <2> QED
    BY <2>1 DEF Locked
<1>3. CASE leader = u /\ secret \in {Inaccessible, Invalid}
  <2>1. o.app = a /\ o.root = root
    BY <1>3 DEF CredentialOutcomes
  <2> QED
    BY <1>3, <2>1 DEF Locked
<1>4. CASE leader = u /\ secret \notin {Inaccessible, Invalid}
  <2>1. PICK p \in WantedPasswords(a) :
          \/ o.app = a /\ o.root = root
          \/ a.password = None /\ o.app = WithPassword(a, p) /\ o.root = root
          \/ /\ a.password # None
             /\ \E r \in ResetOutcomes(u, a.password, p) :
                  /\ o.app = IF r.ok THEN WithPassword(a, p) ELSE a
                  /\ o.root = r.root /\ o.cost = r.cost
    BY <1>4 DEF CredentialOutcomes
  <2>2. p \in Passwords
    BY WantedPasswordsType
  <2> DEFINE w == WithPassword(a, p)
  <2>3. w.bootstrapped = a.bootstrapped /\ w.key = a.key /\ w.password = p
    BY DEF WithPassword, AppData
  <2> HIDE DEF w
  <2>4. CASE o.app = a /\ o.root = root
    BY <1>4, <2>4 DEF Locked
  <2>5. CASE a.password = None /\ o.app = w /\ o.root = root
    BY <1>4, <2>3, <2>5 DEF Locked
  <2>6. CASE /\ a.password # None
             /\ \E r \in ResetOutcomes(u, a.password, p) :
                  /\ o.app = IF r.ok THEN w ELSE a
                  /\ o.root = r.root /\ o.cost = r.cost
    <3>1. PICK r \in ResetOutcomes(u, a.password, p) :
            /\ o.app = IF r.ok THEN w ELSE a
            /\ o.root = r.root /\ o.cost = r.cost
      BY <2>6
    <3>2. a.password \in Passwords
      BY <2>6 DEF AppData
    <3>3. /\ \A d \in Databases : root[d] # None => r.root[d] # None
          /\ \/ r.cost = "lost_reply"
             \/ r.root = root
             \/ r.ok /\ \E d \in Databases : r.root = [root EXCEPT ![d] = p]
      BY <2>2, <3>2, ResetOutcomesGrow
    <3>4. o.app.bootstrapped = a.bootstrapped /\ o.app.key = a.key
      BY <2>3, <3>1
    <3>5. ASSUME OneDatabase, o.cost # "lost_reply", Locked(a.password), NEW d \in Databases
          PROVE  o.root[d] \in {None, o.app.password}
      <4>1. CASE r.ok /\ \E e \in Databases : r.root = [root EXCEPT ![e] = p]
        <5>1. o.root[d] = p
          BY <1>1, <3>1, <3>5, <4>1 DEF OneDatabase
        <5> QED
          BY <2>3, <3>1, <4>1, <5>1
      <4>2. CASE r.root = root
        <5>1. CASE r.ok
          <6>1. r.root = [root EXCEPT ![running[u].db] = p] /\ running[u] # None
            BY <5>1 DEF ResetOutcomes
          <6>2. running[u].db = d
            BY <3>5, <6>1 DEF TypeOK, Conf, OneDatabase
          <6>3. o.root[d] = p
            BY <1>1, <3>1, <6>1, <6>2
          <6> QED
            BY <2>3, <3>1, <5>1, <6>3
        <5>2. CASE ~r.ok
          BY <3>1, <3>5, <4>2, <5>2 DEF Locked
        <5> QED
          BY <5>1, <5>2
      <4> QED
        BY <3>1, <3>3, <3>5, <4>1, <4>2
    <3> QED
      BY <1>4, <3>1, <3>3, <3>4, <3>5
  <2> QED
    BY <2>1, <2>4, <2>5, <2>6 DEF w
<1> QED
  BY <1>2, <1>3, <1>4

\* ensure_schema creates the schema or leaves it.
LEMMA SchemaOutcomesAre ==
  ASSUME NEW u, NEW hk, NEW o \in SchemaOutcomes(u, hk)
  PROVE  o.schema = schema \/ o.schema = [schema EXCEPT ![joined[u]] = TRUE]
<1>1. \/ o = [ok |-> hk.schema, schema |-> schema, cost |-> "none"]
      \/ o = [ok |-> TRUE, schema |-> [schema EXCEPT ![joined[u]] = TRUE], cost |-> "none"]
      \/ o = [ok |-> FALSE, schema |-> schema, cost |-> "schema_error"]
  BY DEF SchemaOutcomes
<1>2. CASE o = [ok |-> hk.schema, schema |-> schema, cost |-> "none"]
  BY <1>2, Zenon
<1>3. CASE o = [ok |-> TRUE, schema |-> [schema EXCEPT ![joined[u]] = TRUE], cost |-> "none"]
  <2>1. o.schema = [schema EXCEPT ![joined[u]] = TRUE]
    BY <1>3, Zenon
  <2> QED
    BY <2>1
<1>4. CASE o = [ok |-> FALSE, schema |-> schema, cost |-> "schema_error"]
  BY <1>4, Zenon
<1> QED
  BY <1>1, <1>2, <1>3, <1>4

\* A handler that writes nothing is handled when what it sets is carried from its
\* beginning.
LEMMA PlainHandled ==
  ASSUME WellFormed, NEW u \in Units, NEW h, NEW s, Begun(u, h, s),
         s.app = hook[u].app, s.wrote = hook[u].wrote,
         NEW hk, Carried(hk, s), Set(u, hk), hk.pc \in {"run", "ensure", "manage"},
         hk.pc = "manage" => peers /\ reach[u] /\ Updatable(u, s),
         hook[u].pc = "run", h # "broken",
         Frame, UNCHANGED <<file, running, root>>, Grown
  PROVE  Handled(u, h, hk)
<1>1. Served(u, h, hk) /\ hk.app = hook[u].app /\ hk.wrote = hook[u].wrote
  BY BegunServed DEF Carried
<1>2. hook[u].app \in AppData /\ hook[u].wrote \in BOOLEAN
  BY DEF WellFormed, TypeOK, HookType
<1>3. Advances(hk.app, hook[u].app)
  BY <1>1, <1>2, AdvancesReflexive
<1>4. hk.pc = "manage" => joined[u] # None /\ ClusterReady(hk.app)
  BY <1>1 DEF Updatable
<1>5. Locked(hook[u].app.password) => \A d \in Databases : root'[d] \in {None, hk.app.password}
  BY <1>1 DEF Locked
<1> QED
  BY <1>1, <1>2, <1>3, <1>4, <1>5 DEF Handled

\* PolarisEvents.reconcile is handled.
LEMMA ReconcileHandled ==
  ASSUME WellFormed, NEW u \in Units, NEW h, NEW s, Begun(u, h, s),
         s.app = hook[u].app, s.wrote = hook[u].wrote,
         hook[u].pc = "run", h # "broken",
         Reconcile(u, s), Frame, UNCHANGED <<file, running, schema>>
  PROVE  \E hk : Handled(u, h, hk)
<1>1. /\ TypeOK /\ InHandler(s) /\ s.app \in AppData
      /\ hook[u].app \in AppData /\ hook[u].wrote \in BOOLEAN
  BY DEF WellFormed, TypeOK, Begun, InHandler, HookType
<1>2. CASE ~peers \/ ~reach[u]
  <2>1. Set(u, Deferred(s)) /\ UNCHANGED root
    BY <1>2 DEF Reconcile
  <2>2. Carried(Deferred(s), s) /\ Deferred(s).pc = "run" /\ Grown
    BY <1>1, <2>1, DeferredCarries DEF Grown
  <2> QED
    BY <2>1, <2>2, PlainHandled
<1>3. CASE peers /\ reach[u]
  <2>1. PICK o \in CredentialOutcomes(u, s.app) :
          /\ Took(o)
          /\ IF o.result = "FAILED"
             THEN Set(u, Returned(s))
             ELSE \E a \in KeyOutcomes(u, o.app) :
                    Set(u, Called(u, [Wrote(s, a) EXCEPT !.pending = o.result = "PENDING"]))
    BY <1>3 DEF Reconcile
  <2>2. /\ o.app \in AppData /\ Advances(o.app, s.app)
        /\ o.app.bootstrapped = s.app.bootstrapped /\ o.app.key = s.app.key
        /\ leader # u => o.app = s.app /\ o.root = root
        /\ \A d \in Databases : root[d] # None => o.root[d] # None
        /\ OneDatabase /\ o.cost # "lost_reply" /\ Locked(s.app.password)
              => \A d \in Databases : o.root[d] \in {None, o.app.password}
    BY <1>1, CredentialOutcomesAdvance, CredentialOutcomesKeep
  <2>3. Grown /\ root' = o.root /\ (o.cost = "lost_reply" => "lost_reply" \in Faults)
    BY <2>1, <2>2 DEF Took, Grown, Paid, Fault
  <2>4. ASSUME NEW a \in AppData, Advances(a, s.app), a.bootstrapped = s.app.bootstrapped,
               a.password = o.app.password, leader # u => a = s.app,
               NEW w, Begun(u, h, w), w.app = a, w.wrote <=> s.wrote \/ a # s.app,
               NEW hk, Carried(hk, w), Set(u, hk), hk.pc \in {"run", "ensure", "manage"},
               hk.pc = "manage" => Updatable(u, w)
        PROVE  Handled(u, h, hk)
    <3>1. Served(u, h, hk) /\ hk.app = a /\ hk.wrote = w.wrote
      BY <2>4, BegunServed DEF Carried
    <3>2. hk.wrote <=> hook[u].wrote \/ hk.app # hook[u].app
      BY <2>4, <3>1
    <3>3. hk.pc = "manage" => joined[u] # None /\ ClusterReady(hk.app)
      BY <2>4, <3>1 DEF Updatable
    <3>4. OneDatabase /\ "lost_reply" \notin Faults /\ Locked(hook[u].app.password)
            => \A d \in Databases : root'[d] \in {None, hk.app.password}
      BY <2>2, <2>3, <2>4, <3>1
    <3> QED
      BY <1>3, <2>2, <2>3, <2>4, <3>1, <3>2, <3>3, <3>4 DEF Handled
  <2>5. CASE o.result = "FAILED"
    <3>1. o.app = s.app
      BY <2>5 DEF CredentialOutcomes
    <3>2. Set(u, Returned(s)) /\ Carried(Returned(s), s) /\ Returned(s).pc = "run"
      BY <1>1, <2>1, <2>5, ReturnedCarries
    <3> QED
      BY <1>1, <2>2, <2>4, <3>1, <3>2
  <2>6. CASE o.result # "FAILED"
    <3>1. PICK a \in KeyOutcomes(u, o.app) :
            Set(u, Called(u, [Wrote(s, a) EXCEPT !.pending = o.result = "PENDING"]))
      BY <2>1, <2>6
    <3> DEFINE w == Wrote(s, a)
               c == [w EXCEPT !.pending = o.result = "PENDING"]
    <3>2. /\ a \in AppData /\ Advances(a, s.app) /\ a.bootstrapped = o.app.bootstrapped
          /\ a.password = o.app.password
          /\ leader # u => a = o.app
      <4>1. a \in AppData /\ Advances(a, s.app)
        BY <1>1, <2>2, KeyOutcomesAdvance, AdvancesTransitive
      <4>2. /\ a.bootstrapped = o.app.bootstrapped /\ a.password = o.app.password
            /\ leader # u => a = o.app
        BY <2>2 DEF KeyOutcomes, WithKey, AppData
      <4> QED
        BY <4>1, <4>2
    <3>3. Begun(u, h, w) /\ w.app = a /\ (w.wrote <=> s.wrote \/ a # s.app)
      BY <3>2, WroteBegun
    <3>4. \E b \in BOOLEAN : c = [w EXCEPT !.pending = b]
      OBVIOUS
    <3> HIDE DEF w, c
    <3>5. Begun(u, h, c) /\ c.app = w.app /\ c.wrote = w.wrote
      BY <3>3, <3>4, LocalsBegun
    <3>6. /\ Carried(Called(u, c), c) /\ Called(u, c).pc \in {"run", "ensure", "manage"}
          /\ Called(u, c).pc = "manage" => Updatable(u, c)
      BY <3>5, CalledCarries DEF Begun
    <3>7. Set(u, Called(u, c))
      BY <3>1 DEF w, c
    <3> QED
      BY <2>2, <2>4, <3>2, <3>3, <3>5, <3>6, <3>7
  <2> QED
    BY <2>5, <2>6
<1> QED
  BY <1>2, <1>3

\* Every handler but that of the broken relation is handled, or it is the one of the
\* changed secret and raises.
LEMMA HandleShape ==
  ASSUME WellFormed, NEW u \in Units, Handle(u)
  PROVE  \/ MetastoreBroken(u)
         \/ Ready(u, "secret") /\ Raised(u)
         \/ \E h, hk : Handled(u, h, hk)
<1>1. TypeOK /\ hook[u].app \in AppData /\ hook[u].wrote \in BOOLEAN
  BY DEF WellFormed, TypeOK, HookType
<1>2. CASE PolarisReconcile(u)
  <2>1. /\ Begun(u, "polaris", Entered(u, "polaris"))
        /\ Entered(u, "polaris").app = hook[u].app
        /\ Entered(u, "polaris").wrote = hook[u].wrote
    BY <1>2, EnteredBegins DEF PolarisReconcile
  <2>2. /\ hook[u].pc = "run" /\ Reconcile(u, Entered(u, "polaris")) /\ Frame
        /\ UNCHANGED <<file, running, schema>>
    BY <1>2 DEF PolarisReconcile, Ready, Frame, juju, operator, workload
  <2> QED
    BY <2>1, <2>2, ReconcileHandled
<1>3. CASE SecretChanged(u)
  <2> DEFINE s == Entered(u, "secret")
  <2>1. Begun(u, "secret", s) /\ s.app = hook[u].app /\ s.wrote = hook[u].wrote
    BY <1>3, EnteredBegins DEF SecretChanged
  <2>2. /\ hook[u].pc = "run" /\ Frame /\ UNCHANGED <<file, running, schema>>
        /\ Ready(u, "secret")
    BY <1>3 DEF SecretChanged, Ready, Frame, juju, operator, workload
  <2>3. \/ Set(u, Returned(s)) /\ UNCHANGED <<root, faults>>
        \/ Set(u, FailedHook(s.kind)) /\ UNCHANGED <<root, faults>>
        \/ Reconcile(u, s)
    BY <1>3 DEF SecretChanged
  <2>4. CASE Set(u, Returned(s)) /\ UNCHANGED <<root, faults>>
    <3>1. Carried(Returned(s), s) /\ Returned(s).pc = "run"
      BY <2>1, ReturnedCarries DEF Begun
    <3> QED
      BY <2>1, <2>2, <2>4, <3>1, PlainHandled DEF Grown
  <2>5. CASE Set(u, FailedHook(s.kind)) /\ UNCHANGED <<root, faults>>
    <3>1. s.kind = hook[u].kind
      BY <2>1 DEF Begun, Served
    <3> QED
      BY <2>2, <2>5, <3>1 DEF Raised, Frame, Grown
  <2> QED
    BY <2>1, <2>2, <2>3, <2>4, <2>5, ReconcileHandled
<1>4. CASE EnsureAgain(u)
  <2> DEFINE s == hook[u]
             h == hook[u].cur
  <2>1. Begun(u, h, s) /\ InHandler(s) /\ s.pc = "ensure"
    BY <1>4, UpdateBegun DEF EnsureAgain, Begun
  <2>2. PICK o \in CredentialOutcomes(u, s.app) :
          /\ Took(o)
          /\ Set(u, IF o.result = "PENDING" THEN Deferred(s)
                    ELSE Returned(Wrote(s, o.app)))
    BY <1>4 DEF EnsureAgain
  <2>3. /\ o.app \in AppData /\ Advances(o.app, s.app)
        /\ o.app.bootstrapped = s.app.bootstrapped /\ o.app.key = s.app.key
        /\ leader # u => o.app = s.app /\ o.root = root
        /\ \A d \in Databases : root[d] # None => o.root[d] # None
        /\ OneDatabase /\ o.cost # "lost_reply" /\ Locked(s.app.password)
              => \A d \in Databases : o.root[d] \in {None, o.app.password}
    BY <1>1, CredentialOutcomesAdvance, CredentialOutcomesKeep
  <2>4. Frame /\ UNCHANGED <<file, running, schema>>
    BY <1>4 DEF EnsureAgain, Frame, juju, operator, workload
  <2>5. Grown /\ root' = o.root /\ (o.cost = "lost_reply" => "lost_reply" \in Faults)
    BY <2>2, <2>3, <2>4 DEF Took, Grown, Paid, Fault
  <2>6. CASE o.result = "PENDING"
    <3>1. o.app = s.app
      BY <2>6 DEF CredentialOutcomes
    <3>2. Set(u, Deferred(s)) /\ Carried(Deferred(s), s) /\ Deferred(s).pc = "run"
      BY <2>1, <2>2, <2>6, DeferredCarries
    <3>3. Served(u, h, Deferred(s)) /\ Deferred(s).app = s.app /\ Deferred(s).wrote = s.wrote
      BY <2>1, <3>2, BegunServed DEF Carried
    <3> QED
      BY <1>1, <2>1, <2>3, <2>4, <2>5, <3>1, <3>2, <3>3 DEF Handled
  <2>7. CASE o.result # "PENDING"
    <3> DEFINE w == Wrote(s, o.app)
    <3>1. Begun(u, h, w) /\ w.app = o.app /\ (w.wrote <=> s.wrote \/ o.app # s.app)
      BY <2>1, <2>3, WroteBegun
    <3>2. Set(u, Returned(w)) /\ Carried(Returned(w), w) /\ Returned(w).pc = "run"
      BY <2>2, <2>7, <3>1, ReturnedCarries DEF Begun
    <3>3. Served(u, h, Returned(w)) /\ Returned(w).app = o.app /\ Returned(w).wrote = w.wrote
      BY <3>1, <3>2, BegunServed DEF Carried
    <3> QED
      BY <1>1, <2>1, <2>3, <2>4, <2>5, <3>1, <3>2, <3>3 DEF Handled
  <2> QED
    BY <2>6, <2>7
<1>5. CASE MetastoreReconcile(u)
  <2> DEFINE s == Entered(u, "metastore")
  <2>1. Begun(u, "metastore", s) /\ s.app = hook[u].app /\ s.wrote = hook[u].wrote
    BY <1>5, EnteredBegins DEF MetastoreReconcile
  <2>2. hook[u].pc = "run" /\ Frame /\ UNCHANGED <<file, running, root>>
    BY <1>5 DEF MetastoreReconcile, Ready, Frame, juju, operator, workload
  <2>3. CASE (Set(u, Deferred(s)) \/ Set(u, Returned(s))) /\ UNCHANGED schema
    <3>1. /\ Carried(Returned(s), s) /\ Returned(s).pc = "run"
          /\ Carried(Deferred(s), s) /\ Deferred(s).pc = "run"
      BY <2>1, ReturnedCarries, DeferredCarries DEF Begun
    <3> QED
      BY <2>1, <2>2, <2>3, <3>1, PlainHandled DEF Grown
  <2>4. CASE peers /\ reach[u] /\ joined[u] # None /\ \E o \in SchemaOutcomes(u, s) :
               /\ schema' = o.schema
               /\ LET known == [s EXCEPT !.schema = o.ok]
                  IN Set(u, IF o.ok THEN Called(u, known) ELSE Returned(known))
    <3>1. PICK o \in SchemaOutcomes(u, s) :
               /\ schema' = o.schema
               /\ LET known == [s EXCEPT !.schema = o.ok]
                  IN Set(u, IF o.ok THEN Called(u, known) ELSE Returned(known))
      BY <2>4
    <3> DEFINE known == [s EXCEPT !.schema = o.ok]
    <3>2. o.ok \in BOOLEAN
      BY <1>1, <2>1, <2>4, SchemaOutcomesType DEF Begun, InHandler
    <3>3. Begun(u, "metastore", known) /\ known.app = s.app /\ known.wrote = s.wrote
      BY <2>1, <3>2, LocalsBegun
    <3> HIDE DEF known
    <3>4. Set(u, Called(u, known)) \/ Set(u, Returned(known))
      BY <3>1 DEF known
    <3>5. /\ Carried(Returned(known), known) /\ Returned(known).pc = "run"
          /\ Carried(Called(u, known), known)
          /\ Called(u, known).pc \in {"run", "ensure", "manage"}
          /\ Called(u, known).pc = "manage" => Updatable(u, known)
      BY <3>3, ReturnedCarries, CalledCarries DEF Begun
    <3>6. Grown
      <4>1. o.schema = schema \/ o.schema = [schema EXCEPT ![joined[u]] = TRUE]
        BY SchemaOutcomesAre
      <4> QED
        BY <1>1, <2>2, <3>1, <4>1 DEF Grown, TypeOK
    <3> QED
      BY <2>1, <2>2, <2>4, <3>3, <3>4, <3>5, <3>6, PlainHandled
  <2> QED
    BY <1>5, <2>3, <2>4 DEF MetastoreReconcile
<1>6. CASE S3Reconcile(u) \/ CertificatesReconcile(u) \/ OAuthReconcile(u)
  <2>1. PICK h \in Handlers \ {"broken"}, proceeds \in BOOLEAN, force \in BOOLEAN :
          ReconcileWorkload(u, h, proceeds, force)
    BY <1>1, <1>6 DEF Handlers, TypeOK, S3Reconcile, CertificatesReconcile, OAuthReconcile
  <2> DEFINE s == Entered(u, h)
             forced == [s EXCEPT !.restart = force]
  <2>2. Begun(u, h, s) /\ s.app = hook[u].app /\ s.wrote = hook[u].wrote
    BY <2>1, EnteredBegins DEF ReconcileWorkload
  <2>3. Begun(u, h, forced) /\ forced.app = s.app /\ forced.wrote = s.wrote
    BY <2>2, LocalsBegun
  <2>4. /\ hook[u].pc = "run" /\ Frame /\ UNCHANGED <<file, running, root, schema>>
    BY <2>1 DEF ReconcileWorkload, Ready, Frame, juju, operator, workload, database
  <2>5. Grown
    BY <2>4 DEF Grown
  <2>6. \/ Set(u, Deferred(s)) \/ Set(u, Returned(s))
        \/ peers /\ reach[u] /\ Set(u, Called(u, forced))
    BY <2>1 DEF ReconcileWorkload
  <2>7. /\ Carried(Returned(s), s) /\ Returned(s).pc = "run"
        /\ Carried(Deferred(s), s) /\ Deferred(s).pc = "run"
        /\ Carried(Called(u, forced), forced)
        /\ Called(u, forced).pc \in {"run", "ensure", "manage"}
        /\ Called(u, forced).pc = "manage" => Updatable(u, forced)
    BY <2>2, <2>3, ReturnedCarries, DeferredCarries, CalledCarries DEF Begun
  <2> HIDE DEF forced
  <2> QED
    BY <2>1, <2>2, <2>3, <2>4, <2>5, <2>6, <2>7, PlainHandled
<1> QED
  BY <1>2, <1>3, <1>4, <1>5, <1>6 DEF Handle

\* The relation is broken: the service stops, and the leader's flag goes down.
Broke(u, hk) ==
  /\ Served(u, "broken", hk) /\ Set(u, hk) /\ Frame /\ UNCHANGED <<file, root, schema>>
  /\ hook[u].pc = "run" /\ hk.pc = "run" /\ hk.defers = hook[u].defers
  /\ running' = IF reach[u] THEN [running EXCEPT ![u] = None] ELSE running
  /\ hk.app = IF leader = u /\ peers THEN WithBootstrapped(hook[u].app, FALSE)
              ELSE hook[u].app
  /\ hk.wrote <=> hook[u].wrote \/ hk.app # hook[u].app

\* The configuration is written; whether a restart is due goes with the hook.
Configured(u, hk) ==
  /\ hook[u].pc = "manage" /\ reach[u]
  /\ Served(u, hook[u].cur, hk) /\ Set(u, hk) /\ Frame /\ UNCHANGED <<running, root, schema>>
  /\ file' = [file EXCEPT ![u] = [password |-> hook[u].app.password,
                                  key |-> hook[u].app.key, db |-> joined[u]]]
  /\ hk.app = hook[u].app /\ hk.wrote = hook[u].wrote
  /\ \/ hook[u].leader /\ hk.pc = "bootstrap"
     \/ ~hook[u].leader /\ hk.pc = "restart" /\ hk.app.bootstrapped
     \/ hk.pc \in {"run", "ensure"}
  /\ \/ hk.pc \in {"bootstrap", "restart"} /\ hk.restart
     \/ ~hook[u].leader /\ ~hk.app.bootstrapped
     \/ file'[u] = file[u] /\ running[u] # None

\* The metastore is bootstrapped; the service restarts unless it was already and no
\* restart was due.
Booted(u, hk) ==
  /\ hook[u].pc = "bootstrap" /\ reach[u] /\ schema[joined[u]] /\ leader = u
  /\ Served(u, hook[u].cur, hk) /\ Set(u, hk) /\ Frame
  /\ UNCHANGED <<file, running, schema>>
  /\ root' = Bootstrapped(joined[u], hook[u].app.password)
  /\ hk.app = WithBootstrapped(hook[u].app, TRUE)
  /\ hk.wrote <=> hook[u].wrote \/ hk.app # hook[u].app
  /\ \/ hk.pc = "restart" /\ hk.restart
     \/ hk.pc \in {"run", "ensure"} /\ hook[u].app.bootstrapped /\ ~hook[u].restart

\* Bootstrap fails, or the service restarts: update is over.
Over(u, hk) ==
  /\ Served(u, hook[u].cur, hk) /\ Set(u, hk) /\ Frame /\ UNCHANGED <<file, schema>>
  /\ reach[u] /\ hk.pc \in {"run", "ensure"}
  /\ hk.app = hook[u].app /\ hk.wrote = hook[u].wrote

BootFailed(u, hk) ==
  /\ hook[u].pc = "bootstrap" /\ Over(u, hk) /\ UNCHANGED running
  /\ schema[joined[u]] => "exec_error" \in Faults
  /\ root' \in {root, Bootstrapped(joined[u], hook[u].app.password)}

Restarted(u, hk) ==
  /\ hook[u].pc = "restart" /\ Over(u, hk) /\ UNCHANGED root
  /\ running' = [running EXCEPT ![u] = file[u]]

\* The flag is all that set_metastore_bootstrapped writes.
LEMMA WithBootstrappedIs ==
  ASSUME NEW a \in AppData, NEW b \in BOOLEAN
  PROVE  /\ WithBootstrapped(a, b).bootstrapped = b
         /\ WithBootstrapped(a, b).password = a.password
         /\ WithBootstrapped(a, b).key = a.key
         /\ WithBootstrapped(a, b) \in AppData
BY DEF WithBootstrapped, AppData

\* A database bootstrapped keeps the password it had, or gets that of the databag.
LEMMA BootstrappedIs ==
  ASSUME WellFormed, NEW u \in Units, hook[u].pc = "bootstrap",
         root' = Bootstrapped(joined[u], hook[u].app.password)
  PROVE  /\ joined[u] \in Databases /\ ClusterReady(hook[u].app)
         /\ root'[joined[u]] # None
         /\ \A d \in Databases : root[d] # None => root'[d] = root[d]
         /\ \A d \in Databases : root'[d] \in {root[d], hook[u].app.password}
<1>1. joined[u] \in Databases /\ ClusterReady(hook[u].app)
  BY DEF WellFormed, TypeOK, Control
<1>2. hook[u].app.password # None /\ root \in [Databases -> Passwords \cup {None}]
  BY <1>1 DEF ClusterReady, WellFormed, TypeOK
<1> QED
  BY <1>1, <1>2 DEF Bootstrapped

\* The handler of the broken relation.
LEMMA BrokenShape ==
  ASSUME WellFormed, NEW u \in Units, MetastoreBroken(u)
  PROVE  \E hk : Broke(u, hk)
<1> DEFINE s == Entered(u, "broken")
           a == WithBootstrapped(s.app, FALSE)
<1>1. /\ Begun(u, "broken", s) /\ s.app = hook[u].app /\ s.wrote = hook[u].wrote
      /\ s.defers = hook[u].defers
  BY EnteredBegins DEF MetastoreBroken
<1>2. s.app \in AppData /\ hook[u].wrote \in BOOLEAN
  BY <1>1 DEF Begun, InHandler, HookType, WellFormed, TypeOK
<1>3. a \in AppData
  BY <1>2, WithBootstrappedIs
<1>4. /\ hook[u].pc = "run" /\ Frame /\ UNCHANGED <<file, root, schema>>
      /\ running' = IF reach[u] THEN [running EXCEPT ![u] = None] ELSE running
  BY DEF MetastoreBroken, Ready, Frame, juju, operator, database
<1>5. ASSUME NEW w, Begun(u, "broken", w), Set(u, Returned(w)), w.defers = s.defers,
             w.app = IF leader = u /\ peers THEN a ELSE s.app,
             w.wrote <=> s.wrote \/ w.app # s.app
      PROVE  \E hk : Broke(u, hk)
  <2>1. /\ Carried(Returned(w), w) /\ Returned(w).pc = "run"
        /\ Returned(w).defers = w.defers
    BY <1>5, ReturnedCarries DEF Begun
  <2>2. Served(u, "broken", Returned(w))
    BY <1>5, <2>1, BegunServed
  <2>3. Broke(u, Returned(w))
    BY <1>1, <1>4, <1>5, <2>1, <2>2 DEF Broke, Carried
  <2> QED
    BY <2>3
<1>6. CASE leader = u /\ peers
  <2> DEFINE w == Wrote(s, a)
  <2> HIDE DEF s, a
  <2>1. Begun(u, "broken", w) /\ w.app = a /\ (w.wrote <=> s.wrote \/ a # s.app)
    BY <1>1, <1>3, WroteBegun
  <2>2. w.defers = s.defers
    BY <1>1 DEF Wrote, Begun, InHandler, HookType
  <2>3. Set(u, Returned(w))
    BY <1>6 DEF MetastoreBroken, s, a
  <2> HIDE DEF w
  <2> QED
    BY <1>5, <1>6, <2>1, <2>2, <2>3
<1>7. CASE ~(leader = u /\ peers)
  <2>1. Set(u, Returned(s))
    BY <1>7 DEF MetastoreBroken
  <2> QED
    BY <1>1, <1>2, <1>5, <1>7, <2>1
<1> QED
  BY <1>6, <1>7

\* The steps of PolarisManager.update that do not raise.
LEMMA UpdateShape ==
  ASSUME WellFormed, NEW u \in Units, Update(u)
  PROVE  \/ \E hk : Configured(u, hk)
         \/ \E hk : Booted(u, hk)
         \/ \E hk : BootFailed(u, hk)
         \/ \E hk : Restarted(u, hk)
         \/ /\ Raised(u)
            /\ Fault("raise") \/ ~reach[u] \/ (hook[u].pc = "bootstrap" /\ leader # u)
<1> DEFINE s == hook[u]
           h == hook[u].cur
<1>1. TypeOK
  BY DEF WellFormed
<1>2. s \in HookType /\ Begun(u, h, s) /\ InHandler(s) /\ s.app \in AppData
  BY UpdateBegun DEF Update, UpdateConfig, Bootstrap, BootstrapFails, Restart,
     RestartRaises, PebbleLost, Begun, InHandler, HookType
<1>3. /\ Carried(Updated(s), s) /\ Updated(s).pc \in {"run", "ensure"}
      /\ Served(u, h, Updated(s))
  BY <1>2, UpdatedCarries, BegunServed
<1>4. CASE UpdateConfig(u)
  <2> DEFINE conf == [password |-> s.app.password, key |-> s.app.key, db |-> joined[u]]
             next == [s EXCEPT !.restart = NeedsRestart(u, s, conf)]
             b    == [next EXCEPT !.pc = "bootstrap"]
  <2>1. /\ s.pc = "manage" /\ reach[u] /\ file' = [file EXCEPT ![u] = conf]
        /\ Set(u, IF s.leader THEN b
                  ELSE IF s.app.bootstrapped THEN Restarting(next) ELSE Updated(s))
    BY <1>4 DEF UpdateConfig
  <2>2. Frame /\ UNCHANGED <<running, root, schema>>
    BY <1>4 DEF UpdateConfig, Frame, juju, operator, database
  <2>3. \E r \in BOOLEAN : next = [s EXCEPT !.restart = r]
    BY <1>2 DEF NeedsRestart, HookType
  <2>4. /\ next.restart <=> s.restart \/ file[u] # conf \/ running[u] = None
        /\ next \in HookType /\ s.restart \in BOOLEAN
    BY <1>2, <2>3 DEF NeedsRestart, HookType
  <2>5. file'[u] = conf
    BY <1>1, <2>1 DEF TypeOK
  <2>6. Begun(u, h, next) /\ next.app = s.app /\ next.wrote = s.wrote
    BY <1>2, <2>3, LocalsBegun
  <2>7. Served(u, h, b) /\ b.app = s.app /\ b.wrote = s.wrote /\ b.pc = "bootstrap"
        /\ b.restart = next.restart
    BY <2>6 DEF Begun, Served, InHandler, HookType
  <2>8. InHandler(next) /\ Carried(Restarting(next), next) /\ Served(u, h, Restarting(next))
    BY <2>6, RestartingCarries, BegunServed DEF Begun
  <2> HIDE DEF next, b, conf
  <2>9. Frame /\ UNCHANGED <<running, root, schema>> /\ s.pc = "manage" /\ reach[u]
        /\ file' = [file EXCEPT ![u] = [password |-> s.app.password, key |-> s.app.key,
                                        db |-> joined[u]]]
    BY <2>1, <2>2 DEF conf
  <2>10. CASE s.leader
    <3>1. Set(u, b)
      BY <2>1, <2>10
    <3>2. b.restart \/ (file'[u] = file[u] /\ running[u] # None)
      BY <2>4, <2>5, <2>7
    <3>3. Configured(u, b)
      BY <2>7, <2>9, <2>10, <3>1, <3>2 DEF Configured
    <3> QED
      BY <3>3
  <2>11. CASE ~s.leader /\ s.app.bootstrapped
    <3> DEFINE r == Restarting(next)
    <3>1. Set(u, r) /\ r.app = s.app /\ r.wrote = s.wrote /\ Served(u, h, r)
      BY <2>1, <2>6, <2>8, <2>11 DEF Carried
    <3>2. \/ next.restart /\ r.restart /\ r.pc = "restart"
          \/ ~next.restart /\ r.pc \in {"run", "ensure"}
      BY <2>8, RestartingCarries
    <3>3. \/ r.restart /\ r.pc = "restart"
          \/ r.pc \in {"run", "ensure"} /\ file'[u] = file[u] /\ running[u] # None
      BY <2>4, <2>5, <3>2
    <3> HIDE DEF r
    <3>4. Configured(u, r)
      BY <2>9, <2>11, <3>1, <3>3 DEF Configured
    <3> QED
      BY <3>4
  <2>12. CASE ~s.leader /\ ~s.app.bootstrapped
    <3>1. Set(u, Updated(s)) /\ Updated(s).app = s.app /\ Updated(s).wrote = s.wrote
      BY <1>3, <2>1, <2>12 DEF Carried
    <3>2. Configured(u, Updated(s))
      BY <1>3, <2>9, <2>12, <3>1 DEF Configured
    <3> QED
      BY <3>2
  <2> QED
    BY <1>2, <2>10, <2>11, <2>12 DEF HookType
<1>5. CASE Bootstrap(u)
  <2> DEFINE a == WithBootstrapped(s.app, TRUE)
             w == Wrote(s, a)
             r == [w EXCEPT !.restart = @ \/ ~s.app.bootstrapped]
  <2>1. /\ s.pc = "bootstrap" /\ reach[u] /\ schema[joined[u]]
        /\ root' = Bootstrapped(joined[u], s.app.password)
        /\ Set(u, IF leader # u THEN FailedHook(s.kind) ELSE Restarting(r))
    BY <1>5 DEF Bootstrap
  <2>2. Frame /\ UNCHANGED <<file, running, schema>>
    BY <1>5 DEF Bootstrap, Frame, juju, operator, workload
  <2>3. a \in AppData
    BY <1>2, WithBootstrappedIs
  <2>4. /\ Begun(u, h, w) /\ w.app = a /\ (w.wrote <=> s.wrote \/ a # s.app)
    BY <1>2, <2>3, WroteBegun
  <2>5. w.restart = s.restart /\ s.restart \in BOOLEAN /\ w \in HookType
        /\ s.app.bootstrapped \in BOOLEAN
    BY <1>2, <2>4 DEF Wrote, HookType, AppData, Begun, InHandler
  <2> HIDE DEF w, a
  <2>6. \E b \in BOOLEAN : r = [w EXCEPT !.restart = b]
    BY <2>5
  <2>7. r.restart <=> s.restart \/ ~s.app.bootstrapped
    BY <2>5 DEF HookType
  <2>8. Begun(u, h, r) /\ r.app = a /\ r.wrote = w.wrote
    BY <2>4, <2>6, LocalsBegun
  <2> HIDE DEF r
  <2>9. /\ Carried(Restarting(r), r) /\ Served(u, h, Restarting(r))
        /\ \/ r.restart /\ Restarting(r).restart /\ Restarting(r).pc = "restart"
           \/ ~r.restart /\ Restarting(r).pc \in {"run", "ensure"}
    BY <2>8, RestartingCarries, BegunServed DEF Begun
  <2>10. CASE leader = u
    <3>1. /\ Set(u, Restarting(r)) /\ Restarting(r).app = WithBootstrapped(s.app, TRUE)
          /\ Restarting(r).wrote <=> s.wrote \/ Restarting(r).app # s.app
      BY <2>1, <2>4, <2>8, <2>9, <2>10 DEF Carried, a
    <3>2. Booted(u, Restarting(r))
      BY <2>1, <2>2, <2>5, <2>7, <2>9, <2>10, <3>1 DEF Booted
    <3> QED
      BY <3>2
  <2>11. CASE leader # u
    <3>1. Grown
      BY <2>1, <2>2, BootstrappedIs DEF Grown
    <3> QED
      BY <2>1, <2>2, <2>11, <3>1 DEF Raised, Frame
  <2> QED
    BY <2>10, <2>11
<1>6. CASE BootstrapFails(u)
  <2>1. BootFailed(u, Updated(s))
    BY <1>3, <1>6 DEF BootstrapFails, BootFailed, Over, Frame, juju, operator, workload,
       Carried, Fault
  <2> QED
    BY <2>1
<1>7. CASE Restart(u)
  <2>1. Restarted(u, Updated(s))
    BY <1>3, <1>7 DEF Restart, Restarted, Over, Frame, juju, operator, database, Carried
  <2> QED
    BY <2>1
<1>8. CASE RestartRaises(u) \/ PebbleLost(u)
  BY <1>8 DEF RestartRaises, PebbleLost, Raised, Grown, juju, operator, workload, database
<1> QED
  BY <1>4, <1>5, <1>6, <1>7, <1>8 DEF Update

\* What makes a hook fail: an exception, the container gone, a secret that cannot be
\* read, a lease lost before bootstrap or commit.
Cause(u) ==
  \/ Fault("raise")
  \/ hook[u].pc \in {"manage", "bootstrap", "restart"} /\ ~reach[u]
  \/ Ready(u, "secret")
  \/ hook[u].pc = "bootstrap" /\ leader # u
  \/ ~MayFlush(u)

\* A step of u's hook.
Works(u) ==
  \/ \E h, hk : Handled(u, h, hk)
  \/ \E hk : Broke(u, hk) \/ Configured(u, hk) \/ Booted(u, hk) \/ BootFailed(u, hk)
             \/ Restarted(u, hk)

Fails(u) == InHook(u) /\ Raised(u) /\ Cause(u)

\* Collecting the statuses may create the schema and takes nothing.
LEMMA CollectedGrows ==
  ASSUME WellFormed, NEW u \in Units, Collected(u), root' = root
  PROVE  Grown
<1>1. schema \in [Databases -> BOOLEAN]
  BY DEF WellFormed, TypeOK
<1>2. CASE joined[u] = None
  BY <1>2 DEF Collected, Grown
<1>3. CASE joined[u] # None
  <2>1. PICK o \in SchemaOutcomes(u, hook[u]) : schema' = o.schema
    BY <1>3 DEF Collected
  <2>2. o.schema = schema \/ o.schema = [schema EXCEPT ![joined[u]] = TRUE]
    BY SchemaOutcomesAre
  <2> QED
    BY <1>1, <2>1, <2>2 DEF Grown
<1> QED
  BY <1>2, <1>3

\* The steps of the system, as the invariants below look at them.
LEMMA StepShape ==
  ASSUME WellFormed, [Next]_vars
  PROVE  \/ UNCHANGED vars
         \/ \E u \in Units : \/ Works(u) \/ Fails(u) \/ Commit(u) \/ Retry(u)
                             \/ \E kind \in Kinds : Dispatch(u, kind)
         \/ Environment
<1>1. ASSUME NEW u \in Units, Handle(u) PROVE Works(u) \/ Fails(u)
  <2>1. InHook(u)
    BY <1>1, HookStepInHook
  <2> QED
    BY <1>1, <2>1, HandleShape, BrokenShape DEF Works, Fails, Cause
<1>2. ASSUME NEW u \in Units, Update(u) PROVE Works(u) \/ Fails(u)
  <2>1. InHook(u) /\ hook[u].pc \in {"manage", "bootstrap", "restart"}
    BY <1>2, HookStepInHook DEF Update, UpdateConfig, Bootstrap, BootstrapFails, Restart,
       RestartRaises, PebbleLost
  <2> QED
    BY <1>2, <2>1, UpdateShape DEF Works, Fails, Cause
<1>3. ASSUME NEW u \in Units, CommitRefused(u) PROVE Fails(u)
  <2>1. Grown
    BY <1>3, CollectedGrows DEF CommitRefused
  <2> QED
    BY <1>3, <2>1
    DEF CommitRefused, Done, Fails, Raised, Cause, InHook, juju, operator, workload
<1>4. ASSUME NEW u \in Units, Abort(u) PROVE Fails(u)
  BY <1>4 DEF Abort, Fails, Raised, Cause, Grown, juju, operator, workload, database
<1> QED
  BY <1>1, <1>2, <1>3, <1>4 DEF Next, HookStep

\* Only the hook of the unit that steps changes.
LEMMA OneHook ==
  ASSUME WellFormed, NEW u \in Units, NEW hk, Set(u, hk)
  PROVE  hook'[u] = hk /\ \A v \in Units : v # u => hook'[v] = hook[v]
BY DEF Set, WellFormed, TypeOK

\* A step of a hook keeps its event and its captured lease, and leaves the rest of the
\* system alone.
LEMMA WorksKeeps ==
  ASSUME WellFormed, NEW u \in Units, Works(u)
  PROVE  /\ Frame /\ InHook(u) /\ InHook(u)'
         /\ \A v \in Units : v # u => hook'[v] = hook[v]
         /\ hook'[u].kind = hook[u].kind /\ hook'[u].leader = hook[u].leader
         /\ hook'[u].deposed = hook[u].deposed
         /\ \A v \in Units : v # u => file'[v] = file[v] /\ running'[v] = running[v]
         /\ Grown
<1>1. /\ file \in [Units -> Conf \cup {None}] /\ running \in [Units -> Conf \cup {None}]
      /\ root \in [Databases -> Passwords \cup {None}]
  BY DEF WellFormed, TypeOK
<1>2. ASSUME NEW h, NEW hk, Served(u, h, hk), Set(u, hk), Frame,
             hook[u].pc \notin {"idle", "error"}, hk.pc \notin {"idle", "error"}, Grown,
             file' = file \/ (\E f : file' = [file EXCEPT ![u] = f]),
             running' = running \/ (\E f : running' = [running EXCEPT ![u] = f])
      PROVE  /\ Frame /\ InHook(u) /\ InHook(u)'
             /\ \A v \in Units : v # u => hook'[v] = hook[v]
             /\ hook'[u].kind = hook[u].kind /\ hook'[u].leader = hook[u].leader
             /\ hook'[u].deposed = hook[u].deposed
             /\ \A v \in Units : v # u => file'[v] = file[v] /\ running'[v] = running[v]
             /\ Grown
  <2>1. hook'[u] = hk /\ \A v \in Units : v # u => hook'[v] = hook[v]
    BY <1>2, OneHook
  <2> QED
    BY <1>1, <1>2, <2>1 DEF InHook, Served
<1>3. ASSUME UNCHANGED <<root, schema>> PROVE Grown
  BY <1>3 DEF Grown
<1>4. ASSUME NEW h, NEW hk, Handled(u, h, hk)
      PROVE  \E g : /\ Served(u, g, hk) /\ Set(u, hk) /\ Frame /\ Grown
                    /\ hook[u].pc \notin {"idle", "error"} /\ hk.pc \notin {"idle", "error"}
                    /\ file' = file /\ running' = running
  BY <1>4 DEF Handled
<1>5. ASSUME NEW hk, Broke(u, hk) \/ Configured(u, hk) \/ Restarted(u, hk)
      PROVE  \E g : /\ Served(u, g, hk) /\ Set(u, hk) /\ Frame /\ Grown
                    /\ hook[u].pc \notin {"idle", "error"} /\ hk.pc \notin {"idle", "error"}
                    /\ file' = file \/ (\E f : file' = [file EXCEPT ![u] = f])
                    /\ running' = running \/ (\E f : running' = [running EXCEPT ![u] = f])
  BY <1>3, <1>5 DEF Broke, Configured, Restarted, Over
<1>6. ASSUME NEW hk, Booted(u, hk) \/ BootFailed(u, hk)
      PROVE  \E g : /\ Served(u, g, hk) /\ Set(u, hk) /\ Frame /\ Grown
                    /\ hook[u].pc \notin {"idle", "error"} /\ hk.pc \notin {"idle", "error"}
                    /\ file' = file /\ running' = running
  <2>1. schema' = schema /\ \A d \in Databases : root[d] # None => root'[d] # None
    BY <1>6, BootstrappedIs DEF Booted, BootFailed, Over
  <2> QED
    BY <1>6, <2>1 DEF Booted, BootFailed, Over, Grown
<1> QED
  BY <1>2, <1>4, <1>5, <1>6 DEF Works

\* A hook that fails keeps its event; no service starts and no file is written.
LEMMA FailsKeeps ==
  ASSUME WellFormed, NEW u \in Units, Fails(u)
  PROVE  /\ UNCHANGED <<leader, peers, notices, app, deferred, secret, storage, rel, joined,
                        reach, file>>
         /\ InHook(u) /\ ~InHook(u)'
         /\ \A v \in Units : v # u => hook'[v] = hook[v]
         /\ hook'[u].kind = hook[u].kind /\ hook'[u].pc = "error"
         /\ \A v \in Units : running'[v] = running[v] \/ (v = u /\ running'[v] = None)
         /\ Grown
<1>1. hook'[u] = FailedHook(hook[u].kind) /\ \A v \in Units : v # u => hook'[v] = hook[v]
  BY OneHook DEF Fails, Raised
<1>2. FailedHook(hook[u].kind).kind = hook[u].kind /\ FailedHook(hook[u].kind).pc = "error"
  BY DEF FailedHook, IdleHook
<1>3. running \in [Units -> Conf \cup {None}]
  BY DEF WellFormed, TypeOK
<1> QED
  BY <1>1, <1>2, <1>3 DEF Fails, Raised, InHook

\* The environment changes no hook but by the lease, writes nothing and starts nothing.
LEMMA EnvironmentKeeps ==
  ASSUME WellFormed, Environment
  PROVE  /\ UNCHANGED <<app, deferred, root, schema>>
         /\ \A v \in Units :
              /\ running'[v] \in {running[v], None}
              /\ hook'[v].pc = hook[v].pc /\ hook'[v].kind = hook[v].kind
              /\ hook'[v].leader = hook[v].leader /\ hook'[v].app = hook[v].app
              /\ hook'[v].todo = hook[v].todo /\ hook'[v].again = hook[v].again
              /\ hook'[v].wrote = hook[v].wrote /\ hook'[v].defers = hook[v].defers
              /\ hook'[v].cur = hook[v].cur /\ hook'[v].restart = hook[v].restart
<1>1. /\ hook \in [Units -> HookType] /\ leader \in Units
      /\ running \in [Units -> Conf \cup {None}]
  BY DEF WellFormed, TypeOK
<1>2. UNCHANGED <<app, deferred, root, schema>>
  BY DEF Environment, Elect, ContainerRestart, PebbleUp, MetastoreJoined, CreatePeers,
     SetSystemUser, ToggleStorage, RelateMetastore, RemoveMetastore, juju, database
<1>3. \A v \in Units : running'[v] \in {running[v], None}
  BY <1>1 DEF Environment, Elect, ContainerRestart, PebbleUp, MetastoreJoined,
     CreatePeers, SetSystemUser, ToggleStorage, RelateMetastore, RemoveMetastore, workload
<1>4. hook' = hook \/ hook' = [hook EXCEPT ![leader].deposed = InHook(leader)]
  BY DEF Environment, Elect, ContainerRestart, PebbleUp, MetastoreJoined, CreatePeers,
     SetSystemUser, ToggleStorage, RelateMetastore, RemoveMetastore
<1>5. CASE hook' = hook
  BY <1>2, <1>3, <1>5
<1>6. CASE hook' = [hook EXCEPT ![leader].deposed = InHook(leader)]
  <2> DEFINE old == hook[leader]
             b   == InHook(leader)
             new == [old EXCEPT !.deposed = b]
  <2>1. old \in HookType
    BY <1>1
  <2>2. /\ new.pc = old.pc /\ new.kind = old.kind /\ new.leader = old.leader
        /\ new.app = old.app /\ new.todo = old.todo /\ new.again = old.again
        /\ new.wrote = old.wrote /\ new.defers = old.defers /\ new.cur = old.cur
        /\ new.restart = old.restart
    BY <2>1 DEF HookType
  <2>3. hook'[leader] = new /\ \A v \in Units : v # leader => hook'[v] = hook[v]
    BY <1>1, <1>6
  <2> HIDE DEF new
  <2> QED
    BY <1>2, <1>3, <2>2, <2>3
<1> QED
  BY <1>4, <1>5, <1>6

-------------------------------------------------------------------------------
(* Where the services run                                                   *)
(*                                                                          *)
(* A service is started with the file its hook wrote, on the database the   *)
(* unit then saw; the relation cannot change under a hook, and its removal  *)
(* is seen by the one hook that stops the service.                          *)

\* u has still to handle the removal of the metastore, or is at it.
Leaving(u) == "metastore_broken" \in notices[u] \cup {hook[u].kind}

\* What update writes to the configuration of u.
ConfOf(u) == [password |-> hook[u].app.password, key |-> hook[u].app.key, db |-> joined[u]]

\* The units that see a database see the related one, or have to leave it, and no unit
\* has to leave before the relation is removed.
Attached ==
  /\ \A u \in Units : joined[u] # None =>
       IF rel # None THEN joined[u] = rel ELSE "metastore_broken" \in notices[u]
  /\ rel # None => \A u \in Units : ~Leaving(u)
  /\ \A u, v \in Units : joined[u] # None /\ joined[v] # None => joined[u] = joined[v]

\* Where a hook stands tells what it found and wrote, and a service runs on the database
\* of its unit until that leaves.
Placed(u) ==
  /\ hook[u].pc = "idle" => hook[u].kind = None
  /\ hook[u].pc \in {"manage", "bootstrap", "restart"} => peers /\ joined[u] # None
  /\ hook[u].pc = "bootstrap" => hook[u].leader
  /\ hook[u].pc = "restart" => hook[u].app.bootstrapped
  /\ hook[u].pc \in {"bootstrap", "restart"} /\ reach[u] => file[u] = ConfOf(u)
  /\ ~reach[u] => file[u] = None /\ running[u] = None
  /\ hook[u].kind = "metastore_broken" => joined[u] = None
  /\ InHook(u) /\ hook[u].kind = "metastore_broken" =>
       hook[u].todo = <<"broken">> \/ (hook[u].todo = <<>> /\ running[u] = None)
  /\ running[u] # None /\ ~Leaving(u) => running[u].db = joined[u]

Located == WellFormed /\ Attached /\ \A u \in Units : Placed(u)

\* The event of an idle unit is none of Juju's.
LEMMA NoneIsNoKind == None \notin Kinds /\ None # "metastore_broken"
BY ConstantsAssumption DEF Kinds

\* Where a unit stands does not depend on the others.
LEMMA PlacedAlone ==
  ASSUME NEW u, Placed(u), hook'[u] = hook[u], joined'[u] = joined[u], reach'[u] = reach[u],
         file'[u] = file[u], running'[u] = running[u], peers => peers',
         "metastore_broken" \in notices[u] => "metastore_broken" \in notices'[u]
  PROVE  Placed(u)'
BY DEF Placed, InHook, ConfOf, Leaving

\* As long as the relation and the events of the hooks stay, the units stay attached.
LEMMA AttachedKept ==
  ASSUME Attached, rel' = rel, joined' = joined, notices' = notices,
         \A u \in Units : hook'[u].kind = hook[u].kind
  PROVE  Attached'
BY DEF Attached, Leaving

\* A step of a hook, whatever it does, leaves its unit in place.
LEMMA WorksPlaced ==
  ASSUME Located, NEW u \in Units, Works(u)
  PROVE  Attached' /\ \A v \in Units : Placed(v)'
<1>1. WellFormed /\ Placed(u) /\ Attached
  BY DEF Located
<1>2. /\ Frame /\ InHook(u)
      /\ \A v \in Units : v # u => hook'[v] = hook[v]
      /\ hook'[u].kind = hook[u].kind
      /\ \A v \in Units : v # u => file'[v] = file[v] /\ running'[v] = running[v]
  BY <1>1, WorksKeeps
<1>3. Attached'
  BY <1>1, <1>2, AttachedKept DEF Frame
<1>4. ASSUME NEW v \in Units, v # u PROVE Placed(v)'
  BY <1>2, <1>4, PlacedAlone DEF Located, Frame
<1>5. /\ file \in [Units -> Conf \cup {None}] /\ running \in [Units -> Conf \cup {None}]
      /\ hook[u].todo \in Seq(Handlers)
  BY <1>1 DEF WellFormed, TypeOK, HookType
<1> DEFINE only == <<"broken">>
<1>5a. Head(only) = "broken" /\ Tail(only) = <<>> /\ only # <<>>
  OBVIOUS
<1> HIDE DEF only
<1>6. ASSUME hook[u].kind = "metastore_broken"
      PROVE  joined[u] = None /\ hook[u].pc \notin {"manage", "bootstrap", "restart"}
  BY <1>1, <1>6 DEF Placed
<1>7. ASSUME NEW h, NEW hk, Handled(u, h, hk) PROVE Placed(u)'
  <2>1. hook'[u] = hk
    BY <1>1, <1>7, OneHook DEF Handled
  <2>2. /\ hk.pc \in {"run", "ensure", "manage"}
        /\ hk.pc = "manage" => peers /\ joined[u] # None
        /\ file' = file /\ running' = running
    BY <1>7 DEF Handled
  <2>3. hk.kind = "metastore_broken" =>
          hk.todo = <<"broken">> \/ (hk.todo = <<>> /\ running[u] = None)
    BY <1>1, <1>2, <1>5a, <1>7, <2>1 DEF Handled, Served, Placed, only
  <2> QED
    BY <1>1, <1>2, <2>1, <2>2, <2>3 DEF Placed, Frame, InHook, Leaving
<1>8. ASSUME NEW hk, Broke(u, hk) PROVE Placed(u)'
  <2>1. hook'[u] = hk /\ hk.pc = "run" /\ hk.kind = hook[u].kind
    BY <1>1, <1>8, OneHook DEF Broke, Served
  <2>2. running'[u] = None /\ file'[u] = file[u]
    BY <1>1, <1>5, <1>8 DEF Broke, Placed
  <2>3. hk.kind = "metastore_broken" => hk.todo = <<"broken">> \/ hk.todo = <<>>
    BY <1>1, <1>2, <1>5a, <1>8, <2>1 DEF Broke, Served, Placed, only
  <2> QED
    BY <1>1, <1>2, <2>1, <2>2, <2>3 DEF Placed, Frame, InHook, Leaving
<1>9. ASSUME NEW hk, Configured(u, hk) PROVE Placed(u)'
  <2>1. hook'[u] = hk /\ hk.leader = hook[u].leader /\ hk.app = hook[u].app
    BY <1>1, <1>9, OneHook DEF Configured, Served
  <2>2. /\ peers /\ joined[u] # None /\ reach[u] /\ running' = running
        /\ file'[u] = ConfOf(u)
        /\ hook[u].kind # "metastore_broken"
    BY <1>1, <1>5, <1>6, <1>9 DEF Configured, Placed, ConfOf
  <2>3. /\ hk.pc \in {"bootstrap", "restart", "run", "ensure"}
        /\ hk.pc = "bootstrap" => hk.leader
        /\ hk.pc = "restart" => hk.app.bootstrapped
    BY <1>9, <2>1 DEF Configured
  <2>4. ConfOf(u)' = ConfOf(u)
    BY <1>2, <2>1 DEF ConfOf, Frame
  <2> QED
    BY <1>1, <1>2, <2>1, <2>2, <2>3, <2>4 DEF Placed, Frame, InHook, Leaving
<1>10. ASSUME NEW hk, Booted(u, hk) PROVE Placed(u)'
  <2>1. /\ hook'[u] = hk /\ hook[u].pc = "bootstrap"
        /\ hk.app = WithBootstrapped(hook[u].app, TRUE)
    BY <1>1, <1>10, OneHook DEF Booted
  <2>2. hook[u].app \in AppData
    BY <1>1 DEF WellFormed, TypeOK, HookType
  <2>3. /\ hk.app.bootstrapped /\ hk.app.password = hook[u].app.password
        /\ hk.app.key = hook[u].app.key
    BY <2>1, <2>2, WithBootstrappedIs
  <2>4. ConfOf(u)' = ConfOf(u)
    BY <1>2, <2>1, <2>3 DEF ConfOf, Frame
  <2>5. hk.pc \in {"restart", "run", "ensure"} /\ file' = file /\ running' = running
    BY <1>10 DEF Booted
  <2> QED
    BY <1>1, <1>2, <1>6, <2>1, <2>3, <2>4, <2>5 DEF Placed, Frame, InHook, Leaving
<1>11. ASSUME NEW hk, BootFailed(u, hk) PROVE Placed(u)'
  <2>1. /\ hook'[u] = hk /\ hook[u].pc = "bootstrap" /\ hk.pc \in {"run", "ensure"}
        /\ file' = file /\ running' = running
    BY <1>1, <1>11, OneHook DEF BootFailed, Over
  <2> QED
    BY <1>1, <1>2, <1>6, <2>1 DEF Placed, Frame, InHook, Leaving
<1>12. ASSUME NEW hk, Restarted(u, hk) PROVE Placed(u)'
  <2>1. /\ hook'[u] = hk /\ hook[u].pc = "restart" /\ hk.pc \in {"run", "ensure"}
        /\ file' = file /\ reach[u]
    BY <1>1, <1>12, OneHook DEF Restarted, Over
  <2>2. running'[u] = ConfOf(u) /\ ConfOf(u).db = joined[u]
    BY <1>1, <1>5, <1>12, <2>1 DEF Restarted, Placed, ConfOf
  <2> QED
    BY <1>1, <1>2, <1>6, <2>1, <2>2 DEF Placed, Frame, InHook, Leaving
<1> QED
  BY <1>3, <1>4, <1>7, <1>8, <1>9, <1>10, <1>11, <1>12 DEF Works

\* Neither does a hook that fails, commits or is run again.
LEMMA JujuPlaced ==
  ASSUME Located, NEW u \in Units,
         Fails(u) \/ Commit(u) \/ Retry(u) \/ \E kind \in Kinds : Dispatch(u, kind)
  PROVE  Attached' /\ \A v \in Units : Placed(v)'
<1>1. WellFormed /\ Placed(u) /\ Attached
  BY DEF Located
<1>2. /\ joined \in [Units -> Databases \cup {None}] /\ notices \in [Units -> SUBSET Kinds]
      /\ running \in [Units -> Conf \cup {None}]
  BY <1>1 DEF WellFormed, TypeOK
<1>3. CASE Fails(u)
  <2>1. /\ UNCHANGED <<peers, notices, rel, joined, reach, file>>
        /\ \A v \in Units : v # u => hook'[v] = hook[v]
        /\ hook'[u].kind = hook[u].kind /\ hook'[u].pc = "error"
        /\ \A v \in Units : running'[v] = running[v] \/ (v = u /\ running'[v] = None)
    BY <1>1, <1>3, FailsKeeps
  <2>2. Attached'
    BY <1>1, <2>1, AttachedKept
  <2>3. ASSUME NEW v \in Units, v # u PROVE Placed(v)'
    BY <2>1, <2>3, PlacedAlone DEF Located
  <2>4. Placed(u)'
    BY <1>1, <2>1 DEF Placed, InHook, Leaving
  <2> QED
    BY <2>2, <2>3, <2>4
<1>4. CASE Commit(u)
  <2>1. /\ UNCHANGED <<peers, notices, rel, joined, reach, file, running>>
        /\ hook'[u] = IdleHook /\ \A v \in Units : v # u => hook'[v] = hook[v]
        /\ hook[u].todo = <<>> /\ InHook(u)
    BY <1>1, <1>4, OneHook DEF Commit, juju, operator, workload, Done, InHook
  <2>2. IdleHook.pc = "idle" /\ IdleHook.kind = None
    BY DEF IdleHook
  <2>3. hook[u].kind = "metastore_broken" => running[u] = None
    BY <1>1, <2>1 DEF Placed
  <2>4. Attached'
    BY <1>1, <2>1, <2>2, NoneIsNoKind DEF Attached, Leaving
  <2>5. ASSUME NEW v \in Units, v # u PROVE Placed(v)'
    BY <2>1, <2>5, PlacedAlone DEF Located
  <2>6. Placed(u)'
    BY <1>1, <2>1, <2>2, <2>3, NoneIsNoKind DEF Placed, InHook, Leaving
  <2> QED
    BY <2>4, <2>5, <2>6
<1>5. CASE Retry(u)
  <2> DEFINE n == NewHook(u, hook[u].kind)
  <2>1. /\ UNCHANGED <<peers, notices, rel, joined, reach, file, running>>
        /\ hook'[u] = n /\ \A v \in Units : v # u => hook'[v] = hook[v]
    BY <1>1, <1>5, OneHook DEF Retry, juju, operator, workload
  <2>2. n.pc = "run" /\ n.kind = hook[u].kind /\ n.todo = HandlersOf(hook[u].kind)
    BY DEF NewHook
  <2> HIDE DEF n
  <2>3. HandlersOf("metastore_broken") = <<"broken">>
    BY DEF HandlersOf
  <2>4. Attached'
    BY <1>1, <2>1, <2>2, AttachedKept
  <2>5. ASSUME NEW v \in Units, v # u PROVE Placed(v)'
    BY <2>1, <2>5, PlacedAlone DEF Located
  <2>6. Placed(u)'
    BY <1>1, <2>1, <2>2, <2>3 DEF Placed, InHook, Leaving
  <2> QED
    BY <2>4, <2>5, <2>6
<1>6. ASSUME NEW kind \in Kinds, Dispatch(u, kind)
      PROVE  Attached' /\ \A v \in Units : Placed(v)'
  <2> DEFINE n == NewHook(u, kind)
  <2>1. /\ UNCHANGED <<peers, rel, reach, file, running>> /\ hook[u].pc = "idle"
        /\ hook'[u] = n /\ \A v \in Units : v # u => hook'[v] = hook[v]
        /\ kind = "metastore_broken" => kind \in notices[u]
    BY <1>1, <1>6, OneHook DEF Dispatch, Deliverable, operator, workload
  <2>2. n.pc = "run" /\ n.kind = kind /\ n.todo = HandlersOf(kind)
    BY DEF NewHook
  <2> HIDE DEF n
  <2>3. HandlersOf("metastore_broken") = <<"broken">>
    BY DEF HandlersOf
  <2>4. /\ \A v \in Units : v # u => joined'[v] = joined[v] /\ notices'[v] = notices[v]
        /\ joined'[u] = IF kind = "metastore_broken" THEN None ELSE joined[u]
        /\ notices'[u] = notices[u] \ {kind}
    BY <1>2, <1>6 DEF Dispatch
  <2>5. Leaving(u)' <=> Leaving(u)
    BY <1>1, <2>1, <2>2, <2>4, NoneIsNoKind DEF Leaving, Placed
  <2>6. Attached'
    <3>1. \A v \in Units : Leaving(v)' <=> Leaving(v)
      BY <2>1, <2>4, <2>5 DEF Leaving
    <3>2. \A v \in Units : joined'[v] # None =>
            joined'[v] = joined[v] /\ ("metastore_broken" \in notices[v]
                                         => "metastore_broken" \in notices'[v])
      BY <2>4
    <3> QED
      BY <1>1, <2>1, <3>1, <3>2 DEF Attached
  <2>7. ASSUME NEW v \in Units, v # u PROVE Placed(v)'
    BY <2>1, <2>4, <2>7, PlacedAlone DEF Located
  <2>8. Placed(u)'
    <3>1. kind = "metastore_broken" => Leaving(u)
      BY <2>1 DEF Leaving
    <3>2. running[u] # None /\ ~Leaving(u)' => running[u].db = joined'[u]
      BY <1>1, <2>4, <2>5, <3>1 DEF Placed
    <3> QED
      BY <1>1, <2>1, <2>2, <2>3, <2>4, <3>2 DEF Placed, InHook
  <2> QED
    BY <2>6, <2>7, <2>8
<1> QED
  BY <1>3, <1>4, <1>5, <1>6

\* Nor does what Juju, Kubernetes and the operator do.
LEMMA EnvironmentPlaced ==
  ASSUME Located, Environment
  PROVE  Attached' /\ \A v \in Units : Placed(v)'
<1>1. WellFormed /\ Attached /\ \A v \in Units : Placed(v)
  BY DEF Located
<1>2. /\ joined \in [Units -> Databases \cup {None}] /\ notices \in [Units -> SUBSET Kinds]
      /\ running \in [Units -> Conf \cup {None}] /\ file \in [Units -> Conf \cup {None}]
      /\ reach \in [Units -> BOOLEAN] /\ hook \in [Units -> HookType] /\ leader \in Units
      /\ None \notin Databases
  BY <1>1, ConstantsAssumption DEF WellFormed, TypeOK
<1>3. ASSUME NEW v \in Units, Elect(v) PROVE Attached' /\ \A w \in Units : Placed(w)'
  <2>1. UNCHANGED <<peers, notices, rel, joined, reach, file, running>>
    BY <1>3 DEF Elect, operator, workload
  <2>2. \A w \in Units :
          /\ hook'[w].pc = hook[w].pc /\ hook'[w].kind = hook[w].kind
          /\ hook'[w].leader = hook[w].leader /\ hook'[w].app = hook[w].app
          /\ hook'[w].todo = hook[w].todo
    BY <1>2, <1>3 DEF Elect, HookType
  <2>3. Attached'
    BY <1>1, <2>1, <2>2, AttachedKept
  <2>4. ASSUME NEW w \in Units PROVE Placed(w)'
    BY <1>1, <2>1, <2>2 DEF Placed, InHook, ConfOf, Leaving
  <2> QED
    BY <2>3, <2>4
<1>4. ASSUME NEW v \in Units, ContainerRestart(v)
      PROVE  Attached' /\ \A w \in Units : Placed(w)'
  <2>1. /\ UNCHANGED <<peers, notices, rel, joined, hook>>
        /\ reach'[v] = FALSE /\ file'[v] = None /\ running'[v] = None
        /\ \A w \in Units : w # v => reach'[w] = reach[w] /\ file'[w] = file[w]
                                     /\ running'[w] = running[w]
    BY <1>2, <1>4 DEF ContainerRestart, juju, operator
  <2>2. Attached'
    BY <1>1, <2>1, AttachedKept
  <2>3. ASSUME NEW w \in Units, w # v PROVE Placed(w)'
    BY <1>1, <2>1, <2>3, PlacedAlone
  <2>4. Placed(v)'
    BY <1>1, <2>1 DEF Placed, InHook
  <2> QED
    BY <2>2, <2>3, <2>4
<1>5. ASSUME NEW v \in Units, PebbleUp(v) PROVE Attached' /\ \A w \in Units : Placed(w)'
  <2>1. /\ UNCHANGED <<peers, rel, joined, hook, file, running>> /\ ~InHook(v)
        /\ \A w \in Units : w # v => reach'[w] = reach[w] /\ notices'[w] = notices[w]
        /\ notices'[v] = notices[v] \cup {"pebble_ready"} /\ reach'[v] = TRUE
    BY <1>2, <1>5 DEF PebbleUp, operator
  <2>2. \A w \in Units : Leaving(w)' <=> Leaving(w)
    BY <2>1 DEF Leaving
  <2>3. Attached'
    BY <1>1, <2>1, <2>2 DEF Attached
  <2>4. ASSUME NEW w \in Units, w # v PROVE Placed(w)'
    BY <1>1, <2>1, <2>4, PlacedAlone
  <2>5. Placed(v)'
    BY <1>1, <2>1, <2>2 DEF Placed, InHook
  <2> QED
    BY <2>3, <2>4, <2>5
<1>6. ASSUME NEW v \in Units, MetastoreJoined(v)
      PROVE  Attached' /\ \A w \in Units : Placed(w)'
  <2>1. /\ UNCHANGED <<peers, notices, rel, reach, hook, file, running>>
        /\ hook[v].pc = "idle" /\ rel # None /\ joined[v] = None /\ joined'[v] = rel
        /\ \A w \in Units : w # v => joined'[w] = joined[w]
    BY <1>2, <1>6 DEF MetastoreJoined, juju, operator, workload
  <2>2. Attached'
    BY <1>1, <2>1 DEF Attached, Leaving
  <2>3. ASSUME NEW w \in Units, w # v PROVE Placed(w)'
    BY <1>1, <2>1, <2>3, PlacedAlone
  <2>4. running[v] = None
    <3>1. ~Leaving(v) /\ Placed(v)
      BY <1>1, <2>1 DEF Attached
    <3>2. running[v] # None => running[v].db \in Databases
      BY <1>2 DEF Conf
    <3> QED
      BY <1>2, <2>1, <3>1, <3>2 DEF Placed
  <2>5. Placed(v)'
    BY <1>1, <2>1, <2>4, NoneIsNoKind DEF Placed, InHook
  <2> QED
    BY <2>2, <2>3, <2>5
<1>7. CASE CreatePeers \/ SetSystemUser \/ ToggleStorage
  <2>1. UNCHANGED <<notices, rel, joined, reach, hook, file, running>> /\ (peers => peers')
    BY <1>7 DEF CreatePeers, SetSystemUser, ToggleStorage, juju, operator, workload
  <2>2. Attached'
    BY <1>1, <2>1, AttachedKept
  <2> QED
    BY <1>1, <2>1, <2>2, PlacedAlone
<1>8. CASE RelateMetastore
  <2>1. /\ UNCHANGED <<peers, notices, joined, reach, hook, file, running>>
        /\ \A v \in Units : joined[v] = None /\ ~Leaving(v)
    BY <1>8 DEF RelateMetastore, Detached, Leaving, juju, workload
  <2>2. Attached'
    BY <2>1 DEF Attached, Leaving
  <2> QED
    BY <1>1, <2>1, <2>2, PlacedAlone
<1>9. CASE RemoveMetastore
  <2>1. /\ UNCHANGED <<peers, joined, reach, hook, file, running>> /\ rel' = None
        /\ \A v \in Units : "metastore_broken" \in notices'[v]
    BY <1>9 DEF RemoveMetastore, workload
  <2>2. Attached'
    BY <1>1, <2>1 DEF Attached
  <2> QED
    BY <1>1, <2>1, <2>2, PlacedAlone
<1> QED
  BY <1>3, <1>4, <1>5, <1>6, <1>7, <1>8, <1>9 DEF Environment

LEMMA InitLocated ==
  ASSUME Init
  PROVE  Located
<1>1. \A u \in Units : /\ hook[u].pc = "idle" /\ hook[u].kind = None
                       /\ joined[u] = None /\ file[u] = None /\ running[u] = None
                       /\ notices[u] = {}
  BY DEF Init, IdleHook
<1> QED
  BY <1>1, InitWellFormed, NoneIsNoKind DEF Located, Attached, Placed, InHook, Leaving

LEMMA NextLocated ==
  ASSUME Located, [Next]_vars
  PROVE  Located'
<1>1. WellFormed /\ WellFormed'
  BY NextWellFormed DEF Located
<1>2. CASE UNCHANGED vars
  <2>1. UNCHANGED <<peers, notices, rel, joined, reach, hook, file, running>>
    BY <1>2 DEF vars
  <2>2. Attached'
    BY <2>1, AttachedKept DEF Located
  <2> QED
    BY <1>1, <2>1, <2>2, PlacedAlone DEF Located
<1> QED
  BY <1>1, <1>2, StepShape, WorksPlaced, JujuPlaced, EnvironmentPlaced DEF Located

\* Whatever goes wrong, a service between two hooks runs on the database its unit is
\* related to, unless the removal of that relation has still to be handled.
THEOREM RunsWhereRelated == Spec => []RunsOnRelatedDatabase
<1>1. Located => RunsOnRelatedDatabase
  <2> SUFFICES ASSUME Located, NEW u \in Units, hook[u].pc = "idle", running[u] # None,
                      "metastore_broken" \notin notices[u]
               PROVE  running[u].db = joined[u]
    BY DEF RunsOnRelatedDatabase
  <2>1. Placed(u) /\ hook[u].kind = None
    BY DEF Located, Placed
  <2> QED
    BY <2>1, NoneIsNoKind DEF Placed, Leaving
<1> QED
  BY <1>1, InitLocated, NextLocated, PTL DEF Spec

-------------------------------------------------------------------------------
(* One database                                                             *)
(*                                                                          *)
(* With one database the flag never has to go down: wherever it is up, in   *)
(* the databag or in the view of a hook, the database was bootstrapped.     *)

\* The database has its schema and a root principal.
Filled == \A d \in Databases : root[d] # None /\ schema[d]

\* What a databag with the flag up says.
Known(a) == a.bootstrapped => ClusterReady(a) /\ Filled

\* The flag is right wherever it is seen, and services are where it is up.
Rooted(u) ==
  /\ InHook(u) => Known(hook[u].app)
  /\ hook[u].pc = "restart" => Filled
  /\ running[u] # None => Filled

OneRooted == WellFormed /\ Known(app) /\ \A u \in Units : Rooted(u)

\* The database stays filled.
LEMMA FilledKept ==
  ASSUME Grown
  PROVE  /\ Filled => Filled'
         /\ \A a : Known(a) => (a.bootstrapped => ClusterReady(a) /\ Filled')
BY DEF Grown, Filled, Known

\* A unit that does nothing keeps what it knows.
LEMMA RootedAlone ==
  ASSUME NEW u, Rooted(u), Grown, running'[u] \in {running[u], None},
         hook'[u] = hook[u] \/ (hook'[u].pc = hook[u].pc /\ hook'[u].app = hook[u].app)
  PROVE  Rooted(u)'
<1>1. /\ hook'[u].pc = hook[u].pc /\ hook'[u].app = hook[u].app
      /\ Filled => Filled'
  BY FilledKept
<1>2. Known(hook[u].app) => Known(hook[u].app)'
  BY <1>1 DEF Known, ClusterReady
<1> QED
  BY <1>1, <1>2 DEF Rooted, InHook

\* A step of a hook.
LEMMA WorksRooted ==
  ASSUME OneDatabase, OneRooted, NEW u \in Units, Works(u)
  PROVE  Known(app)' /\ \A v \in Units : Rooted(v)'
<1>1. WellFormed /\ Rooted(u) /\ Known(app)
  BY DEF OneRooted
<1>2. /\ Frame /\ InHook(u) /\ Grown
      /\ \A v \in Units : v # u => hook'[v] = hook[v] /\ running'[v] = running[v]
  BY <1>1, WorksKeeps
<1>3. Known(app)'
  BY <1>1, <1>2, FilledKept DEF Known, Frame, ClusterReady
<1>4. ASSUME NEW v \in Units, v # u PROVE Rooted(v)'
  BY <1>2, <1>4, RootedAlone DEF OneRooted
<1>5. Known(hook[u].app) /\ hook[u].app \in AppData /\ running \in [Units -> Conf \cup {None}]
  BY <1>1, <1>2 DEF Rooted, WellFormed, TypeOK, HookType
<1>6. ASSUME NEW hk, hook'[u] = hk, Known(hk.app)', hk.pc = "restart" => Filled',
             running'[u] \in {running[u], None} \/ Filled'
      PROVE  Rooted(u)'
  BY <1>1, <1>2, <1>6, FilledKept DEF Rooted
<1>7. ASSUME NEW h, NEW hk, Handled(u, h, hk) PROVE Rooted(u)'
  <2>1. hook'[u] = hk /\ hk \in HookType
    BY <1>1, <1>7, OneHook DEF Handled, Served
  <2>2. /\ hk.app \in AppData /\ Advances(hk.app, hook[u].app)
        /\ hk.app.bootstrapped = hook[u].app.bootstrapped
    BY <1>7, <2>1 DEF Handled, HookType
  <2>3. Known(hk.app)'
    BY <1>2, <1>5, <2>2, AdvancesReady, FilledKept DEF Known, ClusterReady
  <2> QED
    BY <1>6, <1>7, <2>1, <2>3 DEF Handled
<1>8. ASSUME NEW hk, Broke(u, hk) PROVE Rooted(u)'
  <2>1. /\ hook'[u] = hk /\ hk.pc = "run" /\ running'[u] \in {running[u], None}
        /\ hk.app \in {WithBootstrapped(hook[u].app, FALSE), hook[u].app}
    BY <1>1, <1>5, <1>8, OneHook DEF Broke
  <2>2. hk.app.bootstrapped => hk.app = hook[u].app
    BY <1>5, <2>1, WithBootstrappedIs
  <2>3. Known(hk.app)'
    BY <1>2, <1>5, <2>2, FilledKept DEF Known, ClusterReady
  <2> QED
    BY <1>6, <2>1, <2>3
<1>9. ASSUME NEW hk, Configured(u, hk) \/ BootFailed(u, hk) \/ Restarted(u, hk)
      PROVE  Rooted(u)'
  <2>1. /\ hook'[u] = hk /\ hk.app = hook[u].app
        /\ hk.pc = "restart" => hk.app.bootstrapped
        /\ running' = running \/ hook[u].pc = "restart"
    BY <1>1, <1>9, OneHook DEF Configured, BootFailed, Restarted, Over
  <2>2. Known(hk.app)'
    BY <1>2, <1>5, <2>1, FilledKept DEF Known, ClusterReady
  <2>3. hk.pc = "restart" \/ hook[u].pc = "restart" => Filled'
    BY <1>1, <1>2, <2>1, <2>2, FilledKept DEF Known, Rooted
  <2> QED
    BY <1>6, <2>1, <2>2, <2>3
<1>10. ASSUME NEW hk, Booted(u, hk) PROVE Rooted(u)'
  <2>1. /\ hook'[u] = hk /\ hook[u].pc = "bootstrap" /\ schema[joined[u]] /\ schema' = schema
        /\ hk.app = WithBootstrapped(hook[u].app, TRUE) /\ running' = running
        /\ root' = Bootstrapped(joined[u], hook[u].app.password)
    BY <1>1, <1>10, OneHook DEF Booted
  <2>2. joined[u] \in Databases /\ ClusterReady(hook[u].app) /\ root'[joined[u]] # None
    BY <1>1, <2>1, BootstrappedIs
  <2>3. Filled'
    BY <2>1, <2>2 DEF Filled, OneDatabase
  <2>4. Known(hk.app)'
    BY <1>5, <2>1, <2>2, <2>3, WithBootstrappedIs DEF Known, ClusterReady
  <2> QED
    BY <1>6, <2>1, <2>3, <2>4
<1> QED
  BY <1>3, <1>4, <1>7, <1>8, <1>9, <1>10 DEF Works

\* The other steps.
LEMMA OtherRooted ==
  ASSUME OneRooted,
         \/ UNCHANGED vars \/ Environment
         \/ \E u \in Units : \/ Fails(u) \/ Commit(u) \/ Retry(u)
                             \/ \E kind \in Kinds : Dispatch(u, kind)
  PROVE  Known(app)' /\ \A v \in Units : Rooted(v)'
<1>1. /\ WellFormed /\ Known(app) /\ \A v \in Units : Rooted(v)
      /\ hook \in [Units -> HookType] /\ leader \in Units
      /\ running \in [Units -> Conf \cup {None}]
  BY DEF OneRooted, WellFormed, TypeOK
<1>2. ASSUME Grown, NEW u \in Units,
             \A v \in Units : v # u => hook'[v] = hook[v],
             \A v \in Units : running'[v] \in {running[v], None},
             Known(app'),
             hook'[u].pc \in {"idle", "error"} \/ (hook'[u].pc = "run" /\ hook'[u].app = app)
      PROVE  Known(app)' /\ \A v \in Units : Rooted(v)'
  <2>1. Known(app)'
    BY <1>2, FilledKept DEF Known, ClusterReady
  <2>2. ASSUME NEW v \in Units, v # u PROVE Rooted(v)'
    BY <1>1, <1>2, <2>2, RootedAlone
  <2>3. Known(app) => (app.bootstrapped => ClusterReady(app) /\ Filled')
    BY <1>2, FilledKept DEF Known
  <2>4. Rooted(u)'
    BY <1>1, <1>2, <2>3, FilledKept DEF Rooted, Known, InHook, ClusterReady
  <2> QED
    BY <2>1, <2>2, <2>4
<1>3. ASSUME NEW u \in Units, Fails(u) PROVE Known(app)' /\ \A v \in Units : Rooted(v)'
  BY <1>1, <1>2, <1>3, FailsKeeps
<1>4. ASSUME NEW u \in Units, Commit(u) PROVE Known(app)' /\ \A v \in Units : Rooted(v)'
  <2>1. /\ hook'[u] = IdleHook /\ \A v \in Units : v # u => hook'[v] = hook[v]
        /\ running' = running /\ app' \in {app, hook[u].app} /\ InHook(u) /\ Grown
    BY <1>1, <1>4, OneHook, CollectedGrows DEF Commit, workload, Done, InHook
  <2>2. Known(app') /\ IdleHook.pc = "idle"
    BY <1>1, <2>1 DEF Rooted, IdleHook
  <2> QED
    BY <1>2, <2>1, <2>2
<1>5. ASSUME NEW u \in Units, NEW kind, Set(u, NewHook(u, kind)), app' = app,
             UNCHANGED <<running, root, schema>>
      PROVE  Known(app)' /\ \A v \in Units : Rooted(v)'
  <2>1. /\ hook'[u].pc = "run" /\ hook'[u].app = app
        /\ \A v \in Units : v # u => hook'[v] = hook[v]
    BY <1>1, <1>5, OneHook DEF NewHook
  <2> QED
    BY <1>1, <1>2, <1>5, <2>1 DEF Grown
<1>6. ASSUME app' = app, Grown,
             \A v \in Units : running'[v] \in {running[v], None}
                /\ hook'[v].pc = hook[v].pc /\ hook'[v].app = hook[v].app
      PROVE  Known(app)' /\ \A v \in Units : Rooted(v)'
  <2>1. Known(app)'
    BY <1>1, <1>6, FilledKept DEF Known, ClusterReady
  <2> QED
    BY <1>1, <1>6, <2>1, RootedAlone
<1>7. CASE Environment
  <2>1. /\ app' = app /\ UNCHANGED <<root, schema>>
        /\ \A v \in Units : /\ running'[v] \in {running[v], None}
                            /\ hook'[v].pc = hook[v].pc /\ hook'[v].app = hook[v].app
    BY <1>1, <1>7, EnvironmentKeeps
  <2> QED
    BY <1>6, <2>1 DEF Grown
<1>8. CASE UNCHANGED vars
  BY <1>6, <1>8 DEF vars, Grown
<1>9. ASSUME NEW u \in Units, Retry(u) \/ \E kind \in Kinds : Dispatch(u, kind)
      PROVE  Known(app)' /\ \A v \in Units : Rooted(v)'
  BY <1>5, <1>9 DEF Retry, Dispatch, workload, database
<1> QED
  BY <1>3, <1>4, <1>7, <1>8, <1>9

LEMMA InitRooted ==
  ASSUME Init
  PROVE  OneRooted
<1>1. \A u \in Units : hook[u].pc = "idle" /\ running[u] = None
  BY DEF Init, IdleHook
<1>2. ~app.bootstrapped
  BY DEF Init, EmptyApp
<1> QED
  BY <1>1, <1>2, InitWellFormed DEF OneRooted, Rooted, Known, InHook

LEMMA NextRooted ==
  ASSUME OneDatabase, OneRooted, [Next]_vars
  PROVE  OneRooted'
<1>1. WellFormed /\ WellFormed'
  BY NextWellFormed DEF OneRooted
<1> QED
  BY <1>1, StepShape, WorksRooted, OtherRooted DEF OneRooted

\* With one database, whatever goes wrong, a service only ever runs on a database that
\* was bootstrapped.
THEOREM ServingOnOneDatabase ==
  ASSUME OneDatabase
  PROVE  Spec => []ServingImpliesBootstrapped
<1>1. OneRooted => ServingImpliesBootstrapped
  <2> SUFFICES ASSUME OneRooted, NEW u \in Units, running[u] # None
               PROVE  root[running[u].db] # None
    BY DEF ServingImpliesBootstrapped
  <2>1. running[u].db \in Databases
    BY DEF OneRooted, WellFormed, TypeOK, Conf
  <2> QED
    BY <2>1 DEF OneRooted, Rooted, Filled
<1> QED
  BY <1>1, InitRooted, NextRooted, PTL DEF Spec

-------------------------------------------------------------------------------
(* Hooks that run to their end                                              *)
(*                                                                          *)
(* A hook that fails after it changed the password in the database loses    *)
(* the databag that says so.  Where hooks run to their end, the databag of  *)
(* the leader, its view of it while it is in a hook, has the password of    *)
(* the database, and a unit that serves knows of the bootstrap.             *)

\* No hook raises, no container restarts, no answer is lost and the lease passes
\* between hooks; the operator's changes of the secret are taken up by other events.
HooksComplete ==
  /\ Faults \cap {"raise", "churn", "lost_reply", "depose", "promote"} = {}
  /\ "secret_changed" \notin Events

\* The handlers that are never deferred, or raise.
Shunned == {"broken", "secret"}

\* u's hook will run to its end, and what it has of the databag and of the lease is
\* what it may commit.
Complete(u) ==
  /\ hook[u].pc # "error" /\ hook[u].kind # "secret_changed"
  /\ (hook[u].again \cup hook[u].defers \cup deferred[u]) \cap Shunned = {}
  /\ hook[u].pc \in {"manage", "bootstrap", "restart", "ensure"} => hook[u].cur \notin Shunned
  /\ hook[u].kind # "metastore_broken" => hook[u].todo \in Seq(Handlers \ Shunned)
  /\ hook[u].pc \in {"manage", "bootstrap", "restart"} => reach[u]
  /\ InHook(u) =>
       /\ hook[u].leader <=> u = leader
       /\ ~hook[u].deposed
       /\ u # leader =>
            /\ ~hook[u].wrote
            /\ hook[u].app.bootstrapped /\ joined[u] # None => app.bootstrapped \/ Leaving(u)
       /\ u = leader =>
            /\ ~hook[u].wrote => hook[u].app = app
            /\ app.bootstrapped /\ ~hook[u].app.bootstrapped
                 => hook[u].kind = "metastore_broken"

\* A unit that serves sees the flag up, and so does whoever holds the databag.
ServiceKnown(u) ==
  running[u] # None /\ ~Leaving(u) =>
    /\ InHook(u) => hook[u].app.bootstrapped
    /\ ~(InHook(u) /\ u = leader) => app.bootstrapped

\* The databag that counts: the leader's view of it, if it is in a hook.
Charge == IF InHook(leader) THEN hook[leader].app ELSE app

Quiet ==
  /\ Located /\ OneRooted
  /\ \A u \in Units : Complete(u) /\ ServiceKnown(u)
  /\ Locked(Charge.password)

\* What a step of a hook does to the databag, the queue and the place of its hook.
LEMMA WorksServes ==
  ASSUME WellFormed, NEW u \in Units, Works(u)
  PROVE  \E h, hk :
           /\ hook'[u] = hk /\ Served(u, h, hk)
           /\ hk.wrote <=> hook[u].wrote \/ hk.app # hook[u].app
           /\ leader # u => hk.app = hook[u].app
           /\ hk.pc \in {"manage", "bootstrap", "restart"} => reach[u]
           /\ \/ /\ hook[u].pc = "run" /\ h = "broken" /\ hk.defers = hook[u].defers
                 /\ hk.pc = "run"
              \/ /\ hook[u].pc = "run" => h # "broken"
                 /\ hook[u].pc # "run" => h = hook[u].cur
                 /\ hook[u].app.bootstrapped => hk.app.bootstrapped
<1>1. hook[u] \in HookType /\ hook[u].app \in AppData /\ hook[u].wrote \in BOOLEAN
  BY DEF WellFormed, TypeOK, HookType
<1>2. ASSUME NEW h, NEW hk, Handled(u, h, hk) PROVE hook'[u] = hk
  BY <1>2, OneHook DEF Handled
<1>3. ASSUME NEW hk, Broke(u, hk) PROVE hook'[u] = hk
  BY <1>3, OneHook DEF Broke
<1>4. ASSUME NEW hk, Configured(u, hk) \/ BootFailed(u, hk) \/ Restarted(u, hk)
      PROVE  hook'[u] = hk
  BY <1>4, OneHook DEF Configured, BootFailed, Restarted, Over
<1>5. ASSUME NEW hk, Booted(u, hk) PROVE hook'[u] = hk /\ hk.app.bootstrapped
  BY <1>1, <1>5, OneHook, WithBootstrappedIs DEF Booted
<1>6. CASE \E h, hk : Handled(u, h, hk)
  <2>1. PICK h, hk : Handled(u, h, hk)
    BY <1>6
  <2> QED
    BY <1>1, <1>2, <2>1 DEF Handled
<1>7. CASE \E hk : Broke(u, hk)
  <2>1. PICK hk : Broke(u, hk)
    BY <1>7
  <2> QED
    BY <1>1, <1>3, <2>1 DEF Broke
<1>8. CASE \E hk : Configured(u, hk) \/ BootFailed(u, hk) \/ Restarted(u, hk)
  <2>1. PICK hk : Configured(u, hk) \/ BootFailed(u, hk) \/ Restarted(u, hk)
    BY <1>8
  <2>2. /\ Served(u, hook[u].cur, hk) /\ hk.wrote = hook[u].wrote /\ hk.app = hook[u].app
        /\ reach[u] /\ hook[u].pc # "run"
    BY <2>1 DEF Configured, BootFailed, Restarted, Over
  <2> QED
    BY <1>1, <1>4, <2>1, <2>2
<1>9. CASE \E hk : Booted(u, hk)
  <2>1. PICK hk : Booted(u, hk)
    BY <1>9
  <2> QED
    BY <1>1, <1>5, <2>1 DEF Booted
<1> QED
  BY <1>6, <1>7, <1>8, <1>9 DEF Works

\* The handler that runs is none of the shunned ones, but for that of the broken relation
\* in its own hook.
LEMMA ServedAside ==
  ASSUME NEW u \in Units, Placed(u), Complete(u), InHook(u), hook[u] \in HookType,
         NEW h, NEW hk, Served(u, h, hk)
  PROVE  \/ h \notin Shunned
         \/ h = "broken" /\ hook[u].kind = "metastore_broken" /\ hook[u].pc = "run"
<1>1. CASE h \in hook[u].again
  BY <1>1 DEF Complete
<1>2. CASE hook[u].pc # "run" /\ h = hook[u].cur
  BY <1>2 DEF Complete, InHook, HookType
<1>3. CASE hook[u].pc = "run" /\ hook[u].todo # <<>> /\ h = Head(hook[u].todo)
  <2>1. CASE hook[u].kind = "metastore_broken"
    <3> DEFINE only == <<"broken">>
    <3>1. Head(only) = "broken"
      OBVIOUS
    <3> HIDE DEF only
    <3>2. hook[u].todo = only
      BY <1>3, <2>1 DEF Placed, only
    <3> QED
      BY <1>3, <2>1, <3>1, <3>2
  <2>2. CASE hook[u].kind # "metastore_broken"
    <3>1. hook[u].todo \in Seq(Handlers \ Shunned)
      BY <2>2 DEF Complete
    <3> QED
      BY <1>3, <3>1
  <2> QED
    BY <2>1, <2>2
<1> QED
  BY <1>1, <1>2, <1>3 DEF Served

\* Where hooks run to their end, none fails.
LEMMA NoneFails ==
  ASSUME HooksComplete, Quiet, NEW u \in Units
  PROVE  ~Fails(u)
<1> SUFFICES ASSUME Fails(u) PROVE FALSE
  OBVIOUS
<1>1. Placed(u) /\ Complete(u) /\ InHook(u) /\ Cause(u) /\ hook[u] \in HookType
  BY DEF Quiet, Located, Fails, WellFormed, TypeOK
<1>2. CASE Fault("raise")
  BY <1>2 DEF Fault, HooksComplete
<1>3. CASE Ready(u, "secret")
  <2>1. "secret" \in Shunned
    BY DEF Shunned
  <2>2. \/ "secret" \in hook[u].again
        \/ hook[u].todo # <<>> /\ "secret" = Head(hook[u].todo)
    BY <1>3 DEF Ready
  <2>3. hook[u].todo # <<>> /\ "secret" = Head(hook[u].todo)
    BY <1>1, <2>1, <2>2 DEF Complete
  <2>4. CASE hook[u].kind = "metastore_broken"
    <3> DEFINE only == <<"broken">>
    <3>1. Head(only) = "broken"
      OBVIOUS
    <3> HIDE DEF only
    <3>2. hook[u].todo = only
      BY <1>1, <2>3, <2>4 DEF Placed, only
    <3> QED
      BY <2>3, <3>1, <3>2
  <2>5. CASE hook[u].kind # "metastore_broken"
    <3>1. hook[u].todo \in Seq(Handlers \ Shunned)
      BY <1>1, <2>5 DEF Complete
    <3> QED
      BY <2>1, <2>3, <3>1
  <2> QED
    BY <2>4, <2>5
<1>4. CASE \/ hook[u].pc \in {"manage", "bootstrap", "restart"} /\ ~reach[u]
           \/ hook[u].pc = "bootstrap" /\ leader # u
           \/ ~MayFlush(u)
  BY <1>1, <1>4 DEF Complete, Placed, MayFlush
<1> QED
  BY <1>1, <1>2, <1>3, <1>4 DEF Cause

\* What a unit in no step, and its completeness, depends on.
LEMMA CompleteAlone ==
  ASSUME NEW u, Complete(u), hook'[u] = hook[u], deferred'[u] = deferred[u],
         leader' = leader, joined'[u] = joined[u], reach'[u] = reach[u],
         notices'[u] = notices[u],
         u = leader => app' = app,
         app.bootstrapped /\ ~Leaving(u) /\ joined[u] # None => app'.bootstrapped
  PROVE  Complete(u)'
BY DEF Complete, InHook, Leaving

LEMMA ServiceAlone ==
  ASSUME NEW u, ServiceKnown(u), hook'[u] = hook[u], running'[u] = running[u],
         leader' = leader, notices'[u] = notices[u],
         running[u] # None /\ app.bootstrapped /\ ~Leaving(u) => app'.bootstrapped
  PROVE  ServiceKnown(u)'
BY DEF ServiceKnown, InHook, Leaving

\* A step of a hook leaves it complete.
LEMMA WorksComplete ==
  ASSUME Quiet, NEW u \in Units, Works(u)
  PROVE  \A v \in Units : Complete(v)'
<1>1. WellFormed /\ Placed(u) /\ Complete(u) /\ hook[u] \in HookType
  BY DEF Quiet, Located, WellFormed, TypeOK
<1>2. /\ Frame /\ InHook(u) /\ InHook(u)'
      /\ \A v \in Units : v # u => hook'[v] = hook[v]
      /\ hook'[u].kind = hook[u].kind /\ hook'[u].leader = hook[u].leader
      /\ hook'[u].deposed = hook[u].deposed
  BY <1>1, WorksKeeps
<1>3. ASSUME NEW v \in Units, v # u PROVE Complete(v)'
  BY <1>2, <1>3, CompleteAlone DEF Quiet, Frame
<1>4. PICK h, hk :
        /\ hook'[u] = hk /\ Served(u, h, hk)
        /\ hk.wrote <=> hook[u].wrote \/ hk.app # hook[u].app
        /\ leader # u => hk.app = hook[u].app
        /\ hk.pc \in {"manage", "bootstrap", "restart"} => reach[u]
        /\ \/ /\ hook[u].pc = "run" /\ h = "broken" /\ hk.defers = hook[u].defers
              /\ hk.pc = "run"
           \/ /\ hook[u].pc = "run" => h # "broken"
              /\ hook[u].pc # "run" => h = hook[u].cur
              /\ hook[u].app.bootstrapped => hk.app.bootstrapped
  BY <1>1, WorksServes
<1>5. \/ h \notin Shunned
      \/ h = "broken" /\ hook[u].kind = "metastore_broken" /\ hook[u].pc = "run"
  BY <1>1, <1>2, <1>4, ServedAside
<1>6. /\ (hk.again \cup hk.defers \cup deferred[u]) \cap Shunned = {}
      /\ hk.pc \in {"manage", "bootstrap", "restart", "ensure"} => hk.cur \notin Shunned
  BY <1>1, <1>4, <1>5 DEF Served, Complete
<1>7. hook[u].kind # "metastore_broken" => hk.todo \in Seq(Handlers \ Shunned)
  <2> DEFINE S == Handlers \ Shunned
  <2> HIDE DEF S
  <2>1. \A q \in Seq(S) : q # <<>> => Tail(q) \in Seq(S)
    OBVIOUS
  <2>2. hook[u].kind # "metastore_broken" => hook[u].todo \in Seq(S)
    BY <1>1 DEF Complete, S
  <2>3. hook[u].kind # "metastore_broken" => hk.todo \in Seq(S)
    BY <1>4, <2>1, <2>2 DEF Served
  <2> QED
    BY <2>3 DEF S
<1>8. /\ u # leader => hk.app = hook[u].app /\ ~hk.wrote
      /\ u = leader =>
           /\ ~hk.wrote => hk.app = app
           /\ app.bootstrapped /\ ~hk.app.bootstrapped => hook[u].kind = "metastore_broken"
  BY <1>1, <1>2, <1>4, <1>5 DEF Complete, Shunned
<1>9. Complete(u)'
  <2>1. hk.pc # "error"
    BY <1>2, <1>4 DEF InHook
  <2> QED
    BY <1>1, <1>2, <1>4, <1>6, <1>7, <1>8, <2>1 DEF Complete, Frame, Leaving
<1> QED
  BY <1>3, <1>9

\* A unit that serves after a step of its hook knows of the bootstrap.
LEMMA WorksServiceKnown ==
  ASSUME Quiet, NEW u \in Units, Works(u)
  PROVE  \A v \in Units : ServiceKnown(v)'
<1>1. WellFormed /\ Placed(u) /\ Complete(u) /\ ServiceKnown(u) /\ hook[u] \in HookType
  BY DEF Quiet, Located, WellFormed, TypeOK
<1>2. /\ Frame /\ InHook(u) /\ InHook(u)'
      /\ hook'[u].kind = hook[u].kind
      /\ \A v \in Units : v # u => hook'[v] = hook[v] /\ running'[v] = running[v]
  BY <1>1, WorksKeeps
<1>3. ASSUME NEW v \in Units, v # u PROVE ServiceKnown(v)'
  BY <1>2, <1>3, ServiceAlone DEF Quiet, Frame
<1>4. /\ hook[u].app \in AppData /\ hook[u].wrote \in BOOLEAN
      /\ running \in [Units -> Conf \cup {None}]
  BY <1>1 DEF WellFormed, TypeOK, HookType
<1>5. Leaving(u)' <=> Leaving(u)
  BY <1>2 DEF Leaving, Frame
<1>6. ASSUME NEW hk, hook'[u] = hk, hk.app.bootstrapped = hook[u].app.bootstrapped,
             running' = running
      PROVE  ServiceKnown(u)'
  BY <1>1, <1>2, <1>5, <1>6 DEF ServiceKnown, Frame
<1>7. ASSUME NEW h, NEW hk, Handled(u, h, hk) PROVE ServiceKnown(u)'
  BY <1>1, <1>6, <1>7, OneHook DEF Handled
<1>8. ASSUME NEW hk, Broke(u, hk) PROVE ServiceKnown(u)'
  <2>1. running'[u] = None
    BY <1>1, <1>4, <1>8 DEF Broke, Placed
  <2> QED
    BY <2>1 DEF ServiceKnown
<1>9. ASSUME NEW hk, Configured(u, hk) \/ BootFailed(u, hk) PROVE ServiceKnown(u)'
  BY <1>1, <1>6, <1>9, OneHook DEF Configured, BootFailed, Over
<1>10. ASSUME NEW hk, Booted(u, hk) PROVE ServiceKnown(u)'
  <2>1. hook'[u] = hk /\ leader = u /\ hk.app.bootstrapped
    BY <1>1, <1>4, <1>10, OneHook, WithBootstrappedIs DEF Booted
  <2> QED
    BY <1>2, <2>1 DEF ServiceKnown, Frame
<1>11. ASSUME NEW hk, Restarted(u, hk) PROVE ServiceKnown(u)'
  <2>1. hook'[u] = hk /\ hk.app = hook[u].app /\ hook[u].pc = "restart"
    BY <1>1, <1>11, OneHook DEF Restarted, Over
  <2>2. hook[u].app.bootstrapped /\ joined[u] # None
    BY <1>1, <2>1 DEF Placed
  <2>3. u # leader => app.bootstrapped \/ Leaving(u)
    BY <1>1, <1>2, <2>2 DEF Complete
  <2> QED
    BY <1>2, <1>5, <2>1, <2>2, <2>3 DEF ServiceKnown, Frame
<1> QED
  BY <1>3, <1>7, <1>8, <1>9, <1>10, <1>11 DEF Works

\* A step of a hook keeps the password of the database in the databag that counts.
LEMMA WorksLocked ==
  ASSUME HooksComplete, OneDatabase, Quiet, NEW u \in Units, Works(u)
  PROVE  Locked(Charge.password)'
<1>1. /\ WellFormed /\ Placed(u) /\ Complete(u) /\ hook[u] \in HookType
      /\ Locked(Charge.password) /\ leader \in Units
  BY DEF Quiet, Located, WellFormed, TypeOK
<1>2. /\ Frame /\ InHook(u) /\ InHook(u)'
      /\ \A v \in Units : v # u => hook'[v] = hook[v]
  BY <1>1, WorksKeeps
<1>3. hook[u].app \in AppData /\ "lost_reply" \notin Faults
  BY <1>1 DEF WellFormed, TypeOK, HookType, HooksComplete
<1>4. u # leader => Charge' = Charge
  BY <1>1, <1>2 DEF Charge, InHook, Frame
<1>5. u = leader => Charge = hook[u].app /\ Charge' = hook'[u].app
  BY <1>1, <1>2 DEF Charge, Frame
<1>6. ASSUME NEW hk, hook'[u] = hk, hk.app.password = hook[u].app.password,
             \/ root' = root
             \/ u = leader /\ \A d \in Databases : root'[d] \in {root[d], hook[u].app.password}
      PROVE  Locked(Charge.password)'
  BY <1>1, <1>4, <1>5, <1>6 DEF Locked
<1>7. ASSUME NEW h, NEW hk, Handled(u, h, hk) PROVE Locked(Charge.password)'
  <2>1. hook'[u] = hk
    BY <1>1, <1>7, OneHook DEF Handled
  <2>2. CASE u = leader
    <3>1. \A d \in Databases : root'[d] \in {None, hk.app.password}
      BY <1>1, <1>3, <1>5, <1>7, <2>2 DEF Handled
    <3> QED
      BY <1>5, <2>1, <2>2, <3>1 DEF Locked
  <2>3. CASE u # leader
    BY <1>6, <1>7, <2>1, <2>3 DEF Handled
  <2> QED
    BY <2>2, <2>3
<1>8. ASSUME NEW hk, Broke(u, hk) PROVE Locked(Charge.password)'
  <2>1. hook'[u] = hk /\ hk.app.password = hook[u].app.password /\ root' = root
    BY <1>1, <1>3, <1>8, OneHook, WithBootstrappedIs DEF Broke
  <2> QED
    BY <1>6, <2>1
<1>9. ASSUME NEW hk, Configured(u, hk) \/ Restarted(u, hk) PROVE Locked(Charge.password)'
  BY <1>1, <1>6, <1>9, OneHook DEF Configured, Restarted, Over
<1>10. ASSUME NEW hk, Booted(u, hk) \/ BootFailed(u, hk) PROVE Locked(Charge.password)'
  <2>1. /\ hook'[u] = hk /\ hook[u].pc = "bootstrap"
        /\ hk.app \in {hook[u].app, WithBootstrapped(hook[u].app, TRUE)}
        /\ root' = root \/ root' = Bootstrapped(joined[u], hook[u].app.password)
    BY <1>1, <1>10, OneHook DEF Booted, BootFailed, Over
  <2>2. hk.app.password = hook[u].app.password /\ u = leader
    BY <1>1, <1>2, <1>3, <2>1, WithBootstrappedIs DEF Placed, Complete
  <2>3. \A d \in Databases : root'[d] \in {root[d], hook[u].app.password}
    BY <1>1, <2>1, BootstrappedIs
  <2> QED
    BY <1>6, <2>1, <2>2, <2>3
<1> QED
  BY <1>7, <1>8, <1>9, <1>10 DEF Works

\* The flag goes down only when every unit has to leave the database it sees.
LEMMA CommitKeepsFlag ==
  ASSUME Quiet, NEW u \in Units, Commit(u)
  PROVE  /\ u # leader => app' = app
         /\ u = leader => app' = hook[u].app
         /\ \A v \in Units : app.bootstrapped /\ joined[v] # None /\ ~Leaving(v)
              => app'.bootstrapped
<1>1. Complete(u) /\ Attached /\ InHook(u) /\ hook[u] \in HookType
  BY DEF Quiet, Located, WellFormed, TypeOK, Commit, Done, InHook
<1>2. app' = IF hook[u].wrote THEN hook[u].app ELSE app
  BY DEF Commit
<1>3. /\ u # leader => app' = app
      /\ u = leader => app' = hook[u].app
  BY <1>1, <1>2 DEF Complete
<1>4. ASSUME NEW v \in Units, app.bootstrapped, joined[v] # None, ~Leaving(v)
      PROVE  app'.bootstrapped
  <2>1. rel # None
    BY <1>1, <1>4 DEF Attached, Leaving
  <2>2. hook[u].kind # "metastore_broken"
    BY <1>1, <2>1 DEF Attached, Leaving
  <2> QED
    BY <1>1, <1>3, <1>4, <2>2 DEF Complete
<1> QED
  BY <1>3, <1>4

\* A hook that commits.
LEMMA CommitQuiet ==
  ASSUME Quiet, NEW u \in Units, Commit(u)
  PROVE  (\A v \in Units : Complete(v)' /\ ServiceKnown(v)') /\ Locked(Charge.password)'
<1>1. /\ WellFormed /\ \A v \in Units : Placed(v) /\ Complete(v) /\ ServiceKnown(v)
      /\ Locked(Charge.password) /\ leader \in Units
      /\ joined \in [Units -> Databases \cup {None}] /\ None \notin Databases
      /\ running \in [Units -> Conf \cup {None}]
      /\ deferred \in [Units -> SUBSET Handlers] /\ hook[u] \in HookType
  BY ConstantsAssumption DEF Quiet, Located, WellFormed, TypeOK
<1>2. /\ UNCHANGED <<leader, peers, notices, rel, joined, reach, file, running, root>>
      /\ hook'[u] = IdleHook /\ \A v \in Units : v # u => hook'[v] = hook[v]
      /\ deferred' = [deferred EXCEPT ![u] = hook[u].defers]
      /\ hook[u].todo = <<>> /\ InHook(u)
  BY <1>1, OneHook DEF Commit, juju, operator, workload, Done, InHook
<1>3. /\ IdleHook.pc = "idle" /\ IdleHook.kind = None /\ IdleHook.again = {}
      /\ IdleHook.defers = {} /\ IdleHook.todo = <<>>
  BY DEF IdleHook
<1>4. /\ u # leader => app' = app
      /\ u = leader => app' = hook[u].app
      /\ \A v \in Units : app.bootstrapped /\ joined[v] # None /\ ~Leaving(v)
           => app'.bootstrapped
  BY CommitKeepsFlag
<1>5. deferred'[u] = hook[u].defers /\ \A v \in Units : v # u => deferred'[v] = deferred[v]
  BY <1>1, <1>2
<1>6. \A v \in Units : running[v] # None /\ ~Leaving(v) => joined[v] # None
  <2>1. \A v \in Units : running[v] # None => running[v].db \in Databases
    BY <1>1 DEF Conf
  <2> QED
    BY <1>1, <2>1 DEF Placed
<1>7. ASSUME NEW v \in Units, v # u PROVE Complete(v)' /\ ServiceKnown(v)'
  <2>1. Complete(v)'
    BY <1>1, <1>2, <1>4, <1>5, <1>7, CompleteAlone
  <2>2. ServiceKnown(v)'
    BY <1>1, <1>2, <1>4, <1>6, <1>7, ServiceAlone
  <2> QED
    BY <2>1, <2>2
<1>8. Complete(u)'
  <2>1. <<>> \in Seq(Handlers \ Shunned)
    OBVIOUS
  <2> QED
    BY <1>1, <1>2, <1>3, <1>5, <2>1, NoneIsNoKind DEF Complete, InHook, Kinds
<1>9. ServiceKnown(u)'
  <2>1. running[u] # None /\ ~Leaving(u)' => ~Leaving(u)
    <3>1. hook[u].kind = "metastore_broken" => running[u] = None
      BY <1>1, <1>2 DEF Placed
    <3> QED
      BY <1>2, <3>1 DEF Leaving
  <2>2. running[u] # None /\ ~Leaving(u) => app'.bootstrapped
    BY <1>1, <1>2, <1>4 DEF ServiceKnown
  <2> QED
    BY <1>2, <1>3, <2>1, <2>2 DEF ServiceKnown, InHook
<1>10. Charge' = Charge
  BY <1>1, <1>2, <1>3, <1>4 DEF Charge, InHook
<1> QED
  BY <1>1, <1>2, <1>7, <1>8, <1>9, <1>10 DEF Locked

\* A hook that begins.
LEMMA DispatchQuiet ==
  ASSUME HooksComplete, Quiet, NEW u \in Units, NEW kind \in Kinds, Dispatch(u, kind)
  PROVE  (\A v \in Units : Complete(v)' /\ ServiceKnown(v)') /\ Locked(Charge.password)'
<1> DEFINE n == NewHook(u, kind)
           S == Handlers \ Shunned
<1>1. /\ WellFormed /\ \A v \in Units : Placed(v) /\ Complete(v) /\ ServiceKnown(v)
      /\ Locked(Charge.password) /\ leader \in Units
      /\ joined \in [Units -> Databases \cup {None}] /\ notices \in [Units -> SUBSET Kinds]
  BY DEF Quiet, Located, WellFormed, TypeOK
<1>2. /\ UNCHANGED <<leader, app, deferred, reach, running, root>> /\ hook[u].pc = "idle"
      /\ hook'[u] = n /\ \A v \in Units : v # u => hook'[v] = hook[v]
      /\ kind = "metastore_broken" => kind \in notices[u]
      /\ kind # "secret_changed"
  BY <1>1, OneHook DEF Dispatch, Deliverable, operator, workload, database, HooksComplete
<1>3. /\ n.pc = "run" /\ n.kind = kind /\ n.todo = HandlersOf(kind) /\ n.again = deferred[u]
      /\ n.defers = {} /\ (n.leader <=> leader = u) /\ n.deposed = FALSE /\ n.app = app
      /\ n.wrote = FALSE
  BY DEF NewHook
<1> HIDE DEF n
<1>4. kind # "metastore_broken" => HandlersOf(kind) \in Seq(S)
  <2>1. /\ "polaris" \in S /\ "metastore" \in S /\ "s3" \in S /\ "certs" \in S
        /\ "oauth" \in S
    BY DEF Handlers, Shunned
  <2> HIDE DEF S
  <2>2. /\ <<"polaris">> \in Seq(S) /\ <<"polaris", "s3", "certs">> \in Seq(S)
        /\ <<"metastore">> \in Seq(S) /\ <<"s3">> \in Seq(S) /\ <<"oauth">> \in Seq(S)
    BY <2>1
  <2> QED
    BY <1>2, <2>2 DEF HandlersOf, Kinds
<1>5. /\ \A v \in Units : v # u => joined'[v] = joined[v] /\ notices'[v] = notices[v]
      /\ joined'[u] = IF kind = "metastore_broken" THEN None ELSE joined[u]
      /\ notices'[u] = notices[u] \ {kind}
  BY <1>1 DEF Dispatch
<1>6. Leaving(u)' <=> Leaving(u)
  BY <1>1, <1>2, <1>3, <1>5, NoneIsNoKind DEF Leaving, Placed
<1>7. ASSUME NEW v \in Units, v # u PROVE Complete(v)' /\ ServiceKnown(v)'
  BY <1>1, <1>2, <1>5, <1>7, CompleteAlone, ServiceAlone
<1>8. Complete(u)'
  BY <1>1, <1>2, <1>3, <1>4 DEF Complete, InHook
<1>9. ServiceKnown(u)'
  BY <1>1, <1>2, <1>3, <1>6 DEF ServiceKnown, InHook
<1>10. Charge' = Charge
  BY <1>1, <1>2, <1>3 DEF Charge, InHook
<1> QED
  BY <1>1, <1>2, <1>7, <1>8, <1>9, <1>10 DEF Locked

\* Juju, Kubernetes and the operator.
LEMMA EnvironmentQuiet ==
  ASSUME HooksComplete, Quiet, Environment
  PROVE  (\A v \in Units : Complete(v)' /\ ServiceKnown(v)') /\ Locked(Charge.password)'
<1>1. /\ WellFormed /\ \A v \in Units : Placed(v) /\ Complete(v) /\ ServiceKnown(v)
      /\ Locked(Charge.password) /\ leader \in Units
      /\ joined \in [Units -> Databases \cup {None}] /\ notices \in [Units -> SUBSET Kinds]
      /\ reach \in [Units -> BOOLEAN] /\ hook \in [Units -> HookType]
  BY DEF Quiet, Located, WellFormed, TypeOK
<1>2. /\ UNCHANGED <<app, deferred, root>>
      /\ \A v \in Units :
           /\ running'[v] \in {running[v], None}
           /\ hook'[v].pc = hook[v].pc /\ hook'[v].kind = hook[v].kind
           /\ hook'[v].leader = hook[v].leader /\ hook'[v].app = hook[v].app
           /\ hook'[v].todo = hook[v].todo /\ hook'[v].again = hook[v].again
           /\ hook'[v].wrote = hook[v].wrote /\ hook'[v].defers = hook[v].defers
           /\ hook'[v].cur = hook[v].cur /\ hook'[v].restart = hook[v].restart
  BY <1>1, EnvironmentKeeps
<1>3. ASSUME \/ leader' = leader /\ hook' = hook
             \/ /\ ~InHook(leader) /\ ~InHook(leader')
                /\ leader' \in Units
                /\ \A v \in Units : hook'[v].deposed = hook[v].deposed \/ v = leader,
             \A v \in Units : /\ reach[v] => reach'[v]
                              /\ "metastore_broken" \in notices[v]
                                   => "metastore_broken" \in notices'[v]
                              /\ InHook(v) => joined'[v] = joined[v]
      PROVE  (\A v \in Units : Complete(v)' /\ ServiceKnown(v)') /\ Locked(Charge.password)'
  <2>1. \A v \in Units : (InHook(v)' <=> InHook(v)) /\ (Leaving(v) => Leaving(v)')
    BY <1>2, <1>3 DEF InHook, Leaving
  <2>2. ASSUME NEW v \in Units PROVE ServiceKnown(v)'
    BY <1>1, <1>2, <1>3, <2>1, <2>2 DEF ServiceKnown
  <2>3. ASSUME NEW v \in Units PROVE Complete(v)'
    <3>1. /\ hook'[v].pc # "error" /\ hook'[v].kind # "secret_changed"
          /\ (hook'[v].again \cup hook'[v].defers \cup deferred'[v]) \cap Shunned = {}
          /\ hook'[v].pc \in {"manage", "bootstrap", "restart", "ensure"}
               => hook'[v].cur \notin Shunned
          /\ hook'[v].kind # "metastore_broken" => hook'[v].todo \in Seq(Handlers \ Shunned)
          /\ hook'[v].pc \in {"manage", "bootstrap", "restart"} => reach'[v]
      BY <1>1, <1>2, <1>3 DEF Complete
    <3>2. CASE InHook(v)
      <4>1. (v = leader' <=> v = leader) /\ hook'[v].deposed = hook[v].deposed
        BY <1>3, <3>2
      <4> QED
        BY <1>1, <1>2, <1>3, <2>1, <3>1, <3>2, <4>1 DEF Complete
    <3>3. CASE ~InHook(v)
      BY <2>1, <3>1, <3>3 DEF Complete
    <3> QED
      BY <3>2, <3>3
  <2>4. Charge' = Charge
    BY <1>1, <1>2, <1>3, <2>1 DEF Charge
  <2> QED
    BY <1>1, <1>2, <2>2, <2>3, <2>4 DEF Locked
<1>4. ASSUME NEW v \in Units, Elect(v)
      PROVE  (\A w \in Units : Complete(w)' /\ ServiceKnown(w)') /\ Locked(Charge.password)'
  <2>1. ~InHook(v) /\ ~InHook(leader) /\ leader' = v
    BY <1>4 DEF Elect, Fault, HooksComplete
  <2>2. \A w \in Units : hook'[w].deposed = hook[w].deposed \/ w = leader
    BY <1>1, <1>4 DEF Elect
  <2>3. UNCHANGED <<reach, notices, joined>>
    BY <1>4 DEF Elect, workload
  <2> QED
    BY <1>3, <2>1, <2>2, <2>3
<1>5. ASSUME NEW v \in Units, ContainerRestart(v) PROVE FALSE
  BY <1>5 DEF ContainerRestart, Fault, HooksComplete
<1>6. ASSUME NEW v \in Units, PebbleUp(v) \/ MetastoreJoined(v)
      PROVE  /\ leader' = leader /\ hook' = hook
             /\ \A w \in Units : /\ reach[w] => reach'[w]
                                 /\ "metastore_broken" \in notices[w]
                                      => "metastore_broken" \in notices'[w]
                                 /\ InHook(w) => joined'[w] = joined[w]
  BY <1>1, <1>6 DEF PebbleUp, MetastoreJoined, InHook, juju, workload
<1>7. CASE CreatePeers \/ SetSystemUser \/ ToggleStorage \/ RelateMetastore \/ RemoveMetastore
  <2>1. /\ UNCHANGED <<leader, hook, reach, joined>>
        /\ \A w \in Units : "metastore_broken" \in notices[w]
                              => "metastore_broken" \in notices'[w]
    BY <1>1, <1>7 DEF CreatePeers, SetSystemUser, ToggleStorage, RelateMetastore,
       RemoveMetastore, juju, workload
  <2> QED
    BY <1>3, <2>1
<1> QED
  BY <1>3, <1>4, <1>5, <1>6, <1>7 DEF Environment

LEMMA InitQuiet ==
  ASSUME Init
  PROVE  Quiet
<1>1. /\ \A u \in Units :
           /\ hook[u].pc = "idle" /\ hook[u].kind = None /\ hook[u].again = {}
           /\ hook[u].defers = {} /\ hook[u].todo = <<>> /\ deferred[u] = {}
           /\ running[u] = None
      /\ \A d \in Databases : root[d] = None
  BY DEF Init, IdleHook
<1>2. <<>> \in Seq(Handlers \ Shunned)
  OBVIOUS
<1>3. None # "secret_changed"
  BY ConstantsAssumption DEF Kinds
<1> QED
  BY <1>1, <1>2, <1>3, InitLocated, InitRooted
  DEF Quiet, Complete, ServiceKnown, InHook, Locked

LEMMA NextQuiet ==
  ASSUME HooksComplete, OneDatabase, Quiet, [Next]_vars
  PROVE  Quiet'
<1>1. Located' /\ OneRooted' /\ WellFormed
  BY NextLocated, NextRooted DEF Quiet, OneRooted
<1>2. CASE UNCHANGED vars
  <2>1. \A v \in Units : Complete(v)' /\ ServiceKnown(v)'
    BY <1>2, CompleteAlone, ServiceAlone DEF Quiet, vars
  <2>2. Locked(Charge.password)'
    BY <1>2 DEF Quiet, vars, Charge, Locked, InHook
  <2> QED
    BY <1>1, <2>1, <2>2 DEF Quiet
<1>3. ASSUME NEW u \in Units, Retry(u) PROVE FALSE
  BY <1>3 DEF Retry, Quiet, Complete
<1> QED
  BY <1>1, <1>2, <1>3, StepShape, WorksComplete, WorksServiceKnown, WorksLocked, NoneFails,
     CommitQuiet, DispatchQuiet, EnvironmentQuiet DEF Quiet

\* Where hooks run to their end, and there is one database, it has between hooks the
\* committed password, or no root principal yet.
THEOREM DatabaseStaysManageable ==
  ASSUME HooksComplete, OneDatabase
  PROVE  Spec => []NotLockedOut
<1>1. Quiet => NotLockedOut
  <2> SUFFICES ASSUME Quiet, Settled, rel # None
               PROVE  root[rel] \in {None, app.password}
    BY DEF NotLockedOut
  <2>1. leader \in Units /\ rel \in Databases
    BY DEF Quiet, Located, WellFormed, TypeOK
  <2>2. Charge = app
    BY <2>1 DEF Settled, Charge
  <2> QED
    BY <2>1, <2>2 DEF Quiet, Locked
<1> QED
  BY <1>1, InitQuiet, NextQuiet, PTL DEF Spec

\* Then too, a deployment all of whose units are shown as active serves the related
\* database with the password the operator asked for.
THEOREM ActiveUnitsServe ==
  ASSUME HooksComplete, OneDatabase
  PROVE  Spec => []ActiveMeansServing
<1>1. Quiet => ActiveMeansServing
  <2> SUFFICES ASSUME Quiet,
                      \A u \in Units : Active(u) /\ "metastore_broken" \notin notices[u]
               PROVE  Serving
    BY DEF ActiveMeansServing
  <2>1. /\ leader \in Units /\ rel \in Databases \cup {None} /\ secret \in Secrets
        /\ Attached /\ \A u \in Units : Placed(u) /\ ServiceKnown(u) /\ Complete(u)
        /\ Known(app) /\ Locked(Charge.password) /\ app \in AppData
    BY DEF Quiet, Located, OneRooted, WellFormed, TypeOK
  <2>2. ASSUME NEW u \in Units
        PROVE  /\ hook[u].pc = "idle" /\ running[u] # None /\ joined[u] # None
               /\ rel # None /\ joined[u] = rel /\ running[u].db = rel /\ ~Leaving(u)
    <3>1. hook[u].pc = "idle" /\ Reports(u) = {} /\ "metastore_broken" \notin notices[u]
      BY <2>2 DEF Active
    <3>2. WorkloadReports(u) = {} /\ MetastoreReports(u) = {}
      BY <3>1 DEF Reports
    <3>3. running[u] # None /\ joined[u] # None
      BY <3>2 DEF WorkloadReports, MetastoreReports
    <3>4. rel # None /\ joined[u] = rel
      BY <2>1, <3>1, <3>3 DEF Attached
    <3>5. hook[u].kind = None
      BY <2>1, <3>1 DEF Placed
    <3>6. ~Leaving(u)
      BY <3>1, <3>5, NoneIsNoKind DEF Leaving
    <3>7. running[u].db = joined[u]
      BY <2>1, <3>3, <3>6 DEF Placed
    <3> QED
      BY <3>1, <3>3, <3>4, <3>6, <3>7
  <2>3. ASSUME secret # None
        PROVE  app.password = secret /\ root[rel] = secret
    <3>1. Active(leader)
      BY <2>1
    <3>2. PolarisReports(leader) = {}
      BY <3>1 DEF Active, Reports
    <3>3. SecretStatuses = {} /\ ~PendingPassword(leader)
      BY <3>2 DEF PolarisReports
    <3>4. secret \in UserPasswords
      <4>1. secret \notin {Inaccessible, Invalid}
        BY <3>3 DEF SecretStatuses
      <4> QED
        BY <2>1, <2>3, <4>1 DEF Secrets
    <3>5. None \notin UserPasswords
      BY ConstantsAssumption DEF Passwords
    <3>6. app.password \in {None, secret}
      BY <3>3, <3>4, <3>5 DEF PendingPassword, SystemUserPassword
    <3>7. ~InHook(leader) /\ Charge = app
      BY <2>1, <2>2 DEF InHook, Charge
    <3>8. app.bootstrapped
      BY <2>1, <2>2, <3>7 DEF ServiceKnown
    <3>9. app.password # None /\ root[rel] # None
      BY <2>1, <2>2, <3>8 DEF Known, ClusterReady, Filled
    <3> QED
      BY <2>1, <2>2, <3>6, <3>7, <3>9 DEF Locked
  <2> QED
    BY <2>2, <2>3 DEF Serving
<1> QED
  BY <1>1, InitQuiet, NextQuiet, PTL DEF Spec

-------------------------------------------------------------------------------
(* What the services run with                                               *)

\* The service of u runs with what is on disk, or will restart before its handler ends.
Matches(u) ==
  running[u] # None /\ ~Leaving(u) =>
    \/ running[u] = file[u]
    \/ hook[u].pc \in {"bootstrap", "restart"} /\ hook[u].restart

Matched == Quiet /\ \A u \in Units : Matches(u)

\* The bootstrap command does not fail where there is a schema.
BootstrapWorks == "exec_error" \notin Faults

\* A unit whose service, file and hook stay, or that leaves, matches as before.
LEMMA MatchesAlone ==
  ASSUME NEW u, Matches(u), running'[u] \in {running[u], None}, file'[u] = file[u],
         Leaving(u) => Leaving(u)',
         hook'[u].pc = hook[u].pc /\ hook'[u].restart = hook[u].restart
  PROVE  Matches(u)'
BY DEF Matches

LEMMA WorksMatch ==
  ASSUME BootstrapWorks, Matched, NEW u \in Units, Works(u)
  PROVE  \A v \in Units : Matches(v)'
<1>1. /\ WellFormed /\ Placed(u) /\ Matches(u) /\ ServiceKnown(u) /\ Rooted(u)
      /\ hook[u] \in HookType
      /\ running \in [Units -> Conf \cup {None}] /\ file \in [Units -> Conf \cup {None}]
  BY DEF Matched, Quiet, Located, OneRooted, WellFormed, TypeOK
<1>2. /\ Frame /\ InHook(u)
      /\ \A v \in Units : v # u => /\ hook'[v] = hook[v] /\ running'[v] = running[v]
                                   /\ file'[v] = file[v]
      /\ hook'[u].kind = hook[u].kind
  BY <1>1, WorksKeeps
<1>3. \A v \in Units : Leaving(v)' <=> Leaving(v)
  BY <1>2 DEF Leaving, Frame
<1>4. ASSUME NEW v \in Units, v # u PROVE Matches(v)'
  BY <1>2, <1>3, <1>4, MatchesAlone DEF Matched
<1>5. ASSUME hook[u].pc \in {"run", "ensure", "manage"} \/ ~hook[u].restart,
             running'[u] = running[u], file'[u] = file[u]
      PROVE  Matches(u)'
  BY <1>1, <1>3, <1>5 DEF Matches
<1>6. ASSUME NEW h, NEW hk, Handled(u, h, hk) PROVE Matches(u)'
  BY <1>5, <1>6 DEF Handled
<1>7. ASSUME NEW hk, Broke(u, hk) PROVE Matches(u)'
  <2>1. running'[u] = None
    BY <1>1, <1>7 DEF Broke, Placed
  <2> QED
    BY <2>1 DEF Matches
<1>8. ASSUME NEW hk, Configured(u, hk) PROVE Matches(u)'
  <2>1. hook'[u] = hk /\ hk.app = hook[u].app /\ running' = running /\ hook[u].pc = "manage"
    BY <1>1, <1>8, OneHook DEF Configured
  <2>2. CASE hk.pc \in {"bootstrap", "restart"} /\ hk.restart
    BY <2>1, <2>2 DEF Matches
  <2>3. CASE ~hk.app.bootstrapped
    BY <1>1, <1>2, <1>3, <2>1, <2>3 DEF Matches, ServiceKnown
  <2>4. CASE file'[u] = file[u]
    BY <1>5, <2>1, <2>4
  <2> QED
    BY <1>8, <2>2, <2>3, <2>4 DEF Configured
<1>9. ASSUME NEW hk, Booted(u, hk) PROVE Matches(u)'
  <2>1. hook'[u] = hk /\ running' = running /\ file' = file
    BY <1>1, <1>9, OneHook DEF Booted
  <2>2. CASE hk.pc = "restart" /\ hk.restart
    BY <2>1, <2>2 DEF Matches
  <2>3. CASE ~hook[u].restart
    BY <1>5, <2>1, <2>3
  <2> QED
    BY <1>9, <2>2, <2>3 DEF Booted
<1>10. ASSUME NEW hk, BootFailed(u, hk) PROVE Matches(u)'
  <2>1. /\ hook[u].pc = "bootstrap" /\ running' = running
        /\ ~schema[joined[u]]
    BY <1>10 DEF BootFailed, BootstrapWorks
  <2>2. joined[u] \in Databases
    BY <1>1, <2>1 DEF Placed, WellFormed, TypeOK
  <2>3. running'[u] = None
    BY <1>1, <2>1, <2>2 DEF Rooted, Filled
  <2> QED
    BY <2>3 DEF Matches
<1>11. ASSUME NEW hk, Restarted(u, hk) PROVE Matches(u)'
  <2>1. running'[u] = file'[u]
    BY <1>1, <1>11 DEF Restarted, Over
  <2> QED
    BY <2>1 DEF Matches
<1> QED
  BY <1>4, <1>6, <1>7, <1>8, <1>9, <1>10, <1>11 DEF Works

LEMMA OtherMatch ==
  ASSUME HooksComplete, Matched,
         \/ Environment
         \/ \E u \in Units : Commit(u) \/ \E kind \in Kinds : Dispatch(u, kind)
  PROVE  \A v \in Units : Matches(v)'
<1>1. /\ WellFormed /\ \A v \in Units : Placed(v) /\ Matches(v)
      /\ notices \in [Units -> SUBSET Kinds]
  BY DEF Matched, Quiet, Located, WellFormed, TypeOK
<1>2. CASE Environment
  <2>1. \A v \in Units :
          /\ running'[v] \in {running[v], None}
          /\ hook'[v].pc = hook[v].pc /\ hook'[v].kind = hook[v].kind
          /\ hook'[v].restart = hook[v].restart
    BY <1>1, <1>2, EnvironmentKeeps
  <2>2. file' = file
    BY <1>2 DEF Environment, Elect, ContainerRestart, PebbleUp, MetastoreJoined, CreatePeers,
       SetSystemUser, ToggleStorage, RelateMetastore, RemoveMetastore, workload, Fault,
       HooksComplete
  <2>3. \A v \in Units : "metastore_broken" \in notices[v]
                           => "metastore_broken" \in notices'[v]
    BY <1>1, <1>2 DEF Environment, Elect, ContainerRestart, PebbleUp, MetastoreJoined,
       CreatePeers, SetSystemUser, ToggleStorage, RelateMetastore, RemoveMetastore, juju
  <2> QED
    BY <1>1, <2>1, <2>2, <2>3, MatchesAlone DEF Leaving
<1>3. ASSUME NEW u \in Units, Commit(u) PROVE \A v \in Units : Matches(v)'
  <2>1. /\ UNCHANGED <<notices, file, running>>
        /\ hook'[u] = IdleHook /\ \A v \in Units : v # u => hook'[v] = hook[v]
        /\ hook[u].todo = <<>> /\ hook[u].pc = "run"
    BY <1>1, <1>3, OneHook DEF Commit, juju, workload, Done
  <2>2. hook[u].kind = "metastore_broken" => running[u] = None
    BY <1>1, <2>1 DEF Placed, InHook
  <2>3. Matches(u)'
    BY <1>1, <2>1, <2>2 DEF Matches, Leaving
  <2>4. ASSUME NEW v \in Units, v # u PROVE Matches(v)'
    BY <1>1, <2>1, <2>4, MatchesAlone DEF Leaving
  <2> QED
    BY <2>3, <2>4
<1>4. ASSUME NEW u \in Units, NEW kind \in Kinds, Dispatch(u, kind)
      PROVE  \A v \in Units : Matches(v)'
  <2>1. /\ UNCHANGED <<file, running>> /\ hook[u].pc = "idle" /\ hook[u].kind = None
        /\ hook'[u] = NewHook(u, kind) /\ \A v \in Units : v # u => hook'[v] = hook[v]
    BY <1>1, <1>4, OneHook DEF Dispatch, workload, Placed
  <2>2. NewHook(u, kind).kind = kind
    BY DEF NewHook
  <2>3. notices' = [notices EXCEPT ![u] = @ \ {kind}]
    BY <1>4 DEF Dispatch
  <2>4. Leaving(u) => Leaving(u)'
    BY <1>1, <2>1, <2>2, <2>3, NoneIsNoKind DEF Leaving
  <2>5. Matches(u)'
    BY <1>1, <2>1, <2>4 DEF Matches
  <2>6. ASSUME NEW v \in Units, v # u PROVE Matches(v)'
    BY <1>1, <2>1, <2>3, <2>6, MatchesAlone DEF Leaving
  <2> QED
    BY <2>5, <2>6
<1> QED
  BY <1>2, <1>3, <1>4

\* Where hooks run to their end and bootstrap with a schema does not fail, a service
\* between hooks runs with its configuration file.
THEOREM ServicesMatchFiles ==
  ASSUME HooksComplete, BootstrapWorks, OneDatabase
  PROVE  Spec => []RunningMatchesFile
<1>1. Init => Matched
  <2> SUFFICES ASSUME Init PROVE Matched
    OBVIOUS
  <2>1. \A u \in Units : running[u] = None
    BY DEF Init
  <2> QED
    BY <2>1, InitQuiet DEF Matched, Matches
<1>2. Matched /\ [Next]_vars => Matched'
  <2> SUFFICES ASSUME Matched, [Next]_vars PROVE Matched'
    OBVIOUS
  <2>1. Quiet /\ Quiet' /\ WellFormed
    BY NextQuiet DEF Matched, Quiet, Located
  <2>2. CASE UNCHANGED vars
    BY <2>1, <2>2, MatchesAlone DEF Matched, vars, Leaving
  <2>3. ASSUME NEW u \in Units, Retry(u) PROVE FALSE
    BY <2>1, <2>3 DEF Retry, Quiet, Complete
  <2> QED
    BY <2>1, <2>2, <2>3, StepShape, NoneFails, WorksMatch, OtherMatch DEF Matched
<1>3. Matched => RunningMatchesFile
  BY DEF Matched, Matches, RunningMatchesFile, Leaving, InHook
<1> QED
  BY <1>1, <1>2, <1>3, PTL DEF Spec

-------------------------------------------------------------------------------
(* A leader that keeps its lease                                            *)
(*                                                                          *)
(* With any number of databases and of other faults: the flag is up only    *)
(* while the leader sees the database, or stops its service; where it is    *)
(* up, that database was bootstrapped; and once it was seen up, the key     *)
(* that the services sign with is the committed one.                        *)

StableLease == Faults \cap {"election", "depose", "promote"} = {}

\* What the committed flag says.
Leads ==
  app.bootstrapped =>
    /\ peers /\ ClusterReady(app)
    /\ joined[leader] # None \/ hook[leader].kind = "metastore_broken"
    /\ \A u \in Units : joined[u] # None => root[joined[u]] # None

\* What u's hook has of the lease and of the databag, and what the flag says there.
Hooked(u) ==
  InHook(u) =>
    /\ hook[u].leader <=> u = leader
    /\ hook[u].app.bootstrapped =>
         /\ peers /\ ClusterReady(hook[u].app)
         /\ joined[u] # None => root[joined[u]] # None
    /\ u # leader => ~hook[u].wrote /\ hook[u].app.key \in {None, app.key}
    /\ u = leader =>
         /\ ~hook[u].deposed
         /\ ~hook[u].wrote => hook[u].app = app
         /\ hook[u].app.bootstrapped =>
              joined[u] # None \/ (hook[u].kind = "metastore_broken" /\ hook[u].todo # <<>>)

\* Some unit other than the leader may depend on the key: the flag is committed, or
\* another unit saw it.
Exposed ==
  \/ app.bootstrapped
  \/ \E u \in Units \ {leader} :
       running[u] # None \/ (InHook(u) /\ hook[u].app.bootstrapped)

HasKey(u, k) == running[u] # None => running[u].key = k

\* The services have the committed key, that of the leader from the time the others may.
Keyed ==
  /\ \A u \in Units \ {leader} : HasKey(u, app.key)
  /\ Exposed => app.key # None /\ HasKey(leader, app.key)
  /\ InHook(leader) /\ hook[leader].app.bootstrapped /\ hook[leader].pc # "restart"
       => HasKey(leader, hook[leader].app.key)

Steady ==
  /\ Located /\ Fresh /\ ServingImpliesBootstrapped
  /\ Leads /\ (\A u \in Units : Hooked(u)) /\ Keyed

\* What the committed flag says depends on the relation and the databases.
LEMMA LeadsKept ==
  ASSUME WellFormed, Leads, Grown, app' = app, leader' = leader, joined' = joined,
         peers => peers', hook'[leader].kind = hook[leader].kind
  PROVE  Leads'
<1>1. joined \in [Units -> Databases \cup {None}]
  BY DEF WellFormed, TypeOK
<1> QED
  BY <1>1 DEF Leads, Grown, ClusterReady

\* A unit that does nothing stays as it is, as long as the key does.
LEMMA HookedAlone ==
  ASSUME WellFormed, NEW u \in Units, Hooked(u), Grown, leader' = leader, peers => peers',
         hook'[u] = hook[u], InHook(u) => joined'[u] = joined[u],
         u = leader => app' = app, app.key # None => app'.key = app.key
  PROVE  Hooked(u)'
<1>1. joined[u] \in Databases \cup {None}
  BY DEF WellFormed, TypeOK
<1>2. hook[u].app.key \in {None, app.key} => hook[u].app.key \in {None, app'.key}
  OBVIOUS
<1>3. ClusterReady(hook[u].app) => ClusterReady(hook[u].app)'
  BY DEF ClusterReady
<1> QED
  BY <1>1, <1>2, <1>3 DEF Hooked, InHook, Grown

\* Services that run on keep the database they have.
LEMMA BackedKept ==
  ASSUME WellFormed, ServingImpliesBootstrapped, Grown,
         \A u \in Units : running'[u] \in {running[u], None}
  PROVE  ServingImpliesBootstrapped'
<1>1. \A u \in Units : running[u] # None => running[u].db \in Databases
  BY DEF WellFormed, TypeOK, Conf
<1> QED
  BY <1>1 DEF ServingImpliesBootstrapped, Grown

\* The keys of the services that run on, as long as no other unit gets to see the flag.
LEMMA KeyedKept ==
  ASSUME Keyed, app'.key = app.key, leader' = leader, Exposed' => Exposed,
         \A u \in Units : running'[u] \in {running[u], None}, leader \in Units,
         InHook(leader)' /\ hook'[leader].app.bootstrapped /\ hook'[leader].pc # "restart"
           => HasKey(leader, hook'[leader].app.key)
  PROVE  Keyed'
BY DEF Keyed, HasKey

\* A step of a hook keeps what its hook has of the databag.
LEMMA WorksHooked ==
  ASSUME Steady, NEW u \in Units, Works(u)
  PROVE  \A v \in Units : Hooked(v)'
<1>1. WellFormed /\ Placed(u) /\ Hooked(u) /\ hook[u] \in HookType
  BY DEF Steady, Located, WellFormed, TypeOK
<1>2. /\ Frame /\ InHook(u) /\ InHook(u)' /\ Grown
      /\ \A v \in Units : v # u => hook'[v] = hook[v]
      /\ hook'[u].kind = hook[u].kind /\ hook'[u].leader = hook[u].leader
      /\ hook'[u].deposed = hook[u].deposed
  BY <1>1, WorksKeeps
<1>3. ASSUME NEW v \in Units, v # u PROVE Hooked(v)'
  BY <1>1, <1>2, <1>3, HookedAlone DEF Steady, Frame
<1>4. PICK h, hk :
        /\ hook'[u] = hk /\ Served(u, h, hk)
        /\ hk.wrote <=> hook[u].wrote \/ hk.app # hook[u].app
        /\ leader # u => hk.app = hook[u].app
        /\ \/ hook[u].pc = "run" /\ h = "broken"
           \/ /\ hook[u].pc = "run" => h # "broken"
              /\ hook[u].pc # "run" => h = hook[u].cur
  BY <1>1, WorksServes
<1>5. joined[u] \in Databases \cup {None} /\ hook[u].app \in AppData
  BY <1>1 DEF WellFormed, TypeOK, HookType
<1>6. /\ u # leader => ~hk.wrote /\ hk.app.key \in {None, app.key}
      /\ u = leader => ~hook[u].deposed /\ (~hk.wrote => hk.app = app)
  BY <1>1, <1>2, <1>4 DEF Hooked
<1>7. ASSUME NEW x, hook'[u] = x, x.app.bootstrapped =>
               /\ peers /\ ClusterReady(x.app)
               /\ joined[u] # None => root'[joined[u]] # None
               /\ u = leader => joined[u] # None
                                \/ (hook[u].kind = "metastore_broken" /\ x.todo # <<>>)
      PROVE  Hooked(u)'
  <2>1. ClusterReady(x.app) => ClusterReady(hook[u].app)'
    BY <1>7 DEF ClusterReady
  <2> QED
    BY <1>1, <1>2, <1>4, <1>6, <1>7, <2>1 DEF Hooked, Frame
<1>8. ASSUME hook[u].app.bootstrapped
      PROVE  /\ peers /\ ClusterReady(hook[u].app)
             /\ joined[u] # None => root'[joined[u]] # None
             /\ u = leader => joined[u] # None
                              \/ (hook[u].kind = "metastore_broken" /\ hook[u].todo # <<>>)
  BY <1>1, <1>2, <1>5, <1>8 DEF Hooked, Grown
<1> DEFINE only == <<"broken">>
<1>9. Head(only) = "broken"
  OBVIOUS
<1> HIDE DEF only
<1>10. hook[u].kind = "metastore_broken" /\ hook[u].todo # <<>> => hook[u].todo = only
  BY <1>1, <1>2 DEF Placed, only
<1>11. ASSUME NEW g, NEW x, Served(u, g, x), hook[u].pc = "run" => g # "broken"
       PROVE  hook[u].kind = "metastore_broken" /\ hook[u].todo # <<>> => x.todo # <<>>
  BY <1>9, <1>10, <1>11 DEF Served
<1>12. ASSUME NEW g, NEW x, Handled(u, g, x) PROVE Hooked(u)'
  <2>1. /\ hook'[u] = x /\ Served(u, g, x) /\ x \in HookType
        /\ hook[u].pc = "run" => g # "broken"
        /\ x.app.bootstrapped = hook[u].app.bootstrapped
        /\ x.app \in AppData /\ Advances(x.app, hook[u].app)
    BY <1>1, <1>12, OneHook DEF Handled, Served, HookType
  <2>2. ClusterReady(hook[u].app) => ClusterReady(x.app)
    BY <1>5, <2>1, AdvancesReady
  <2> QED
    BY <1>7, <1>8, <1>11, <2>1, <2>2
<1>13. ASSUME NEW x, Broke(u, x) PROVE Hooked(u)'
  <2>1. /\ hook'[u] = x
        /\ x.app = IF leader = u /\ peers THEN WithBootstrapped(hook[u].app, FALSE)
                   ELSE hook[u].app
    BY <1>1, <1>13, OneHook DEF Broke
  <2>2. x.app.bootstrapped => x.app = hook[u].app /\ u # leader
    BY <1>5, <1>8, <2>1, WithBootstrappedIs
  <2> QED
    BY <1>7, <1>8, <2>1, <2>2
<1>14. ASSUME NEW x, Configured(u, x) \/ BootFailed(u, x) \/ Restarted(u, x)
       PROVE  Hooked(u)'
  <2>1. /\ hook'[u] = x /\ x.app = hook[u].app
        /\ \E g : Served(u, g, x) /\ (hook[u].pc = "run" => g # "broken")
    BY <1>1, <1>14, OneHook DEF Configured, BootFailed, Restarted, Over
  <2> QED
    BY <1>7, <1>8, <1>11, <2>1
<1>15. ASSUME NEW x, Booted(u, x) PROVE Hooked(u)'
  <2>1. /\ hook'[u] = x /\ hook[u].pc = "bootstrap"
        /\ x.app = WithBootstrapped(hook[u].app, TRUE)
        /\ root' = Bootstrapped(joined[u], hook[u].app.password)
    BY <1>1, <1>15, OneHook DEF Booted
  <2>2. peers /\ joined[u] # None /\ root'[joined[u]] # None /\ ClusterReady(hook[u].app)
    BY <1>1, <2>1, BootstrappedIs DEF Placed
  <2>3. ClusterReady(x.app)
    BY <1>5, <2>1, <2>2, WithBootstrappedIs DEF ClusterReady
  <2> QED
    BY <1>7, <2>1, <2>2, <2>3
<1> QED
  BY <1>3, <1>12, <1>13, <1>14, <1>15 DEF Works

\* A service runs on, stops, or starts with the configuration of its hook.
LEMMA WorksStarts ==
  ASSUME Located, NEW u \in Units, Works(u)
  PROVE  \/ running'[u] \in {running[u], None}
         \/ /\ hook[u].pc = "restart" /\ hook[u].app.bootstrapped
            /\ joined[u] # None /\ root' = root
            /\ running'[u] = ConfOf(u) /\ hook'[u].app = hook[u].app
<1>1. /\ WellFormed /\ Placed(u)
      /\ running \in [Units -> Conf \cup {None}] /\ file \in [Units -> Conf \cup {None}]
  BY DEF Located, WellFormed, TypeOK
<1>2. ASSUME NEW hk, Restarted(u, hk)
      PROVE  /\ hook[u].pc = "restart" /\ hook[u].app.bootstrapped
             /\ joined[u] # None /\ root' = root
             /\ running'[u] = ConfOf(u) /\ hook'[u].app = hook[u].app
  <2>1. hook'[u] = hk /\ reach[u] /\ hk.app = hook[u].app /\ hook[u].pc = "restart"
    BY <1>1, <1>2, OneHook DEF Restarted, Over
  <2> QED
    BY <1>1, <1>2, <2>1 DEF Restarted, Placed
<1>3. ASSUME NEW hk, Broke(u, hk) PROVE running'[u] \in {running[u], None}
  BY <1>1, <1>3 DEF Broke
<1>4. ASSUME NEW h, NEW hk, Handled(u, h, hk) PROVE running' = running
  BY <1>4 DEF Handled
<1>5. ASSUME NEW hk, Configured(u, hk) \/ Booted(u, hk) \/ BootFailed(u, hk)
      PROVE  running' = running
  BY <1>5 DEF Configured, Booted, BootFailed
<1> QED
  BY <1>2, <1>3, <1>4, <1>5 DEF Works

\* A step of a hook keeps the keys of the services.
LEMMA WorksKeyed ==
  ASSUME Steady, NEW u \in Units, Works(u)
  PROVE  Keyed'
<1>1. /\ WellFormed /\ Located /\ Placed(u) /\ Hooked(u) /\ Keyed /\ Fresh
      /\ hook[u] \in HookType /\ hook[u].app \in AppData /\ leader \in Units
  BY DEF Steady, Located, WellFormed, TypeOK, HookType
<1>2. /\ Frame /\ InHook(u) /\ InHook(u)'
      /\ \A v \in Units : v # u => hook'[v] = hook[v] /\ running'[v] = running[v]
  BY <1>1, WorksKeeps
<1>3. \/ running'[u] \in {running[u], None}
      \/ /\ hook[u].pc = "restart" /\ hook[u].app.bootstrapped
         /\ running'[u] = ConfOf(u) /\ hook'[u].app = hook[u].app
  BY <1>1, WorksStarts
<1>4. leader # u => hook'[u].app = hook[u].app
  BY <1>1, WorksServes
<1>5. Exposed' => Exposed
  BY <1>2, <1>3, <1>4 DEF Exposed, Frame, InHook
<1>6. ConfOf(u).key = hook[u].app.key /\ None \notin RandomKeys
  BY ConstantsAssumption DEF ConfOf
<1>7. hook[u].app.bootstrapped => hook[u].app.key # None
  BY <1>1, <1>2 DEF Hooked, ClusterReady
<1>8. ASSUME u # leader PROVE Keyed'
  <2>1. HasKey(u, app.key)'
    <3>1. CASE running'[u] \in {running[u], None}
      BY <1>1, <1>2, <1>8, <3>1 DEF Keyed, HasKey, Frame
    <3>2. CASE hook[u].app.bootstrapped /\ running'[u] = ConfOf(u)
      <4>1. hook[u].app.key = app.key
        BY <1>1, <1>2, <1>7, <1>8, <3>2 DEF Hooked
      <4> QED
        BY <1>2, <1>6, <3>2, <4>1 DEF HasKey, Frame
    <3> QED
      BY <1>3, <3>1, <3>2
  <2>2. \A v \in Units \ {leader} : HasKey(v, app.key)'
    BY <1>1, <1>2, <2>1 DEF Keyed, HasKey, Frame
  <2>3. HasKey(leader, app.key) => HasKey(leader, app.key)'
    BY <1>1, <1>2, <1>8 DEF HasKey, Frame
  <2>4. InHook(leader)' /\ hook'[leader].app.bootstrapped /\ hook'[leader].pc # "restart"
          => HasKey(leader, hook[leader].app.key)'
    BY <1>1, <1>2, <1>8 DEF Keyed, HasKey, Frame, InHook
  <2> QED
    BY <1>1, <1>2, <1>5, <2>2, <2>3, <2>4 DEF Keyed, Frame
<1>9. ASSUME u = leader PROVE Keyed'
  <2>1. Exposed => app.key # None /\ hook[u].app.key = app.key
    <3>1. Advances(hook[u].app, app)
      BY <1>1, <1>2, <1>9 DEF Fresh, Hooked
    <3> QED
      BY <1>1, <3>1 DEF Keyed, Advances
  <2>2. Exposed => HasKey(leader, app.key)'
    BY <1>1, <1>2, <1>3, <1>6, <1>9, <2>1 DEF Keyed, HasKey, Frame
  <2>3. \A v \in Units \ {leader} : HasKey(v, app.key)'
    BY <1>1, <1>2, <1>9 DEF Keyed, HasKey, Frame
  <2>4. ASSUME NEW hk, hook'[u] = hk, hk.app.bootstrapped, hk.pc # "restart",
               hook[u].app.bootstrapped /\ hook[u].pc # "restart"
                 => hk.app.key = hook[u].app.key,
               \/ hook[u].app.bootstrapped /\ hook[u].pc # "restart"
                  /\ running'[u] \in {running[u], None}
               \/ running'[u] = None
               \/ running'[u] = ConfOf(u) /\ hk.app = hook[u].app
        PROVE  HasKey(u, hook[u].app.key)'
    <3>1. CASE /\ hook[u].app.bootstrapped /\ hook[u].pc # "restart"
               /\ running'[u] \in {running[u], None}
      BY <1>1, <1>2, <1>9, <2>4, <3>1 DEF Keyed, HasKey
    <3>2. CASE running'[u] = None
      BY <3>2 DEF HasKey
    <3>3. CASE running'[u] = ConfOf(u) /\ hk.app = hook[u].app
      BY <1>6, <2>4, <3>3 DEF HasKey
    <3> QED
      BY <2>4, <3>1, <3>2, <3>3
  <2>5. ASSUME hook'[u].app.bootstrapped, hook'[u].pc # "restart"
        PROVE  HasKey(u, hook[u].app.key)'
    <3>1. ASSUME NEW h, NEW hk, Handled(u, h, hk) PROVE HasKey(u, hook[u].app.key)'
      <4>1. /\ hook'[u] = hk /\ hook[u].pc # "restart" /\ running' = running
            /\ hook[u].app.bootstrapped /\ Advances(hk.app, hook[u].app)
        BY <1>1, <2>5, <3>1, OneHook DEF Handled
      <4>2. hk.app.key = hook[u].app.key
        BY <1>7, <4>1 DEF Advances
      <4> QED
        BY <2>4, <2>5, <4>1, <4>2
    <3>2. ASSUME NEW hk, Broke(u, hk) PROVE HasKey(u, hook[u].app.key)'
      <4>1. running'[u] = None
        BY <1>1, <3>2 DEF Broke, Placed, WellFormed, TypeOK
      <4> QED
        BY <4>1 DEF HasKey
    <3>3. ASSUME NEW hk, Configured(u, hk) \/ BootFailed(u, hk)
          PROVE  HasKey(u, hook[u].app.key)'
      <4>1. /\ hook'[u] = hk /\ hook[u].pc # "restart" /\ running' = running
            /\ hk.app = hook[u].app
        BY <1>1, <3>3, OneHook DEF Configured, BootFailed, Over
      <4> QED
        BY <2>4, <2>5, <4>1
    <3>4. ASSUME NEW hk, Booted(u, hk) PROVE HasKey(u, hook[u].app.key)'
      <4>1. /\ hook'[u] = hk /\ hook[u].pc # "restart" /\ running' = running
            /\ hk.app = WithBootstrapped(hook[u].app, TRUE)
            /\ hook[u].app.bootstrapped
        BY <1>1, <2>5, <3>4, OneHook DEF Booted
      <4>2. hk.app.key = hook[u].app.key
        BY <1>1, <4>1, WithBootstrappedIs
      <4> QED
        BY <2>4, <2>5, <4>1, <4>2
    <3>5. ASSUME NEW hk, Restarted(u, hk) PROVE HasKey(u, hook[u].app.key)'
      <4>1. /\ hook'[u] = hk /\ hook[u].pc = "restart" /\ reach[u]
            /\ hk.app = hook[u].app
        BY <1>1, <3>5, OneHook DEF Restarted, Over
      <4>2. running'[u] = ConfOf(u)
        BY <1>1, <3>5, <4>1 DEF Restarted, Placed, WellFormed, TypeOK
      <4> QED
        BY <2>4, <2>5, <4>1, <4>2
    <3> QED
      BY <3>1, <3>2, <3>3, <3>4, <3>5 DEF Works
  <2> QED
    BY <1>1, <1>2, <1>5, <1>9, <2>1, <2>2, <2>3, <2>5 DEF Keyed, Frame
<1> QED
  BY <1>8, <1>9

\* A step of a hook.
LEMMA WorksSteady ==
  ASSUME Steady, NEW u \in Units, Works(u)
  PROVE  ServingImpliesBootstrapped' /\ Leads' /\ (\A v \in Units : Hooked(v)') /\ Keyed'
<1>1. /\ WellFormed /\ Located /\ Placed(u) /\ Hooked(u) /\ leader \in Units
      /\ joined[u] \in Databases \cup {None}
      /\ running \in [Units -> Conf \cup {None}] /\ ServingImpliesBootstrapped
  BY DEF Steady, Located, WellFormed, TypeOK
<1>2. /\ Frame /\ InHook(u) /\ Grown
      /\ \A v \in Units : v # u => hook'[v] = hook[v] /\ running'[v] = running[v]
      /\ hook'[u].kind = hook[u].kind
  BY <1>1, WorksKeeps
<1>3. Leads'
  BY <1>1, <1>2, LeadsKept DEF Steady, Frame
<1>4. ServingImpliesBootstrapped'
  <2>1. CASE running'[u] \in {running[u], None}
    BY <1>1, <1>2, <2>1, BackedKept
  <2>2. CASE /\ hook[u].app.bootstrapped /\ joined[u] # None /\ root' = root
             /\ running'[u] = ConfOf(u)
    <3>1. root'[joined[u]] # None /\ ConfOf(u).db = joined[u]
      BY <1>1, <1>2, <2>2 DEF Hooked, ConfOf
    <3> QED
      BY <1>1, <1>2, <2>2, <3>1 DEF ServingImpliesBootstrapped
  <2> QED
    BY <1>1, <2>1, <2>2, WorksStarts
<1> QED
  BY <1>3, <1>4, WorksHooked, WorksKeyed

\* A hook that fails.
LEMMA FailsSteady ==
  ASSUME Steady, NEW u \in Units, Fails(u)
  PROVE  ServingImpliesBootstrapped' /\ Leads' /\ (\A v \in Units : Hooked(v)') /\ Keyed'
<1>1. WellFormed /\ ServingImpliesBootstrapped /\ Leads /\ Keyed /\ leader \in Units
  BY DEF Steady, Located, WellFormed, TypeOK
<1>2. /\ UNCHANGED <<leader, peers, app, joined>>
      /\ ~InHook(u)' /\ \A v \in Units : v # u => hook'[v] = hook[v]
      /\ hook'[u].kind = hook[u].kind
      /\ \A v \in Units : running'[v] \in {running[v], None}
      /\ Grown
  BY <1>1, FailsKeeps
<1>3. Leads'
  BY <1>1, <1>2, LeadsKept
<1>4. ASSUME NEW v \in Units PROVE Hooked(v)'
  <2>1. CASE v = u
    BY <1>2, <2>1 DEF Hooked
  <2>2. CASE v # u
    BY <1>1, <1>2, <2>2, HookedAlone DEF Steady
  <2> QED
    BY <2>1, <2>2
<1>5. Exposed' => Exposed
  BY <1>2 DEF Exposed, InHook
<1>6. InHook(leader)' => leader # u /\ InHook(leader) /\ hook'[leader] = hook[leader]
  BY <1>1, <1>2 DEF InHook
<1>7. Keyed'
  BY <1>1, <1>2, <1>5, <1>6, KeyedKept DEF Keyed
<1> QED
  BY <1>1, <1>2, <1>3, <1>4, <1>7, BackedKept

\* A hook that commits.
LEMMA CommitSteady ==
  ASSUME Steady, NEW u \in Units, Commit(u)
  PROVE  ServingImpliesBootstrapped' /\ Leads' /\ (\A v \in Units : Hooked(v)') /\ Keyed'
<1>1. /\ WellFormed /\ Located /\ Attached /\ Placed(u) /\ Hooked(u) /\ Keyed /\ Leads
      /\ ServingImpliesBootstrapped /\ leader \in Units
      /\ joined \in [Units -> Databases \cup {None}]
      /\ running \in [Units -> Conf \cup {None}]
      /\ None \notin RandomKeys /\ app \in AppData
  BY ConstantsAssumption DEF Steady, Located, WellFormed, TypeOK
<1>2. /\ UNCHANGED <<leader, peers, joined, running, root>> /\ Grown
      /\ hook'[u] = IdleHook /\ \A v \in Units : v # u => hook'[v] = hook[v]
      /\ hook[u].todo = <<>> /\ hook[u].pc = "run" /\ InHook(u)
      /\ app' = IF hook[u].wrote THEN hook[u].app ELSE app
  BY <1>1, OneHook, CollectedGrows DEF Commit, juju, operator, workload, Done, InHook
<1>3. IdleHook.pc = "idle"
  BY DEF IdleHook
<1>4. /\ u # leader => app' = app
      /\ u = leader => app' = hook[u].app
  BY <1>1, <1>2 DEF Hooked
<1>5. app.key # None => app'.key = app.key
  BY <1>1, <1>2, CommitFresh DEF Steady, Consistent, Advances
<1>6. Leads'
  <2>1. CASE u # leader
    BY <1>1, <1>2, <1>4, <2>1, LeadsKept
  <2>2. CASE u = leader /\ app'.bootstrapped
    <3>1. /\ peers /\ ClusterReady(app') /\ joined[u] # None /\ root[joined[u]] # None
      BY <1>1, <1>2, <1>4, <2>2 DEF Hooked
    <3>2. \A v \in Units : joined[v] # None => joined[v] = joined[u]
      BY <1>1, <3>1 DEF Attached
    <3>3. ClusterReady(app)'
      BY <3>1 DEF ClusterReady
    <3> QED
      BY <1>2, <2>2, <3>1, <3>2, <3>3 DEF Leads
  <2> QED
    BY <2>1, <2>2 DEF Leads
<1>7. ASSUME NEW v \in Units PROVE Hooked(v)'
  <2>1. CASE v = u
    BY <1>2, <1>3, <2>1 DEF Hooked, InHook
  <2>2. CASE v # u
    BY <1>1, <1>2, <1>4, <1>5, <2>2, HookedAlone DEF Steady
  <2> QED
    BY <2>1, <2>2
<1>8. Keyed'
  <2>1. \A v \in Units \ {leader} : HasKey(v, app.key)'
    <3> SUFFICES ASSUME NEW v \in Units \ {leader}, running[v] # None
                 PROVE  running[v].key = app'.key
      BY <1>2 DEF HasKey
    <3>1. running[v].key = app.key /\ running[v].key \in RandomKeys
      BY <1>1 DEF Keyed, HasKey, Conf
    <3> QED
      BY <1>1, <1>5, <3>1
  <2>2. InHook(leader)' => leader # u /\ InHook(leader) /\ hook'[leader] = hook[leader]
    BY <1>1, <1>2, <1>3 DEF InHook
  <2>3. InHook(leader)' /\ hook'[leader].app.bootstrapped /\ hook'[leader].pc # "restart"
          => HasKey(leader, hook[leader].app.key)'
    BY <1>1, <1>2, <2>2 DEF Keyed, HasKey
  <2>4. CASE Exposed
    <3>1. app.key # None /\ HasKey(leader, app.key)
      BY <1>1, <2>4 DEF Keyed
    <3> QED
      BY <1>1, <1>2, <1>5, <2>1, <2>3, <3>1 DEF Keyed, HasKey
  <2>5. CASE ~Exposed /\ Exposed'
    <3>1. u = leader /\ app'.bootstrapped
      BY <1>2, <1>3, <1>4, <2>5 DEF Exposed, InHook
    <3>2. app'.key # None /\ HasKey(leader, app'.key)
      BY <1>1, <1>2, <1>4, <3>1 DEF Hooked, Keyed, ClusterReady
    <3> QED
      BY <1>1, <1>2, <2>1, <2>3, <3>2 DEF Keyed, HasKey
  <2>6. CASE ~Exposed'
    BY <1>2, <2>1, <2>3, <2>6 DEF Keyed
  <2> QED
    BY <2>4, <2>5, <2>6
<1> QED
  BY <1>1, <1>2, <1>6, <1>7, <1>8, BackedKept

\* A hook that begins, again or for the first time.
LEMMA StartSteady ==
  ASSUME Steady, NEW u \in Units, Retry(u) \/ \E kind \in Kinds : Dispatch(u, kind)
  PROVE  ServingImpliesBootstrapped' /\ Leads' /\ (\A v \in Units : Hooked(v)') /\ Keyed'
<1>1. /\ WellFormed /\ Placed(u) /\ Hooked(u) /\ Keyed /\ Leads
      /\ ServingImpliesBootstrapped /\ leader \in Units
      /\ joined \in [Units -> Databases \cup {None}]
  BY DEF Steady, Located, WellFormed, TypeOK
<1>2. PICK kind \in Kinds \cup {hook[u].kind} :
        /\ Set(u, NewHook(u, kind))
        /\ joined' = IF hook[u].pc = "idle" /\ kind = "metastore_broken"
                     THEN [joined EXCEPT ![u] = None] ELSE joined
        /\ hook[u].pc = "idle" \/ (hook[u].pc = "error" /\ kind = hook[u].kind)
        /\ UNCHANGED <<leader, peers, app, running, root, schema>>
  BY DEF Retry, Dispatch, juju, operator, workload, database
<1> DEFINE n == NewHook(u, kind)
<1>3. hook'[u] = n /\ \A v \in Units : v # u => hook'[v] = hook[v]
  BY <1>1, <1>2, OneHook
<1>4. /\ n.pc = "run" /\ n.kind = kind /\ n.todo = HandlersOf(kind)
      /\ (n.leader <=> leader = u) /\ n.deposed = FALSE /\ n.app = app /\ n.wrote = FALSE
  BY DEF NewHook
<1> HIDE DEF n
<1>5. HandlersOf("metastore_broken") # <<>>
  BY DEF HandlersOf
<1>6. /\ joined'[u] = IF hook[u].pc = "idle" /\ kind = "metastore_broken"
                      THEN None ELSE joined[u]
      /\ \A v \in Units : v # u => joined'[v] = joined[v]
      /\ Grown
  BY <1>1, <1>2 DEF Grown
<1>7. app.bootstrapped /\ u = leader => joined'[u] # None \/ n.kind = "metastore_broken"
  BY <1>1, <1>2, <1>4, <1>6, NoneIsNoKind DEF Leads, Placed
<1>8. Leads'
  <2>1. ClusterReady(app) => ClusterReady(app)'
    BY <1>2 DEF ClusterReady
  <2>2. \A v \in Units : joined'[v] # None => joined'[v] = joined[v]
    BY <1>6
  <2>3. u # leader => joined'[leader] = joined[leader] /\ hook'[leader] = hook[leader]
    BY <1>1, <1>3, <1>6
  <2> QED
    BY <1>1, <1>2, <1>3, <1>7, <2>1, <2>2, <2>3 DEF Leads
<1>9. ASSUME NEW v \in Units PROVE Hooked(v)'
  <2>1. CASE v # u
    BY <1>1, <1>2, <1>3, <1>6, <2>1, HookedAlone DEF Steady
  <2>2. CASE v = u
    <3>1. ClusterReady(hook[u].app)' <=> ClusterReady(app)
      BY <1>3, <1>4 DEF ClusterReady
    <3>2. joined'[u] # None => joined'[u] = joined[u]
      BY <1>6
    <3> QED
      BY <1>1, <1>2, <1>3, <1>4, <1>5, <1>7, <2>2, <3>1, <3>2 DEF Hooked, Leads
  <2> QED
    BY <2>1, <2>2
<1>10. Keyed'
  <2>1. Exposed' => Exposed
    BY <1>2, <1>3, <1>4 DEF Exposed, InHook
  <2>2. CASE u # leader
    <3>1. hook'[leader] = hook[leader]
      BY <1>1, <1>3, <2>2
    <3> QED
      BY <1>1, <1>2, <2>1, <3>1, KeyedKept DEF Keyed, InHook
  <2>3. CASE u = leader
    <3>1. hook'[leader].app.bootstrapped => HasKey(leader, hook'[leader].app.key)
      BY <1>1, <1>3, <1>4, <2>3 DEF Keyed, Exposed
    <3> QED
      BY <1>1, <1>2, <2>1, <3>1, KeyedKept
  <2> QED
    BY <2>2, <2>3
<1> QED
  BY <1>1, <1>2, <1>6, <1>8, <1>9, <1>10, BackedKept

\* Juju, Kubernetes and the operator.
LEMMA EnvironmentSteady ==
  ASSUME StableLease, Steady, Environment
  PROVE  ServingImpliesBootstrapped' /\ Leads' /\ (\A v \in Units : Hooked(v)') /\ Keyed'
<1>1. /\ WellFormed /\ Located /\ Attached /\ \A v \in Units : Placed(v) /\ Hooked(v)
      /\ Keyed /\ Leads /\ ServingImpliesBootstrapped /\ leader \in Units
      /\ joined \in [Units -> Databases \cup {None}] /\ peers \in BOOLEAN
  BY DEF Steady, Located, WellFormed, TypeOK
<1>2. UNCHANGED <<app, root, schema>> /\ \A v \in Units : running'[v] \in {running[v], None}
  BY <1>1, EnvironmentKeeps
<1>3. Grown
  BY <1>2 DEF Grown
<1>4. ASSUME NEW v \in Units PROVE ~Elect(v)
  BY DEF Elect, Fault, StableLease
<1>5. leader' = leader /\ hook' = hook /\ (peers => peers')
  BY <1>1, <1>4 DEF Environment, ContainerRestart, PebbleUp, MetastoreJoined, CreatePeers,
     SetSystemUser, ToggleStorage, RelateMetastore, RemoveMetastore, juju
<1>6. \/ joined' = joined
      \/ \E v \in Units : /\ hook[v].pc = "idle" /\ rel # None /\ joined[v] = None
                          /\ joined' = [joined EXCEPT ![v] = rel]
  BY <1>4 DEF Environment, ContainerRestart, PebbleUp, MetastoreJoined, CreatePeers,
     SetSystemUser, ToggleStorage, RelateMetastore, RemoveMetastore
<1>7. \A v \in Units : InHook(v) => joined'[v] = joined[v]
  BY <1>1, <1>6 DEF InHook
<1>8. ASSUME NEW v \in Units PROVE Hooked(v)'
  BY <1>1, <1>2, <1>3, <1>5, <1>7, HookedAlone
<1>9. Exposed' => Exposed
  BY <1>2, <1>5 DEF Exposed, InHook
<1>10. Keyed'
  BY <1>1, <1>2, <1>5, <1>9, KeyedKept DEF Keyed, InHook
<1>11. Leads'
  <2>1. CASE joined' = joined
    BY <1>1, <1>2, <1>3, <1>5, <2>1, LeadsKept
  <2>2. ASSUME NEW v \in Units, hook[v].pc = "idle", rel # None, joined[v] = None,
               joined' = [joined EXCEPT ![v] = rel], app.bootstrapped
        PROVE  Leads'
    <3>1. hook[leader].kind # "metastore_broken"
      BY <1>1, <2>2 DEF Attached, Leaving
    <3>2. joined[leader] = rel /\ root[rel] # None /\ leader # v
      BY <1>1, <2>2, <3>1 DEF Leads, Attached
    <3>3. \A w \in Units : joined'[w] \in {joined[w], rel}
      BY <1>1, <2>2
    <3>4. joined'[leader] = rel
      BY <1>1, <2>2, <3>2
    <3>5. ClusterReady(app)' <=> ClusterReady(app)
      BY <1>2 DEF ClusterReady
    <3> QED
      BY <1>1, <1>2, <1>5, <2>2, <3>2, <3>3, <3>4, <3>5 DEF Leads
  <2>3. ~app.bootstrapped => Leads'
    BY <1>2 DEF Leads
  <2> QED
    BY <1>6, <2>1, <2>2, <2>3
<1> QED
  BY <1>1, <1>2, <1>3, <1>8, <1>10, <1>11, BackedKept

LEMMA InitSteady ==
  ASSUME Init
  PROVE  Steady
<1>1. /\ \A u \in Units : hook[u].pc = "idle" /\ running[u] = None
      /\ ~app.bootstrapped /\ leader \in Units
  BY DEF Init, IdleHook, EmptyApp
<1>2. ~Exposed
  BY <1>1 DEF Exposed, InHook
<1> QED
  BY <1>1, <1>2, InitLocated, InitConsistent
  DEF Steady, Consistent, ServingImpliesBootstrapped, Leads, Hooked, Keyed, HasKey, InHook

LEMMA NextSteady ==
  ASSUME StableLease, Steady, [Next]_vars
  PROVE  Steady'
<1>1. Located' /\ Fresh' /\ WellFormed
  <2>1. NoPromotion
    BY DEF StableLease, NoPromotion
  <2> QED
    BY <2>1, NextLocated, NextFresh DEF Steady, Located, Consistent
<1>2. CASE UNCHANGED vars
  <2>1. UNCHANGED <<leader, peers, app, hook, joined, running, root, schema>>
    BY <1>2 DEF vars
  <2>2. Grown /\ (Exposed' => Exposed) /\ leader \in Units
    BY <1>1, <2>1 DEF Grown, Exposed, InHook, WellFormed, TypeOK
  <2>3. Leads' /\ ServingImpliesBootstrapped' /\ \A v \in Units : Hooked(v)'
    BY <1>1, <2>1, <2>2, LeadsKept, BackedKept, HookedAlone DEF Steady
  <2>4. Keyed'
    BY <2>1, <2>2, KeyedKept DEF Steady, Keyed, InHook
  <2> QED
    BY <1>1, <2>3, <2>4 DEF Steady
<1> QED
  BY <1>1, <1>2, StepShape, WorksSteady, FailsSteady, CommitSteady, StartSteady,
     EnvironmentSteady DEF Steady

LEMMA SteadyAlways ==
  ASSUME StableLease
  PROVE  Spec => []Steady
BY InitSteady, NextSteady, PTL DEF Spec

\* Under one leader the flag is down once no unit has the relation any more, whatever
\* else goes wrong.
THEOREM FlagFollowsRelation ==
  ASSUME StableLease
  PROVE  Spec => []BrokenClearsBootstrap
<1>1. Steady => BrokenClearsBootstrap
  BY DEF Steady, Located, WellFormed, TypeOK, Leads, BrokenClearsBootstrap, Detached
<1> QED
  BY <1>1, SteadyAlways, PTL

\* Under one leader, also when the application moves from a database to another one, a
\* service only ever runs on a database that was bootstrapped.
THEOREM ServingUnderOneLeader ==
  ASSUME StableLease
  PROVE  Spec => []ServingImpliesBootstrapped
<1>1. Steady => ServingImpliesBootstrapped
  BY DEF Steady
<1> QED
  BY <1>1, SteadyAlways, PTL

\* Under one leader all services sign with the same key between hooks: a leader whose
\* key was lost with its hook restarts before another unit serves.
THEOREM ServicesShareKey ==
  ASSUME StableLease
  PROVE  Spec => []TokensAgree
<1>1. Steady => TokensAgree
  <2> SUFFICES ASSUME Steady, NEW u \in Units, NEW v \in Units,
                      running[u] # None, running[v] # None
               PROVE  running[u].key = running[v].key
    BY DEF TokensAgree
  <2>1. Keyed
    BY DEF Steady
  <2>2. CASE u = leader /\ v = leader
    BY <2>2
  <2>3. CASE u # leader \/ v # leader
    <3>1. Exposed
      BY <2>3 DEF Exposed
    <3> QED
      BY <2>1, <3>1 DEF Keyed, HasKey
  <2> QED
    BY <2>2, <2>3
<1> QED
  BY <1>1, SteadyAlways, PTL
===============================================================================
