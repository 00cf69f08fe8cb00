--------------------------- MODULE Console_proofs ---------------------------
(***************************************************************************)
(* Theorems about Console, for any units, certificates, addresses, changes *)
(* and faults.                                                             *)
(***************************************************************************)
EXTENDS Console, TLAPS

-------------------------------------------------------------------------------
(* The turns of a hook                                                       *)

AllKinds == {"update", "console_ready", "polaris_ready", "leader_elected", "certificate",
             "tls_broken", "ingress_created", "ingress_changed", "ingress_departed",
             "ingress_broken", "oauth_changed", "oauth_broken"}

\* The events the handlers observe.
LEMMA KindsAre == Kinds = AllKinds
<1>1. Handlers = {"polaris", "tls", "set_url", "forget_url", "ingress", "oauth"}
  BY DEF Handlers, Observed
<1>2. /\ Observed["polaris"] = PolarisKinds /\ Observed["tls"] = TlsKinds
      /\ Observed["set_url"] = SetUrlKinds /\ Observed["forget_url"] = ForgetUrlKinds
      /\ Observed["ingress"] = IngressKinds /\ Observed["oauth"] = OAuthKinds
  BY DEF Observed
<1>3. Kinds = PolarisKinds \cup TlsKinds \cup SetUrlKinds \cup ForgetUrlKinds
                \cup IngressKinds \cup OAuthKinds
  BY <1>1, <1>2 DEF Kinds
<1> QED
  BY <1>3 DEF AllKinds, PolarisKinds, TlsKinds, SetUrlKinds, ForgetUrlKinds, IngressKinds,
              OAuthKinds

LEMMA TurnsAre ==
  /\ Len(Turns) = 9 /\ DOMAIN Turns = 1..9
  /\ Turns[1] = "polaris" /\ Turns[2] = "tls" /\ Turns[3] = "oauth"
  /\ Turns[4] = "polaris" /\ Turns[5] = "tls" /\ Turns[6] = "set_url"
  /\ Turns[7] = "forget_url" /\ Turns[8] = "ingress" /\ Turns[9] = "oauth"
  BY DEF Turns

\* What the n-th turn makes of what was left before.
Turn(u, kind, n, o) ==
  IF Taken(u, kind, n) THEN Result(u, Turns[n], o.hook, o.console) ELSE o

\* A hook takes its turns one after the other.
LEMMA CourseIs ==
  ASSUME NEW u, NEW kind
  PROVE  /\ Course(u, kind)[0] = Outcome(NewHook(u, kind), console[u])
         /\ \A n \in 1..9 : Course(u, kind)[n] = Turn(u, kind, n, Course(u, kind)[n - 1])
<1> DEFINE s(n, o) == Turn(u, kind, n, o)
           o0 == Outcome(NewHook(u, kind), console[u])
           o1 == s(1, o0)
           o2 == s(2, o1)
           o3 == s(3, o2)
           o4 == s(4, o3)
           o5 == s(5, o4)
           o6 == s(6, o5)
           o7 == s(7, o6)
           o8 == s(8, o7)
           o9 == s(9, o8)
           c == [n \in 0..9 |-> IF n = 0 THEN o0 ELSE IF n = 1 THEN o1 ELSE IF n = 2 THEN o2
                   ELSE IF n = 3 THEN o3 ELSE IF n = 4 THEN o4 ELSE IF n = 5 THEN o5
                   ELSE IF n = 6 THEN o6 ELSE IF n = 7 THEN o7 ELSE IF n = 8 THEN o8 ELSE o9]
<1>1. Course(u, kind) = CHOOSE left : left = [n \in 0..9 |->
                          IF n = 0 THEN o0 ELSE s(n, left[n - 1])]
  BY TurnsAre DEF Course, Turn
<1> HIDE DEF s, o0, o1, o2, o3, o4, o5, o6, o7, o8, o9
<1>2. c = [n \in 0..9 |-> IF n = 0 THEN o0 ELSE s(n, c[n - 1])]
  <2> SUFFICES ASSUME NEW n \in 0..9 PROVE c[n] = IF n = 0 THEN o0 ELSE s(n, c[n - 1])
    OBVIOUS
  <2>1. n \in {0, 1, 2, 3, 4, 5, 6, 7, 8, 9}
    OBVIOUS
  <2> QED
    BY <2>1 DEF o1, o2, o3, o4, o5, o6, o7, o8, o9
<1>3. Course(u, kind) = [n \in 0..9 |->
                          IF n = 0 THEN o0 ELSE s(n, Course(u, kind)[n - 1])]
  BY <1>1, <1>2
<1> QED
  BY <1>3 DEF s, o0

-------------------------------------------------------------------------------
(* What a handler makes of a hook and of a container                         *)

Deferrable == {"polaris", "tls", "oauth"}

Views == [cert: Certs \cup {None}, ingress: BOOLEAN, url: Urls \cup {None},
          oauth: BOOLEAN, client: HttpsUrls \cup {None}]

Hooks == [sees: Views, defers: SUBSET Deferrable, scheme: Schemes \cup {None},
          config: HttpsUrls \cup {None}, member: BOOLEAN, stored: Urls \cup {None},
          port: Schemes \cup {None}]

Services == [env: Env, cert: Certs \cup {None}]

Pods == [assets: Certs \cup {None}, env: Env \cup {None}, running: Services \cup {None}]

Outcomes == [hook: Hooks, console: Pods]

\* A service that runs has the environment of its plan, and the certificate on disk.
KeepsEnv(con)   == con.running # None => con.running.env = con.env
KeepsCert(con)  == con.running # None => con.running.cert = con.assets

\* Whether a handler brings the console up to date, tells the ingress of the unit, or
\* may publish a client.
UpdatesConsole(u, h) ==
  \/ h \in {"polaris", "tls", "ingress", "oauth"} /\ Able(u, Containers)
  \/ h = "tls" /\ Able(u, {"console"})
Provides(u, h)   == h = "ingress" \/ (h = "tls" /\ Able(u, {"console"}))
Configures(u, h) == h \in {"tls", "ingress", "oauth"} /\ Able(u, Containers)
DefersItself(u, h) ==
  \/ h \in {"polaris", "oauth"} /\ ~Able(u, Containers)
  \/ h = "tls" /\ ~Able(u, {"console"})

\* The console has what the hook sees, and con is what it was before.
Fits(hk, con, next) ==
  /\ next.assets = hk.sees.cert /\ next.env = Environment(hk)
  /\ KeepsEnv(con) => KeepsEnv(next)
  /\ KeepsCert(con) => KeepsCert(next)

\* What h makes of a hook and a container.
Effect(u, h, hk, con, o) ==
  /\ o \in Outcomes /\ o.hook.sees = hk.sees
  /\ o.hook.port = IF h = "tls" /\ Able(u, {"console"}) THEN SchemeOf(hk.sees.cert) ELSE hk.port
  /\ o.hook.defers = hk.defers \cup (IF DefersItself(u, h) THEN {h} ELSE {})
  /\ o.hook.member = (hk.member \/ (hk.sees.ingress /\ Provides(u, h)))
  /\ o.hook.scheme = IF hk.sees.ingress /\ Provides(u, h) /\ leader = u
                     THEN SchemeOf(hk.sees.cert) ELSE hk.scheme
  /\ o.hook.config = IF Configures(u, h) /\ Url(hk) \in HttpsUrls /\ hk.sees.oauth /\ leader = u
                     THEN Url(hk) ELSE hk.config
  /\ o.hook.stored = IF h = "forget_url" THEN None
                     ELSE IF h = "set_url" /\ hk.sees.url # None THEN hk.sees.url ELSE hk.stored
  /\ IF UpdatesConsole(u, h) THEN Fits(hk, con, o.console) ELSE o.console = con

\* ConsoleManager.environment
LEMMA EnvironmentType ==
  ASSUME NEW hk \in Hooks
  PROVE  /\ Environment(hk) \in Env /\ Url(hk) \in Urls \cup {None}
         /\ SchemeOf(hk.sees.cert) \in Schemes
  BY DEF Environment, Env, Url, Hooks, Views, SchemeOf, Schemes

\* ConsoleManager.update leaves the console with what the hook sees.
LEMMA UpdatedFits ==
  ASSUME NEW hk \in Hooks, NEW con \in Pods
  PROVE  Updated(hk, con) \in Pods /\ Fits(hk, con, Updated(hk, con))
<1>0. Environment(hk) \in Env /\ hk.sees.cert \in Certs \cup {None}
  BY EnvironmentType DEF Hooks, Views
<1>1. CASE NeedsStart(hk, con)
  <2>1. Updated(hk, con) = Started(hk, con)
    BY <1>1 DEF Updated
  <2>2. Started(hk, con) \in Pods
    BY <1>0 DEF Started, Pods, Services
  <2>3. /\ Started(hk, con).assets = hk.sees.cert /\ Started(hk, con).env = Environment(hk)
        /\ Started(hk, con).running.env = Environment(hk)
        /\ Started(hk, con).running.cert = hk.sees.cert
    BY DEF Started
  <2> QED
    BY <2>1, <2>2, <2>3 DEF Fits, KeepsEnv, KeepsCert
<1>2. CASE ~NeedsStart(hk, con)
  <2>1. Updated(hk, con) = [con EXCEPT !.assets = hk.sees.cert]
    BY <1>2 DEF Updated, WithAssets
  <2>2. con.env = Environment(hk) /\ con.assets = hk.sees.cert
    BY <1>2 DEF NeedsStart
  <2>3. Updated(hk, con) = con
    BY <2>1, <2>2 DEF Pods
  <2> QED
    BY <2>2, <2>3 DEF Fits
<1> QED
  BY <1>1, <1>2

\* The effect of each handler.
LEMMA ResultIs ==
  ASSUME NEW u, NEW h \in Handlers, NEW hk \in Hooks, NEW con \in Pods
  PROVE  Effect(u, h, hk, con, Result(u, h, hk, con))
<1> USE DEF Outcomes, Outcome, Provides, Configures, DefersItself, UpdatesConsole
<1>h. h \in {"polaris", "tls", "set_url", "forget_url", "ingress", "oauth"}
  BY DEF Handlers, Observed
<1>a. Able(u, Containers) => Able(u, {"console"})
  BY DEF Able, Containers
<1>e. Url(hk) \in Urls \cup {None} /\ SchemeOf(hk.sees.cert) \in Schemes
  BY EnvironmentType
<1>1. CASE h = "polaris"
  <2>1. Result(u, h, hk, con) = PolarisReconcile(u, hk, con)
    BY <1>1 DEF Result
  <2> QED
    BY <1>1, <2>1, UpdatedFits DEF Effect, PolarisReconcile, Deferred, Hooks, Deferrable
<1>2. CASE h = "set_url"
  <2>1. Result(u, h, hk, con) = Outcome(SetUrl(hk), con)
    BY <1>2 DEF Result
  <2>2. SetUrl(hk) \in Hooks
    BY DEF SetUrl, Hooks, Views
  <2> QED
    BY <1>2, <2>1, <2>2 DEF Effect, SetUrl, Hooks
<1>3. CASE h = "forget_url"
  <2>1. Result(u, h, hk, con) = Outcome(ForgetUrl(hk), con)
    BY <1>3 DEF Result
  <2> QED
    BY <1>3, <2>1 DEF Effect, ForgetUrl, Hooks
<1>4. CASE h = "oauth"
  <2>1. Result(u, h, hk, con) = OAuthReconcile(u, hk, con, TRUE)
    BY <1>4 DEF Result
  <2> QED
    BY <1>4, <2>1, UpdatedFits DEF Effect, OAuthReconcile, ClientConfigured, Deferred, Hooks, Deferrable
<1>5. CASE h = "ingress"
  <2>1. Result(u, h, hk, con) = OAuthReconcile(u, Provided(u, hk), con, FALSE)
    BY <1>5 DEF Result, IngressReconcile
  <2> DEFINE p == Provided(u, hk)
  <2>2. /\ p \in Hooks /\ p.sees = hk.sees /\ p.stored = hk.stored /\ p.port = hk.port
        /\ p.defers = hk.defers /\ p.config = hk.config
        /\ p.member = (hk.member \/ hk.sees.ingress)
        /\ p.scheme = IF hk.sees.ingress /\ leader = u THEN SchemeOf(hk.sees.cert) ELSE hk.scheme
    BY <1>e DEF Provided, Hooks, Views
  <2>3. Url(p) = Url(hk) /\ Environment(p) = Environment(hk)
    BY <2>2 DEF Url, Environment
  <2> HIDE DEF p
  <2>4. Updated(p, con) \in Pods /\ Fits(hk, con, Updated(p, con))
    BY <2>2, <2>3, UpdatedFits DEF Fits
  <2> QED
    BY <1>5, <2>1, <2>2, <2>3, <2>4 DEF Effect, OAuthReconcile, ClientConfigured, Hooks, p
<1>6. CASE h = "tls"
  <2>1. CASE ~Able(u, {"console"})
    BY <1>6, <1>a, <2>1 DEF Effect, Result, TlsReconcile, Deferred, Hooks, Deferrable
  <2>2. CASE Able(u, {"console"})
    <3> DEFINE p == Provided(u, Ported(u, hk))
               w == Updated(hk, con)
    <3>1. Result(u, h, hk, con) = OAuthReconcile(u, p, Updated(hk, con), FALSE)
      BY <1>6, <2>2 DEF Result, TlsReconcile, IngressReconcile
    <3>2. /\ p \in Hooks /\ p.sees = hk.sees /\ p.stored = hk.stored
          /\ p.port = SchemeOf(hk.sees.cert)
          /\ p.defers = hk.defers /\ p.config = hk.config
          /\ p.member = (hk.member \/ hk.sees.ingress)
          /\ p.scheme = IF hk.sees.ingress /\ leader = u THEN SchemeOf(hk.sees.cert) ELSE hk.scheme
      BY <1>e DEF Provided, Ported, Hooks, Views
    <3>3. Url(p) = Url(hk) /\ Environment(p) = Environment(hk)
      BY <3>2 DEF Url, Environment
    <3>4. w \in Pods /\ Fits(hk, con, w)
      BY UpdatedFits
    <3> HIDE DEF p, w
    <3>5. Updated(p, w) \in Pods /\ Fits(hk, con, Updated(p, w))
      BY <3>2, <3>3, <3>4, UpdatedFits DEF Fits
    <3>6. Result(u, h, hk, con) = OAuthReconcile(u, p, w, FALSE)
      BY <3>1 DEF w
    <3> QED
      BY <1>6, <2>2, <3>6, <3>2, <3>3, <3>4, <3>5 DEF Effect, OAuthReconcile, ClientConfigured, Hooks
  <2> QED
    BY <2>1, <2>2
<1> QED
  BY <1>h, <1>1, <1>2, <1>3, <1>4, <1>5, <1>6

-------------------------------------------------------------------------------
(* A hook, turn by turn                                                      *)

\* The handlers among the first n turns of a hook.
Ran(u, kind, n) == {Turns[i] : i \in {j \in 1..n : Taken(u, kind, j)}}

\* The handlers a hook runs.
Runs(u, kind) == deferred[u] \cup {h \in Handlers : kind \in Observed[h]}

LEMMA RanIs ==
  ASSUME NEW u, NEW kind
  PROVE  /\ Ran(u, kind, 0) = {}
         /\ \A n \in 1..9 : Ran(u, kind, n) = Ran(u, kind, n - 1)
                              \cup (IF Taken(u, kind, n) THEN {Turns[n]} ELSE {})
         /\ \A n \in 0..9 : \A h \in Ran(u, kind, n) : h \in deferred[u] \/ kind \in Observed[h]
         /\ deferred[u] \subseteq Deferrable => Ran(u, kind, 9) = Runs(u, kind)
<1>1. Ran(u, kind, 0) = {}
  BY DEF Ran
<1>2. ASSUME NEW n \in 1..9
      PROVE  Ran(u, kind, n) = Ran(u, kind, n - 1)
               \cup (IF Taken(u, kind, n) THEN {Turns[n]} ELSE {})
  <2>1. 1..n = (1..(n - 1)) \cup {n}
    OBVIOUS
  <2> QED
    BY <2>1 DEF Ran
<1>3. ASSUME NEW n \in 0..9, NEW h \in Ran(u, kind, n)
      PROVE  h \in deferred[u] \/ kind \in Observed[h]
  <2>1. PICK i \in 1..n : h = Turns[i] /\ Taken(u, kind, i)
    BY DEF Ran
  <2> QED
    BY <2>1 DEF Taken
<1>4. ASSUME deferred[u] \subseteq Deferrable
      PROVE  Ran(u, kind, 9) = Runs(u, kind)
  <2>1. Ran(u, kind, 9) \subseteq Runs(u, kind)
    <3> SUFFICES ASSUME NEW i \in 1..9, Taken(u, kind, i) PROVE Turns[i] \in Runs(u, kind)
      BY DEF Ran
    <3>1. Turns[i] \in Handlers
      BY TurnsAre DEF Handlers, Observed
    <3> QED
      BY <3>1 DEF Taken, Runs
  <2>2. ASSUME NEW h \in Runs(u, kind) PROVE h \in Ran(u, kind, 9)
    <3>1. CASE h \in deferred[u]
      <4>1. PICK i \in 1..3 : Turns[i] = h
        BY <1>4, <3>1, TurnsAre DEF Deferrable
      <4> QED
        BY <4>1, <3>1 DEF Ran, Taken
    <3>2. CASE h \in Handlers /\ kind \in Observed[h]
      <4>1. PICK i \in 4..9 : Turns[i] = h
        BY <3>2, TurnsAre DEF Handlers, Observed
      <4> QED
        BY <4>1, <3>2 DEF Ran, Taken
    <3> QED
      BY <3>1, <3>2 DEF Runs
  <2> QED
    BY <2>1, <2>2
<1> QED
  BY <1>1, <1>2, <1>3, <1>4

\* What a hook has made of what it began with, after the handlers in ran.
Stands(u, kind, ran, o) ==
  LET sees == Sees(u, kind)
      provided == sees.ingress /\ \E h \in ran : Provides(u, h)
  IN  /\ o \in Outcomes /\ o.hook.sees = sees
      /\ o.hook.port = IF "tls" \in ran /\ Able(u, {"console"}) THEN SchemeOf(sees.cert) ELSE port[u]
      /\ o.hook.defers = {h \in ran : DefersItself(u, h)}
      /\ o.hook.member = provided
      /\ o.hook.scheme = IF provided /\ leader = u THEN SchemeOf(sees.cert) ELSE None
      /\ o.hook.config # None => leader = u /\ sees.oauth /\ Able(u, Containers)
      /\ o.hook.stored = IF "forget_url" \in ran THEN None
                         ELSE IF "set_url" \in ran /\ sees.url # None THEN sees.url ELSE stored[u]
      /\ IF \E h \in ran : UpdatesConsole(u, h) THEN o.console.assets = sees.cert
                                                ELSE o.console = console[u]
      /\ KeepsEnv(console[u]) => KeepsEnv(o.console)
      /\ KeepsCert(console[u]) => KeepsCert(o.console)

\* What a hook sees is of its type.
LEMMA ViewsType ==
  ASSUME TypeOK, NEW u \in Units, NEW kind
  PROVE  Sees(u, kind) \in Views
<1>1. ConsoleTls(u, kind) \in Certs \cup {None}
  BY DEF ConsoleTls, TypeOK
<1>2. ingress.url \in Urls \cup {None} /\ oauth.client \in HttpsUrls \cup {None}
  BY DEF TypeOK
<1>3. Visible(u, "ingress") \in BOOLEAN /\ Visible(u, "oauth") \in BOOLEAN
  BY DEF Visible
<1> QED
  BY <1>1, <1>2, <1>3 DEF Sees, Views

LEMMA HookBegins ==
  ASSUME TypeOK, NEW u \in Units, NEW kind
  PROVE  Stands(u, kind, {}, Course(u, kind)[0])
<1> DEFINE hk == NewHook(u, kind)
<1>1. Course(u, kind)[0] = Outcome(hk, console[u])
  BY CourseIs
<1>2. /\ hk \in Hooks /\ hk.sees = Sees(u, kind) /\ hk.defers = {} /\ hk.scheme = None
      /\ hk.config = None /\ hk.member = FALSE /\ hk.stored = stored[u] /\ hk.port = port[u]
  BY ViewsType DEF NewHook, Hooks, TypeOK
<1>3. console[u] \in Pods
  BY DEF TypeOK, Pods, Services
<1> HIDE DEF hk
<1>4. Outcome(hk, console[u]) \in Outcomes
  BY <1>2, <1>3 DEF Outcome, Outcomes
<1>5. {h \in {} : DefersItself(u, h)} = {} /\ ~\E h \in {} : Provides(u, h) \/ UpdatesConsole(u, h)
  OBVIOUS
<1>6. Outcome(hk, console[u]).hook = hk /\ Outcome(hk, console[u]).console = console[u]
  BY DEF Outcome
<1> QED
  BY <1>1, <1>2, <1>4, <1>5, <1>6 DEF Stands

\* Each turn keeps the account.
LEMMA HookContinues ==
  ASSUME TypeOK, NEW u \in Units, NEW kind, NEW n \in 1..9,
         Stands(u, kind, Ran(u, kind, n - 1), Course(u, kind)[n - 1])
  PROVE  Stands(u, kind, Ran(u, kind, n), Course(u, kind)[n])
<1> DEFINE o == Course(u, kind)[n - 1]
           r == Course(u, kind)[n]
           h == Turns[n]
           was == Ran(u, kind, n - 1)
           ran == Ran(u, kind, n)
<1>1. r = Turn(u, kind, n, o)
  BY CourseIs
<1>2. ran = was \cup (IF Taken(u, kind, n) THEN {h} ELSE {})
  BY RanIs
<1>3. CASE ~Taken(u, kind, n)
  BY <1>1, <1>2, <1>3 DEF Turn
<1>4. CASE Taken(u, kind, n)
  <2>1. h \in Handlers
    BY TurnsAre DEF Handlers, Observed
  <2>2. o.hook \in Hooks /\ o.console \in Pods
    BY DEF Stands, Outcomes
  <2>3. Effect(u, h, o.hook, o.console, r)
    BY <1>1, <1>4, <2>1, <2>2, ResultIs DEF Turn
  <2>4. ran = was \cup {h}
    BY <1>2, <1>4
  <2>5. h = "set_url" => "forget_url" \notin was
    <3> SUFFICES ASSUME h = "set_url", "forget_url" \in was PROVE FALSE
      OBVIOUS
    <3>1. n = 6
      BY TurnsAre
    <3>2. PICK i \in 1..5 : Turns[i] = "forget_url"
      BY <3>1 DEF Ran
    <3> QED
      BY <3>2, TurnsAre
  <2> HIDE DEF o, r, h, was, ran
  <2>6. Stands(u, kind, was, o)
    BY DEF o, was
  <2>7. /\ r \in Outcomes /\ r.hook.sees = Sees(u, kind)
        /\ r.hook.port = IF "tls" \in ran /\ Able(u, {"console"})
                         THEN SchemeOf(Sees(u, kind).cert) ELSE port[u]
        /\ r.hook.defers = {g \in ran : DefersItself(u, g)}
    BY <2>3, <2>4, <2>6 DEF Effect, Stands
  <2>8. (\E g \in ran : Provides(u, g)) <=> Provides(u, h) \/ \E g \in was : Provides(u, g)
    BY <2>4
  <2>9. /\ r.hook.member = (Sees(u, kind).ingress /\ \E g \in ran : Provides(u, g))
        /\ r.hook.scheme = IF (Sees(u, kind).ingress /\ \E g \in ran : Provides(u, g)) /\ leader = u
                           THEN SchemeOf(Sees(u, kind).cert) ELSE None
    BY <2>3, <2>6, <2>8 DEF Effect, Stands
  <2>10. /\ r.hook.config # None => leader = u /\ Sees(u, kind).oauth /\ Able(u, Containers)
         /\ r.hook.stored = IF "forget_url" \in ran THEN None
                            ELSE IF "set_url" \in ran /\ Sees(u, kind).url # None
                            THEN Sees(u, kind).url ELSE stored[u]
    BY <2>3, <2>4, <2>5, <2>6 DEF Effect, Stands, Configures
  <2>11. (\E g \in ran : UpdatesConsole(u, g))
           <=> UpdatesConsole(u, h) \/ \E g \in was : UpdatesConsole(u, g)
    BY <2>4
  <2>12. /\ IF \E g \in ran : UpdatesConsole(u, g) THEN r.console.assets = Sees(u, kind).cert
                                                  ELSE r.console = console[u]
         /\ KeepsEnv(console[u]) => KeepsEnv(r.console)
         /\ KeepsCert(console[u]) => KeepsCert(r.console)
    BY <2>3, <2>6, <2>11 DEF Effect, Stands, Fits
  <2>13. Stands(u, kind, ran, r)
    BY <2>7, <2>9, <2>10, <2>12 DEF Stands
  <2> QED
    BY <2>13 DEF ran, r
<1> QED
  BY <1>3, <1>4

\* So the account holds at every turn.
LEMMA HookStands ==
  ASSUME TypeOK, NEW u \in Units, NEW kind
  PROVE  \A n \in 0..9 : Stands(u, kind, Ran(u, kind, n), Course(u, kind)[n])
<1> DEFINE good(n) == Stands(u, kind, Ran(u, kind, n), Course(u, kind)[n])
<1>0. good(0)
  BY HookBegins, RanIs
<1>a. \A n \in 1..9 : good(n - 1) => good(n)
  BY HookContinues
<1> HIDE DEF good
<1>1. good(1)
  BY <1>0, <1>a
<1>2. good(2)
  BY <1>1, <1>a
<1>3. good(3)
  BY <1>2, <1>a
<1>4. good(4)
  BY <1>3, <1>a
<1>5. good(5)
  BY <1>4, <1>a
<1>6. good(6)
  BY <1>5, <1>a
<1>7. good(7)
  BY <1>6, <1>a
<1>8. good(8)
  BY <1>7, <1>a
<1>9. good(9)
  BY <1>8, <1>a
<1> QED
  BY <1>0, <1>1, <1>2, <1>3, <1>4, <1>5, <1>6, <1>7, <1>8, <1>9 DEF good

\* What a hook that ends leaves.
LEMMA HookEnds ==
  ASSUME TypeOK, NEW u \in Units, NEW kind
  PROVE  Stands(u, kind, Runs(u, kind), Course(u, kind)[Len(Turns)])
<1>1. deferred[u] \subseteq Deferrable
  BY DEF TypeOK, Deferrable
<1> QED
  BY <1>1, HookStands, RanIs, TurnsAre

\* What a hook that fails may make of the container.
Spoilt(u, kind, con) ==
  /\ con \in Pods /\ con.assets \in {console[u].assets, Sees(u, kind).cert}
  /\ con.running # None => \/ console[u].running # None
                           \/ Able(u, {"console"}) /\ con.assets = Sees(u, kind).cert
  /\ KeepsEnv(console[u]) => KeepsEnv(con)
  /\ (\A h \in Runs(u, kind) : ~UpdatesConsole(u, h)) => con = console[u]

\* After any turn the container is as a hook that fails may leave it.
LEMMA TurnSpoils ==
  ASSUME TypeOK, NEW u \in Units, NEW kind, NEW n \in 0..9
  PROVE  Spoilt(u, kind, Course(u, kind)[n].console)
<1> DEFINE o == Course(u, kind)[n]
           ran == Ran(u, kind, n)
<1>1. Stands(u, kind, ran, o)
  BY HookStands
<1>2. ran \subseteq Runs(u, kind)
  <2>1. \A i \in 1..n : Turns[i] \in Handlers
    BY TurnsAre DEF Handlers, Observed
  <2>2. ran \subseteq Handlers
    BY <2>1 DEF Ran
  <2> QED
    BY <2>2, RanIs DEF Runs
<1>3. ASSUME NEW h, UpdatesConsole(u, h) PROVE Able(u, {"console"})
  BY <1>3 DEF UpdatesConsole, Able, Containers
<1> HIDE DEF o, ran
<1>4. o.console \in Pods
  BY <1>1 DEF Stands, Outcomes
<1>5. Spoilt(u, kind, o.console)
  BY <1>1, <1>2, <1>3, <1>4 DEF Stands, Spoilt
<1> QED
  BY <1>5 DEF o

\* So is what ConsoleManager.update leaves when it is interrupted.
LEMMA RaiseSpoils ==
  ASSUME TypeOK, NEW u \in Units, NEW kind, NEW n \in 1..9, Taken(u, kind, n),
         NEW con \in IF Course(u, kind)[n].console = Course(u, kind)[n - 1].console
                     THEN {Course(u, kind)[n - 1].console}
                     ELSE Interrupted(Course(u, kind)[n].hook, Course(u, kind)[n - 1].console)
  PROVE  Spoilt(u, kind, con)
<1> DEFINE o == Course(u, kind)[n - 1]
           r == Course(u, kind)[n]
           h == Turns[n]
<1>1. Spoilt(u, kind, o.console)
  BY TurnSpoils
<1>2. CASE r.console = o.console
  BY <1>1, <1>2
<1>3. CASE r.console # o.console
  <2>1. con \in Interrupted(r.hook, o.console)
    BY <1>3
  <2>2. Stands(u, kind, Ran(u, kind, n - 1), o) /\ Stands(u, kind, Ran(u, kind, n), r)
    BY HookStands
  <2>3. /\ o.hook \in Hooks /\ o.console \in Pods /\ r.hook \in Hooks /\ r.console \in Pods
        /\ r.hook.sees = Sees(u, kind)
    BY <2>2 DEF Stands, Outcomes
  <2>4. h \in Handlers
    BY TurnsAre DEF Handlers, Observed
  <2>5. Effect(u, h, o.hook, o.console, r)
    <3>1. r = Result(u, h, o.hook, o.console)
      BY CourseIs DEF Turn
    <3> QED
      BY <3>1, <2>3, <2>4, ResultIs
  <2>6. UpdatesConsole(u, h)
    BY <1>3, <2>5 DEF Effect
  <2>7. h \in Runs(u, kind)
    BY <2>4 DEF Runs, Taken
  <2>8. Able(u, {"console"})
    BY <2>6 DEF UpdatesConsole, Able, Containers
  <2> HIDE DEF o, r, h
  <2> DEFINE w == WithAssets(r.hook, o.console)
             t == Updated(r.hook, o.console)
             s == [Started(r.hook, o.console) EXCEPT !.running = None]
  <2>9. con \in {o.console, w, t, s}
    BY <2>1 DEF Interrupted
  <2>10. r.hook.sees.cert \in Certs \cup {None} /\ Environment(r.hook) \in Env
    BY <2>3, EnvironmentType DEF Hooks, Views
  <2>11. /\ w \in Pods /\ w.assets = Sees(u, kind).cert
         /\ w.running = o.console.running /\ w.env = o.console.env
    BY <2>3, <2>10 DEF WithAssets, Pods
  <2>12. t \in Pods /\ t.assets = Sees(u, kind).cert /\ (KeepsEnv(o.console) => KeepsEnv(t))
    BY <2>3, UpdatedFits DEF Fits
  <2>13. s \in Pods /\ s.assets = Sees(u, kind).cert /\ s.running = None
    BY <2>3, <2>10 DEF Started, Pods, Services
  <2> HIDE DEF w, t, s
  <2>14. KeepsEnv(console[u]) => KeepsEnv(con)
    BY <1>1, <2>9, <2>11, <2>12, <2>13 DEF Spoilt, KeepsEnv
  <2> QED
    BY <1>1, <2>6, <2>7, <2>8, <2>9, <2>11, <2>12, <2>13, <2>14 DEF Spoilt
<1> QED
  BY <1>2, <1>3

\* What a hook that fails leaves behind.
HookFails(u, kind, con) ==
  /\ Spoilt(u, kind, con)
  /\ console' = [console EXCEPT ![u] = con]
  /\ failed' = [failed EXCEPT ![u] = kind]
  /\ mishaps \subseteq mishaps'
  /\ mishaps' \subseteq {"restart_lost", "config_dropped", "lease_moved", "backend_missed"}
  /\ "restart_lost" \notin mishaps' /\ KeepsCert(console[u]) => KeepsCert(con)
  /\ leader' # leader =>
       /\ leader' # u /\ "lease_moved" \in mishaps'
       /\ BackendMissed(leader') => "backend_missed" \in mishaps'
  /\ leader' \in Units
  /\ UNCHANGED <<peers, related, deferred, reach, data, own>>

LEMMA RaiseFails ==
  ASSUME TypeOK, NEW u \in Units, NEW kind, HookRaises(u, kind)
  PROVE  \E con : HookFails(u, kind, con)
<1>1. PICK n \in DOMAIN Turns :
        /\ Taken(u, kind, n)
        /\ \E con \in IF Course(u, kind)[n].console = Course(u, kind)[n - 1].console
                      THEN {Course(u, kind)[n - 1].console}
                      ELSE Interrupted(Course(u, kind)[n].hook, Course(u, kind)[n - 1].console) :
             /\ console' = [console EXCEPT ![u] = con]
             /\ mishaps' = IF con.running # None /\ con.running.cert # con.assets
                           THEN mishaps \cup {"restart_lost"} ELSE mishaps
  BY DEF HookRaises
<1>2. n \in 1..9
  BY TurnsAre
<1>3. PICK con \in IF Course(u, kind)[n].console = Course(u, kind)[n - 1].console
                   THEN {Course(u, kind)[n - 1].console}
                   ELSE Interrupted(Course(u, kind)[n].hook, Course(u, kind)[n - 1].console) :
        /\ console' = [console EXCEPT ![u] = con]
        /\ mishaps' = IF con.running # None /\ con.running.cert # con.assets
                      THEN mishaps \cup {"restart_lost"} ELSE mishaps
  BY <1>1
<1>4. Spoilt(u, kind, con)
  BY <1>1, <1>2, <1>3, RaiseSpoils
<1>5. leader' = leader /\ leader \in Units
  BY DEF HookRaises, TypeOK
<1> QED
  BY <1>3, <1>4, <1>5 DEF HookRaises, HookFails, KeepsCert, TypeOK

LEMMA DeposedFails ==
  ASSUME TypeOK, NEW u \in Units, NEW v \in Units, NEW kind, HookDeposed(u, v, kind)
  PROVE  \E con : HookFails(u, kind, con)
<1> DEFINE con == Course(u, kind)[Len(Turns)].console
<1>1. Spoilt(u, kind, con) /\ (KeepsCert(console[u]) => KeepsCert(con))
  BY TurnSpoils, TurnsAre, HookEnds DEF Stands
<1>2. console' = [console EXCEPT ![u] = con]
  BY DEF HookDeposed
<1> HIDE DEF con
<1> QED
  BY <1>1, <1>2 DEF HookDeposed, LeaseMoves, HookFails, TypeOK

-------------------------------------------------------------------------------
(* Types                                                                     *)

\* The notices of a unit when one hook begins.
LEMMA RemainingType ==
  ASSUME TypeOK, NEW u \in Units, NEW kind
  PROVE  Remaining(u, kind) \subseteq notices[u] /\ Remaining(u, kind) \subseteq Kinds
  BY DEF Remaining, TypeOK

\* Juju adds an event to the notices of some units.
LEMMA NotifyType ==
  ASSUME TypeOK, NEW us, NEW kind \in Kinds, Notify(us, kind)
  PROVE  notices' \in [Units -> SUBSET Kinds]
  BY DEF Notify, TypeOK

\* Every handler of a hook ran, and the hook commits.
LEMMA HookType ==
  ASSUME TypeOK, NEW u \in Units, NEW kind \in Kinds, Hook(u, kind)
  PROVE  TypeOK'
<1> DEFINE o == Course(u, kind)[Len(Turns)]
<1>1. Stands(u, kind, Runs(u, kind), o)
  BY HookEnds
<1>2. notices' \in [Units -> SUBSET Kinds]
  BY RemainingType DEF Hook, Begins, TypeOK
<1>3. /\ console' = [console EXCEPT ![u] = o.console]
      /\ ingress' = [ingress EXCEPT
                       !.backend = IF o.hook.scheme # None THEN o.hook.scheme ELSE @,
                       !.members = IF o.hook.member THEN @ \cup {u} ELSE @,
                       !.stale = IF o.hook.member THEN @ \ {u} ELSE @]
      /\ oauth' = IF o.hook.config # None THEN [oauth EXCEPT !.config = o.hook.config] ELSE oauth
      /\ stored' = [stored EXCEPT ![u] = o.hook.stored]
      /\ port' = [port EXCEPT ![u] = o.hook.port]
      /\ deferred' = [deferred EXCEPT ![u] = o.hook.defers]
  BY DEF Hook
<1>4. mishaps' \subseteq {"restart_lost", "config_dropped", "lease_moved", "backend_missed"}
  BY DEF Hook, Mishaps, TypeOK
<1> HIDE DEF o
<1>5. o.hook \in Hooks /\ o.console \in Pods
  BY <1>1 DEF Stands, Outcomes
<1>6. console' \in [Units -> Pods] /\ deferred' \in [Units -> SUBSET Deferrable]
  BY <1>3, <1>5 DEF Hooks, TypeOK, Pods, Services, Deferrable
<1>7. /\ stored' \in [Units -> Urls \cup {None}] /\ port' \in [Units -> Schemes \cup {None}]
      /\ oauth' \in [config: HttpsUrls \cup {None}, client: HttpsUrls \cup {None}, secret: BOOLEAN]
  BY <1>3, <1>5 DEF Hooks, TypeOK
<1>8. ingress' \in [backend: Schemes \cup {None}, members: SUBSET Units,
                    stale: SUBSET Units, url: Urls \cup {None}]
  BY <1>3, <1>5 DEF Hooks, TypeOK
<1> QED
  BY <1>2, <1>4, <1>6, <1>7, <1>8 DEF Hook, TypeOK, Pods, Services, Deferrable

LEMMA FailureType ==
  ASSUME TypeOK, NEW u \in Units, NEW kind \in Kinds, Begins(u, kind),
         NEW con, HookFails(u, kind, con)
  PROVE  TypeOK'
<1>1. notices' \in [Units -> SUBSET Kinds]
  BY RemainingType DEF Begins, TypeOK
<1>2. console' \in [Units -> Pods]
  BY DEF HookFails, Spoilt, TypeOK, Pods, Services
<1> QED
  BY <1>1, <1>2 DEF HookFails, TypeOK, Pods, Services, data, own

\* The state is well typed after every step.
LEMMA TypeKept ==
  ASSUME TypeOK, [Next]_vars
  PROVE  TypeOK'
<1> DEFINE ingresses == [backend: Schemes \cup {None}, members: SUBSET Units,
                         stale: SUBSET Units, url: Urls \cup {None}]
           clients == [config: HttpsUrls \cup {None}, client: HttpsUrls \cup {None}, secret: BOOLEAN]
<1>k. \A r \in Relations : Broken[r] \in Kinds /\ CreatedKind[r] \in Kinds
  BY KindsAre DEF Relations, Broken, CreatedKind, AllKinds
<1>0. EmptyConsole \in Pods
  BY DEF EmptyConsole, Pods
<1>1. CASE UNCHANGED vars
  BY <1>1 DEF TypeOK, vars, Pods
<1>2. ASSUME NEW u \in Units, NEW kind \in Kinds, Hook(u, kind) PROVE TypeOK'
  BY <1>2, HookType
<1>3. ASSUME NEW u \in Units, NEW kind \in Kinds, HookRaises(u, kind) PROVE TypeOK'
  BY <1>3, RaiseFails, FailureType DEF HookRaises
<1>4. ASSUME NEW u \in Units, NEW v \in Units, NEW kind \in Kinds, HookDeposed(u, v, kind)
      PROVE  TypeOK'
  BY <1>4, DeposedFails, FailureType DEF HookDeposed
<1>5. ASSUME NEW v \in Units, Elect(v) PROVE TypeOK'
  <2>1. notices' \in [Units -> SUBSET Kinds]
    BY <1>5, NotifyType, KindsAre DEF Elect, AllKinds
  <2> QED
    BY <1>5, <2>1 DEF Elect, LeaseMoves, TypeOK, data, own
<1>6. ASSUME NEW u \in Units, NEW c \in Containers, ContainerRestart(u, c) PROVE TypeOK'
  BY <1>6, <1>0 DEF ContainerRestart, TypeOK, data, own, juju, Pods, Services
<1>7. ASSUME NEW u \in Units, NEW c \in Containers, PebbleUp(u, c) PROVE TypeOK'
  <2>1. notices' \in [Units -> SUBSET Kinds]
    BY <1>7, NotifyType, KindsAre DEF PebbleUp, AllKinds
  <2> QED
    BY <1>7, <2>1 DEF PebbleUp, TypeOK, data, own
<1>8. ASSUME NEW u \in Units, PodMoves(u) PROVE TypeOK'
  <2>1. ingress' \in ingresses
    BY <1>8 DEF PodMoves, TypeOK
  <2>2. console' \in [Units -> Pods]
    BY <1>8, <1>0 DEF PodMoves, TypeOK, Pods, Services
  <2> QED
    BY <1>8, <2>1, <2>2 DEF PodMoves, TypeOK, juju, Pods, Services
<1>9. CASE CreatePeers
  BY <1>9 DEF CreatePeers, TypeOK, data, own
<1>10. ASSUME NEW r \in Relations, AddRelation(r) PROVE TypeOK'
  <2>1. notices' \in [Units -> SUBSET Kinds]
    BY <1>10, <1>k, NotifyType DEF AddRelation
  <2>2. ingress' \in ingresses /\ oauth' \in clients
    BY <1>10 DEF AddRelation, NewIngress, NewOAuth, TypeOK
  <2> QED
    BY <1>10, <2>1, <2>2 DEF AddRelation, TypeOK, own
<1>11. ASSUME NEW r \in Relations, RemoveRelation(r) PROVE TypeOK'
  <2>1. notices' \in [Units -> SUBSET Kinds]
    BY <1>11, <1>k, NotifyType DEF RemoveRelation
  <2> QED
    BY <1>11, <2>1 DEF RemoveRelation, TypeOK, data, own
<1>12. ASSUME NEW u \in Units, IssueCertificate(u) PROVE TypeOK'
  <2>1. notices' \in [Units -> SUBSET Kinds]
    BY <1>12, NotifyType, KindsAre DEF IssueCertificate, AllKinds
  <2>2. cert' \in [Units -> Certs \cup {None}]
    BY <1>12 DEF IssueCertificate, TypeOK
  <2> QED
    BY <1>12, <2>1, <2>2 DEF IssueCertificate, TypeOK, own
<1>13. CASE PublishUrl \/ WipeUrl
  <2>1. notices' \in [Units -> SUBSET Kinds]
    BY <1>13, NotifyType, KindsAre DEF PublishUrl, WipeUrl, AllKinds
  <2>2. ingress' \in ingresses
    BY <1>13 DEF PublishUrl, WipeUrl, TypeOK
  <2> QED
    BY <1>13, <2>1, <2>2 DEF PublishUrl, WipeUrl, TypeOK, own
<1>14. CASE IngressDeparts
  <2>1. notices' \in [Units -> SUBSET Kinds]
    BY <1>14, NotifyType, KindsAre DEF IngressDeparts, AllKinds
  <2> QED
    BY <1>14, <2>1 DEF IngressDeparts, TypeOK, data, own
<1>15. CASE RegisterClient
  <2>1. notices' \in [Units -> SUBSET Kinds]
    BY <1>15, NotifyType, KindsAre DEF RegisterClient, AllKinds
  <2>2. oauth' \in clients
    BY <1>15 DEF RegisterClient, TypeOK
  <2> QED
    BY <1>15, <2>1, <2>2 DEF RegisterClient, TypeOK, own
<1>16. CASE WithdrawSecret
  <2>1. oauth' \in clients
    BY <1>16 DEF WithdrawSecret, TypeOK
  <2> QED
    BY <1>16, <2>1 DEF WithdrawSecret, TypeOK, juju, own
<1> QED
  BY <1>1, <1>2, <1>3, <1>4, <1>5, <1>6, <1>7, <1>8, <1>9, <1>10, <1>11, <1>12, <1>13,
     <1>14, <1>15, <1>16 DEF Next

LEMMA TypeInit == ASSUME Init PROVE TypeOK
<1>1. \A r \in Relations : CreatedKind[r] \in Kinds
  BY KindsAre DEF Relations, CreatedKind, AllKinds
<1>2. related \subseteq Relations
  BY ConstantsAssumption DEF Init
<1>3. notices \in [Units -> SUBSET Kinds]
  BY <1>1, <1>2 DEF Init
<1>4. ingress \in [backend: Schemes \cup {None}, members: SUBSET Units,
                   stale: SUBSET Units, url: Urls \cup {None}]
  BY DEF Init, NewIngress
<1>5. oauth \in [config: HttpsUrls \cup {None}, client: HttpsUrls \cup {None}, secret: BOOLEAN]
  BY DEF Init, NewOAuth
<1>6. console \in [Units -> Pods]
  BY DEF Init, EmptyConsole, Pods
<1> QED
  BY <1>2, <1>3, <1>4, <1>5, <1>6, ConstantsAssumption DEF Init, TypeOK, Pods, Services

\* The state of the console, its relations and its container is well typed (TypeOK),
\* for any units, certificates, addresses, changes and faults.
THEOREM ConsoleTyped == Spec => []TypeOK
<1>1. TypeOK /\ [Next]_vars => TypeOK'
  BY TypeKept
<1> QED
  BY <1>1, TypeInit, PTL DEF Spec

-------------------------------------------------------------------------------
(* What a unit still has to handle                                           *)

\* The certificate u should have.
Certificate(u) == IF "tls" \in related THEN cert[u] ELSE None

\* One of these events is still to come, or its hook to be run again.
Owes(u, kinds) == notices[u] \cap kinds # {} \/ failed[u] \in kinds

\* TLSEvents.reconcile, or IngressEvents.reconcile, will run on u.
OwesTls(u)     == Owes(u, TlsKinds) \/ "tls" \in deferred[u]
OwesIngress(u) == Owes(u, IngressKinds) \/ OwesTls(u)

\* Where a relation is, no unit has still to handle its removal.
Ended(u) == \A r \in related : Broken[r] \notin notices[u] /\ failed[u] # Broken[r]

\* A console that runs is in a container that answers and runs with its plan, and with
\* the certificate on its disk unless a hook lost its restart.
InStep(u) ==
  /\ console[u].running # None => peers /\ "console" \in reach[u]
  /\ KeepsEnv(console[u])
  /\ "restart_lost" \notin mishaps => KeepsCert(console[u])

\* Where the port or the assets are not those of the certificate, the unit has still to
\* handle certificates.
PortFollows(u) ==
  "console" \in reach[u] /\ port[u] # None => port[u] = SchemeOf(Certificate(u)) \/ OwesTls(u)
Equipped(u) ==
  console[u].running # None => console[u].assets = Certificate(u) \/ OwesTls(u)

\* Where the ingress does not have the address of the pod, it will be told.
Known(u) ==
  "ingress" \in related /\ "console" \in reach[u]
    => u \in ingress.members \ ingress.stale \/ OwesIngress(u)

\* Where the backend is not the port the leader opened, the leader will publish it, unless
\* the lease passed to a unit that had nothing left to publish it with.
Backed ==
  "ingress" \in related /\ "backend_missed" \notin mishaps /\ "console" \in reach[leader] /\ port[leader] # None
    => ingress.backend = port[leader] \/ OwesIngress(leader)

Fine(u) == Ended(u) /\ InStep(u) /\ PortFollows(u) /\ Equipped(u) /\ Known(u)

\* The hook that comes next.
LEMMA BeginsIs ==
  ASSUME TypeOK, NEW u \in Units, NEW kind \in Kinds, Begins(u, kind)
  PROVE  /\ notices' \in [Units -> SUBSET Kinds] /\ notices'[u] = Remaining(u, kind)
         /\ \A v \in Units : v # u => notices'[v] = notices[v]
         /\ failed[u] \in Kinds => kind = failed[u]
         /\ failed[u] \notin Kinds => kind = "update" \/ kind \in notices[u]
         /\ Ended(u) => \A r \in related : kind # Broken[r]
<1>1. /\ notices' \in [Units -> SUBSET Kinds] /\ notices'[u] = Remaining(u, kind)
      /\ \A v \in Units : v # u => notices'[v] = notices[v]
  BY RemainingType DEF Begins, TypeOK
<1>2. failed[u] \in Kinds => kind = failed[u]
  BY AbsentAssumption DEF Begins
<1>3. failed[u] \notin Kinds => kind = "update" \/ kind \in notices[u]
  BY DEF Begins, Deliverable, TypeOK
<1>4. ASSUME Ended(u), NEW r \in related PROVE kind # Broken[r]
  <2>1. Broken[r] # "update"
    BY DEF Broken, Relations, TypeOK
  <2> QED
    BY <1>2, <1>3, <1>4, <2>1 DEF Ended
<1> QED
  BY <1>1, <1>2, <1>3, <1>4

\* A notice stays until its hook, or that of the end of its relation.
LEMMA RemainingIs ==
  ASSUME NEW u \in Units, NEW kind, NEW x \in notices[u], x # kind,
         \A r \in Relations : kind = Broken[r] => x \notin KindsOf[r]
  PROVE  x \in Remaining(u, kind)
  BY DEF Remaining

\* What is owed stays owed through a hook of another kind, but for what the end of a
\* relation takes with it.
LEMMA OwesStays ==
  ASSUME TypeOK, NEW u \in Units, NEW kind \in Kinds, Begins(u, kind),
         NEW kinds \in SUBSET Kinds, kind \notin kinds, Owes(u, kinds),
         \A r \in Relations : kind = Broken[r] => kinds \cap KindsOf[r] = {}
  PROVE  notices'[u] \cap kinds # {}
<1>1. failed[u] \notin kinds
  BY BeginsIs DEF TypeOK
<1>2. PICK x \in notices[u] : x \in kinds
  BY <1>1 DEF Owes
<1>3. x \in Remaining(u, kind)
  BY <1>2, RemainingIs
<1> QED
  BY <1>2, <1>3, BeginsIs

\* A hook sees the certificate the unit should have, unless the relation was removed and
\* the unit has still to hear of it.
LEMMA SeesCertificate ==
  ASSUME TypeOK, NEW u \in Units, NEW kind \in Kinds, Begins(u, kind), Ended(u)
  PROVE  Sees(u, kind).cert = Certificate(u) \/ "tls_broken" \in notices'[u]
<1>1. Sees(u, kind).cert = ConsoleTls(u, kind) /\ Broken["tls"] = "tls_broken"
  BY DEF Sees, Broken
<1>2. CASE "tls" \in related
  <2>1. kind # "tls_broken"
    BY <1>1, <1>2, BeginsIs
  <2> QED
    BY <1>1, <1>2, <2>1 DEF ConsoleTls, Visible, Certificate
<1>3. CASE "tls" \notin related
  <2>1. CASE "tls_broken" \in notices[u] /\ kind # "tls_broken"
    <3>1. \A r \in Relations : "tls_broken" \notin KindsOf[r]
      BY DEF Relations, KindsOf
    <3>2. "tls_broken" \in Remaining(u, kind)
      BY <2>1, <3>1, RemainingIs
    <3> QED
      BY <3>2, BeginsIs
  <2>2. CASE ~("tls_broken" \in notices[u] /\ kind # "tls_broken")
    BY <1>1, <1>3, <2>2 DEF ConsoleTls, Visible, Certificate
  <2> QED
    BY <2>1, <2>2
<1> QED
  BY <1>2, <1>3

\* A hook sees the relations that are there.
LEMMA SeesRelations ==
  ASSUME TypeOK, NEW u \in Units, NEW kind \in Kinds, Begins(u, kind), Ended(u)
  PROVE  /\ "ingress" \in related => Sees(u, kind).ingress /\ Sees(u, kind).url = ingress.url
         /\ "oauth" \in related => /\ Sees(u, kind).oauth
                                   /\ Sees(u, kind).client = IF OAuthReady THEN oauth.client ELSE None
<1>1. \A r \in related : Visible(u, r) /\ kind # Broken[r]
  BY BeginsIs DEF Visible
<1> QED
  BY <1>1 DEF Sees

\* A hook that fails owes what it owed, and its own event.
LEMMA FailureOwes ==
  ASSUME TypeOK, NEW u \in Units, NEW kind \in Kinds, Begins(u, kind),
         failed' = [failed EXCEPT ![u] = kind], NEW kinds \in SUBSET Kinds,
         Owes(u, kinds) \/ kind \in kinds,
         \A r \in Relations : kind = Broken[r] /\ kind \notin kinds => kinds \cap KindsOf[r] = {}
  PROVE  notices'[u] \cap kinds # {} \/ failed'[u] \in kinds
<1>1. failed'[u] = kind
  BY DEF TypeOK
<1> QED
  BY <1>1, OwesStays

LEMMA KindSets ==
  /\ TlsKinds \in SUBSET Kinds /\ IngressKinds \in SUBSET Kinds
  /\ \A r \in Relations : Broken[r] \notin TlsKinds => TlsKinds \cap KindsOf[r] = {}
  /\ \A r \in Relations : Broken[r] \notin IngressKinds \cup TlsKinds
       => (IngressKinds \cup TlsKinds) \cap KindsOf[r] = {}
<1>1. Relations = {"tls", "ingress", "oauth"}
  BY DEF Relations
<1> QED
  BY <1>1, KindsAre DEF TlsKinds, IngressKinds, AllKinds, Broken, KindsOf

\* What is owed stays owed: where the handler of certificates did not run, or the hook
\* fails.
LEMMA TlsOwed ==
  ASSUME TypeOK, NEW u \in Units, NEW kind \in Kinds, Begins(u, kind), OwesTls(u)
  PROVE  /\ "tls" \notin Runs(u, kind) => notices'[u] \cap TlsKinds # {}
         /\ failed' = [failed EXCEPT ![u] = kind] /\ deferred' = deferred => OwesTls(u)'
<1>0. Observed["tls"] = TlsKinds /\ "tls" \in Handlers
  BY DEF Observed, Handlers
<1>1. ASSUME "tls" \notin Runs(u, kind) PROVE notices'[u] \cap TlsKinds # {}
  BY <1>0, <1>1, KindSets, OwesStays DEF OwesTls, Runs
<1>2. ASSUME failed' = [failed EXCEPT ![u] = kind], deferred' = deferred PROVE OwesTls(u)'
  <2>1. CASE "tls" \in deferred[u]
    BY <1>2, <2>1 DEF OwesTls
  <2>2. CASE Owes(u, TlsKinds)
    <3> DEFINE kinds == TlsKinds
    <3>0. kinds \in SUBSET Kinds /\ Owes(u, kinds)
      BY <2>2, KindSets
    <3>1. \A r \in Relations : kind = Broken[r] /\ kind \notin kinds => kinds \cap KindsOf[r] = {}
      BY KindSets
    <3>2. notices'[u] \cap kinds # {} \/ failed'[u] \in kinds => OwesTls(u)'
      BY DEF OwesTls, Owes
    <3> HIDE DEF kinds
    <3>3. kind \in kinds => failed'[u] \in kinds
      BY <1>2 DEF TypeOK
    <3>4. kind \notin kinds => notices'[u] \cap kinds # {}
      BY <3>0, <3>1, OwesStays
    <3> QED
      BY <3>2, <3>3, <3>4
  <2> QED
    BY <2>1, <2>2 DEF OwesTls
<1> QED
  BY <1>1, <1>2

LEMMA IngressOwed ==
  ASSUME TypeOK, NEW u \in Units, NEW kind \in Kinds, Begins(u, kind), OwesIngress(u)
  PROVE  /\ "tls" \notin Runs(u, kind) /\ kind \notin IngressKinds
              => notices'[u] \cap (IngressKinds \cup TlsKinds) # {}
         /\ failed' = [failed EXCEPT ![u] = kind] /\ deferred' = deferred => OwesIngress(u)'
<1> DEFINE both == IngressKinds \cup TlsKinds
<1>0. Observed["tls"] = TlsKinds /\ "tls" \in Handlers
  BY DEF Observed, Handlers
<1>a. both \in SUBSET Kinds /\ \A r \in Relations : Broken[r] \notin both => both \cap KindsOf[r] = {}
  BY KindSets
<1>b. Owes(u, both) \/ "tls" \in deferred[u]
  BY DEF OwesIngress, OwesTls, Owes
<1>c. notices'[u] \cap both # {} \/ failed'[u] \in both => OwesIngress(u)'
  BY DEF OwesIngress, OwesTls, Owes
<1>1. ASSUME "tls" \notin Runs(u, kind), kind \notin IngressKinds
      PROVE  notices'[u] \cap both # {}
  <2>1. kind \notin both /\ Owes(u, both)
    BY <1>0, <1>1, <1>b DEF Runs
  <2> HIDE DEF both
  <2> QED
    BY <1>a, <2>1, OwesStays
<1>2. ASSUME failed' = [failed EXCEPT ![u] = kind], deferred' = deferred PROVE OwesIngress(u)'
  <2>1. CASE "tls" \in deferred[u]
    BY <1>2, <2>1 DEF OwesIngress, OwesTls
  <2>2. CASE Owes(u, both)
    <3> HIDE DEF both
    <3>1. \A r \in Relations : kind = Broken[r] /\ kind \notin both => both \cap KindsOf[r] = {}
      BY <1>a
    <3>2. notices'[u] \cap both # {} \/ failed'[u] \in both
      BY <1>2, <1>a, <2>2, <3>1, FailureOwes
    <3> QED
      BY <3>2, <1>c
  <2> QED
    BY <1>b, <2>1, <2>2
<1> QED
  BY <1>1, <1>2

\* What a hook does not change.
LEMMA HookFrame ==
  ASSUME TypeOK, NEW u \in Units, NEW kind \in Kinds, Begins(u, kind),
         Hook(u, kind) \/ \E con : HookFails(u, kind, con)
  PROVE  /\ UNCHANGED <<peers, related, reach, cert, ingress.url, oauth.client, oauth.secret>>
         /\ \A v \in Units : v # u =>
              /\ UNCHANGED <<notices[v], failed[v], deferred[v], stored[v], port[v], console[v]>>
              /\ v \in (ingress.members \ ingress.stale)' <=> v \in ingress.members \ ingress.stale
         /\ u \in ingress.members \ ingress.stale => u \in (ingress.members \ ingress.stale)'
         /\ mishaps \subseteq mishaps'
<1>1. \A v \in Units : v # u => notices'[v] = notices[v]
  BY BeginsIs
<1>2. CASE Hook(u, kind)
  <2> DEFINE hk == Course(u, kind)[Len(Turns)].hook
  <2>1. /\ ingress'.url = ingress.url
        /\ ingress'.members = IF hk.member THEN ingress.members \cup {u} ELSE ingress.members
        /\ ingress'.stale = IF hk.member THEN ingress.stale \ {u} ELSE ingress.stale
    BY <1>2 DEF Hook, TypeOK
  <2>2. oauth'.client = oauth.client /\ oauth'.secret = oauth.secret
    BY <1>2 DEF Hook, TypeOK
  <2>3. \A v \in Units : v # u =>
          /\ stored'[v] = stored[v] /\ port'[v] = port[v] /\ console'[v] = console[v]
          /\ failed'[v] = failed[v] /\ deferred'[v] = deferred[v]
    BY <1>2 DEF Hook, TypeOK
  <2>4. mishaps \subseteq mishaps' /\ UNCHANGED <<peers, related, reach, cert>>
    BY <1>2 DEF Hook, Mishaps
  <2> HIDE DEF hk
  <2> QED
    BY <1>1, <2>1, <2>2, <2>3, <2>4
<1>3. ASSUME NEW con, HookFails(u, kind, con) PROVE UNCHANGED <<data, own, peers, related, reach, deferred>>
        /\ mishaps \subseteq mishaps' /\ \A v \in Units : v # u => failed'[v] = failed[v] /\ console'[v] = console[v]
  BY <1>3 DEF HookFails, TypeOK
<1>4. CASE \E con : HookFails(u, kind, con)
  BY <1>1, <1>3, <1>4 DEF data, own
<1> QED
  BY <1>2, <1>4

\* The units whose hook it is not.
LEMMA OthersFine ==
  ASSUME TypeOK, NEW u \in Units, NEW kind \in Kinds, Begins(u, kind),
         Hook(u, kind) \/ \E con : HookFails(u, kind, con),
         NEW v \in Units, v # u, Fine(v)
  PROVE  Fine(v)'
<1>1. /\ UNCHANGED <<peers, related, reach, cert>> /\ mishaps \subseteq mishaps'
      /\ UNCHANGED <<notices[v], failed[v], deferred[v], port[v], console[v]>>
      /\ v \in (ingress.members \ ingress.stale)' <=> v \in ingress.members \ ingress.stale
  BY HookFrame
<1>2. OwesTls(v)' <=> OwesTls(v)
  BY <1>1 DEF OwesTls, Owes
<1>3. OwesIngress(v)' <=> OwesIngress(v)
  BY <1>1, <1>2 DEF OwesIngress, Owes
<1>4. Certificate(v)' = Certificate(v)
  BY <1>1 DEF Certificate
<1>5. Ended(v)' /\ InStep(v)'
  BY <1>1 DEF Fine, Ended, InStep, KeepsEnv, KeepsCert
<1>6. PortFollows(v)' /\ Equipped(v)' /\ Known(v)'
  BY <1>1, <1>2, <1>3, <1>4 DEF Fine, PortFollows, Equipped, Known
<1> QED
  BY <1>5, <1>6 DEF Fine

\* A unit whose hook ended.
LEMMA HookFine ==
  ASSUME TypeOK, NEW u \in Units, NEW kind \in Kinds, Hook(u, kind), Fine(u)
  PROVE  Fine(u)'
<1> DEFINE o == Course(u, kind)[Len(Turns)]
           ran == Runs(u, kind)
           sees == Sees(u, kind)
<1>0. Begins(u, kind)
  BY DEF Hook
<1>1. Stands(u, kind, ran, o)
  BY HookEnds
<1>2. /\ UNCHANGED <<peers, related, reach, cert>> /\ mishaps \subseteq mishaps'
      /\ u \in ingress.members \ ingress.stale => u \in (ingress.members \ ingress.stale)'
  BY <1>0, HookFrame
<1>3. /\ console'[u] = o.console /\ port'[u] = o.hook.port /\ deferred'[u] = o.hook.defers
      /\ failed'[u] = None
      /\ o.hook.member => u \in ingress'.members /\ u \notin ingress'.stale
  BY DEF Hook, TypeOK
<1>4. sees.cert = Certificate(u) \/ "tls_broken" \in notices'[u]
  BY <1>0, SeesCertificate DEF Fine
<1>5. Certificate(u)' = Certificate(u)
  BY <1>2 DEF Certificate
<1>a. ("tls_broken" \in notices'[u] => OwesTls(u)') /\ (OwesTls(u)' => OwesIngress(u)')
  BY DEF OwesTls, OwesIngress, Owes, TlsKinds
<1>b. \A h : UpdatesConsole(u, h) => Able(u, {"console"})
  BY DEF UpdatesConsole, Able, Containers
<1>c. "tls" \in ran /\ ~Able(u, {"console"}) => OwesTls(u)'
  <2>1. "tls" \in ran /\ ~Able(u, {"console"}) => "tls" \in o.hook.defers
    BY <1>1 DEF Stands, DefersItself
  <2> QED
    BY <2>1, <1>3 DEF OwesTls
<1>d. OwesTls(u) /\ "tls" \notin ran => OwesTls(u)'
  BY <1>0, TlsOwed DEF OwesTls, Owes
<1>e. Able(u, {"console"}) <=> peers /\ "console" \in reach[u]
  BY DEF Able
<1> HIDE DEF o, ran, sees
<1>6. Ended(u)'
  <2> SUFFICES ASSUME NEW r \in related PROVE Broken[r] \notin notices'[u] /\ failed'[u] # Broken[r]
    BY <1>2 DEF Ended
  <2>1. Broken[r] \notin notices[u]
    BY DEF Fine, Ended
  <2>2. notices'[u] \subseteq notices[u]
    BY <1>0, BeginsIs, RemainingType
  <2>3. Broken[r] # None
    BY KindsAre, AbsentAssumption DEF TypeOK, Relations, Broken, AllKinds
  <2> QED
    BY <1>3, <2>1, <2>2, <2>3
<1>7. InStep(u)'
  <2>1. console'[u].running # None => peers /\ "console" \in reach[u]
    BY <1>1, <1>3, <1>b, <1>e DEF Stands, Fine, InStep, sees
  <2> QED
    BY <1>1, <1>2, <1>3, <2>1 DEF Stands, Fine, InStep, sees
<1>8. PortFollows(u)'
  <2>1. CASE "tls" \in ran /\ Able(u, {"console"})
    BY <1>1, <1>3, <1>4, <1>5, <1>a, <2>1 DEF Stands, PortFollows, sees
  <2>2. CASE "tls" \in ran /\ ~Able(u, {"console"})
    BY <1>c, <2>2 DEF PortFollows
  <2>3. CASE "tls" \notin ran
    BY <1>1, <1>2, <1>3, <1>5, <1>d, <2>3 DEF Stands, Fine, PortFollows
  <2> QED
    BY <2>1, <2>2, <2>3
<1>9. Equipped(u)'
  <2>1. CASE \E h \in ran : UpdatesConsole(u, h)
    BY <1>1, <1>3, <1>4, <1>5, <1>a, <2>1 DEF Stands, Equipped, sees
  <2>2. CASE ~\E h \in ran : UpdatesConsole(u, h)
    <3>1. "tls" \in ran => ~Able(u, {"console"})
      BY <2>2 DEF UpdatesConsole
    <3> QED
      BY <1>1, <1>3, <1>5, <1>c, <1>d, <2>2, <3>1 DEF Stands, Fine, Equipped
  <2> QED
    BY <2>1, <2>2
<1>10. Known(u)'
  <2> SUFFICES ASSUME "ingress" \in related, "console" \in reach[u]
               PROVE  u \in (ingress.members \ ingress.stale)' \/ OwesIngress(u)'
    BY <1>2 DEF Known
  <2>1. CASE \E h \in ran : Provides(u, h)
    <3>1. sees.ingress
      BY <1>0, SeesRelations DEF sees, Fine
    <3> QED
      BY <1>1, <1>3, <2>1, <3>1 DEF Stands, sees
  <2>2. CASE ~\E h \in ran : Provides(u, h)
    <3>1. "tls" \in ran => ~Able(u, {"console"})
      BY <2>2 DEF Provides
    <3>2. kind \notin IngressKinds
      BY <2>2 DEF Provides, ran, Runs, Handlers, Observed
    <3>3. u \in ingress.members \ ingress.stale \/ OwesIngress(u)
      BY DEF Fine, Known
    <3>4. CASE "tls" \in ran
      BY <1>a, <1>c, <3>1, <3>4
    <3>5. CASE "tls" \notin ran
      <4>1. OwesIngress(u) => notices'[u] \cap (IngressKinds \cup TlsKinds) # {}
        BY <1>0, <3>2, <3>5, IngressOwed DEF ran
      <4>2. notices'[u] \cap (IngressKinds \cup TlsKinds) # {} => OwesIngress(u)'
        BY DEF OwesIngress, OwesTls, Owes
      <4> QED
        BY <1>2, <3>3, <4>1, <4>2
    <3> QED
      BY <3>4, <3>5
  <2> QED
    BY <2>1, <2>2
<1> QED
  BY <1>6, <1>7, <1>8, <1>9, <1>10 DEF Fine

\* A unit whose hook failed.
LEMMA FailureFine ==
  ASSUME TypeOK, NEW u \in Units, NEW kind \in Kinds, Begins(u, kind),
         NEW con, HookFails(u, kind, con), Fine(u)
  PROVE  Fine(u)'
<1>1. /\ console'[u] = con /\ failed'[u] = kind /\ failed' = [failed EXCEPT ![u] = kind]
      /\ UNCHANGED <<peers, related, deferred, reach, cert, port, ingress>>
      /\ mishaps \subseteq mishaps'
  BY DEF HookFails, TypeOK, data, own
<1>2. Certificate(u)' = Certificate(u)
  BY <1>1 DEF Certificate
<1>3. Sees(u, kind).cert = Certificate(u) \/ "tls_broken" \in notices'[u]
  BY SeesCertificate DEF Fine
<1>a. "tls_broken" \in notices'[u] => OwesTls(u)'
  BY DEF OwesTls, Owes, TlsKinds
<1>b. OwesTls(u) => OwesTls(u)'
  BY <1>1, TlsOwed
<1>c. OwesIngress(u) => OwesIngress(u)'
  BY <1>1, IngressOwed
<1>4. Ended(u)'
  <2>1. notices'[u] \subseteq notices[u] /\ \A r \in related : kind # Broken[r]
    BY BeginsIs, RemainingType DEF Fine
  <2> QED
    BY <1>1, <2>1 DEF Fine, Ended
<1>5. InStep(u)'
  <2>1. con.running # None => peers /\ "console" \in reach[u]
    BY DEF HookFails, Spoilt, Able, Fine, InStep
  <2>2. KeepsEnv(con) /\ ("restart_lost" \notin mishaps' => KeepsCert(con))
    BY DEF HookFails, Spoilt, Fine, InStep
  <2> QED
    BY <1>1, <2>1, <2>2 DEF InStep
<1>6. PortFollows(u)'
  BY <1>1, <1>2, <1>b DEF Fine, PortFollows
<1>7. Equipped(u)'
  <2>1. con.assets \in {console[u].assets, Sees(u, kind).cert}
    BY DEF HookFails, Spoilt
  <2>2. CASE con.assets = Sees(u, kind).cert
    BY <1>1, <1>2, <1>3, <1>a, <2>2 DEF Equipped
  <2>3. CASE con.assets = console[u].assets /\ console[u].running # None
    BY <1>1, <1>2, <1>b, <2>3 DEF Equipped, Fine
  <2>4. CASE con.running = None
    BY <1>1, <2>4 DEF Equipped
  <2>5. con.running # None => console[u].running # None \/ con.assets = Sees(u, kind).cert
    BY DEF HookFails, Spoilt
  <2> QED
    BY <2>1, <2>2, <2>3, <2>4, <2>5
<1>8. Known(u)'
  BY <1>1, <1>c DEF Fine, Known
<1> QED
  BY <1>4, <1>5, <1>6, <1>7, <1>8 DEF Fine

\* Juju adds an event to the notices of some units.
LEMMA NotifyIs ==
  ASSUME NEW us, NEW kind, Notify(us, kind), NEW v \in Units
  PROVE  notices'[v] = notices[v] \cup (IF v \in us THEN {kind} ELSE {})
  BY DEF Notify

\* What is owed stays owed when events are added.
LEMMA OwedLater ==
  ASSUME NEW v \in Units, notices[v] \subseteq notices'[v], failed'[v] = failed[v],
         deferred'[v] = deferred[v]
  PROVE  (OwesTls(v) => OwesTls(v)') /\ (OwesIngress(v) => OwesIngress(v)')
  BY DEF OwesTls, OwesIngress, Owes

\* No event that is added ends a relation, but for those of RemoveRelation.
LEMMA NotBroken ==
  ASSUME NEW r \in Relations
  PROVE  /\ Broken[r] \notin {"leader_elected", "console_ready", "polaris_ready", "certificate",
                              "ingress_created", "ingress_changed", "ingress_departed", "oauth_changed"}
         /\ \A q \in Relations : CreatedKind[q] # Broken[r]
         /\ \A q \in Relations : Broken[q] = Broken[r] => q = r
  BY DEF Relations, Broken, CreatedKind

\* Steps that tell units of something and change neither what they have nor what the
\* properties of one unit are about.
LEMMA ToldFine ==
  ASSUME TypeOK, NEW v \in Units, Fine(v),
         UNCHANGED <<related, failed, deferred, cert, port, console, reach,
                     ingress.members, ingress.stale>>,
         peers => peers', mishaps \subseteq mishaps',
         NEW us, NEW kind, Notify(us, kind), \A r \in Relations : kind # Broken[r]
  PROVE  Fine(v)'
<1>1. notices'[v] = notices[v] \cup (IF v \in us THEN {kind} ELSE {})
  BY NotifyIs
<1>2. (OwesTls(v) => OwesTls(v)') /\ (OwesIngress(v) => OwesIngress(v)')
  BY <1>1, OwedLater
<1>3. Certificate(v)' = Certificate(v)
  BY DEF Certificate
<1>4. Ended(v)'
  BY <1>1 DEF Fine, Ended, TypeOK
<1>5. InStep(v)'
  BY DEF Fine, InStep, KeepsEnv, KeepsCert
<1>6. PortFollows(v)' /\ Equipped(v)' /\ Known(v)'
  BY <1>2, <1>3 DEF Fine, PortFollows, Equipped, Known
<1> QED
  BY <1>4, <1>5, <1>6 DEF Fine

\* Steps of the environment keep what holds of each unit.
LEMMA EnvironmentFine ==
  ASSUME TypeOK, NEW v \in Units, Fine(v),
         \/ \E u \in Units :
              \/ Elect(u) \/ IssueCertificate(u) \/ PodMoves(u)
              \/ \E c \in Containers : ContainerRestart(u, c) \/ PebbleUp(u, c)
         \/ \E r \in Relations : AddRelation(r) \/ RemoveRelation(r)
         \/ CreatePeers \/ PublishUrl \/ WipeUrl \/ IngressDeparts \/ RegisterClient
         \/ WithdrawSecret
  PROVE  Fine(v)'
<1>b. \A r \in Relations : {"leader_elected", "console_ready", "polaris_ready", "certificate",
        "ingress_created", "ingress_changed", "ingress_departed", "oauth_changed"} \cap {Broken[r]} = {}
  BY NotBroken
<1>k. KeepsEnv(EmptyConsole) /\ KeepsCert(EmptyConsole) /\ EmptyConsole.running = None
  BY DEF KeepsEnv, KeepsCert, EmptyConsole
<1>1. ASSUME NEW u \in Units, Elect(u) PROVE Fine(v)'
  <2>1. Notify({u}, "leader_elected") /\ \A r \in Relations : "leader_elected" # Broken[r]
    BY <1>1, <1>b DEF Elect
  <2>2. UNCHANGED <<related, failed, deferred, cert, port, console, reach, peers, ingress>>
        /\ mishaps \subseteq mishaps'
    BY <1>1 DEF Elect, LeaseMoves, data, own
  <2> QED
    BY <2>1, <2>2, ToldFine
<1>2. ASSUME NEW u \in Units, IssueCertificate(u) PROVE Fine(v)'
  <2>1. notices'[v] = notices[v] \cup (IF v = u THEN {"certificate"} ELSE {})
    BY <1>2, NotifyIs DEF IssueCertificate
  <2>2. /\ UNCHANGED <<related, failed, deferred, port, console, reach, peers, ingress, mishaps>>
        /\ v # u => cert'[v] = cert[v]
    BY <1>2 DEF IssueCertificate, own, TypeOK
  <2>3. (OwesTls(v) => OwesTls(v)') /\ (OwesIngress(v) => OwesIngress(v)')
    BY <2>1, <2>2, OwedLater
  <2>4. v = u => OwesTls(v)'
    BY <2>1 DEF OwesTls, Owes, TlsKinds
  <2>5. v # u => Certificate(v)' = Certificate(v)
    BY <2>2 DEF Certificate
  <2>6. Ended(v)'
    BY <2>1, <2>2, NotBroken DEF Fine, Ended, TypeOK
  <2>7. InStep(v)'
    BY <2>2 DEF Fine, InStep, KeepsEnv, KeepsCert
  <2>8. PortFollows(v)' /\ Equipped(v)' /\ Known(v)'
    BY <2>2, <2>3, <2>4, <2>5 DEF Fine, PortFollows, Equipped, Known
  <2> QED
    BY <2>6, <2>7, <2>8 DEF Fine
<1>3. ASSUME NEW u \in Units, PodMoves(u) PROVE Fine(v)'
  <2>1. UNCHANGED <<related, failed, port, peers, mishaps, notices>>
    BY <1>3 DEF PodMoves, juju
  <2>2. CASE v = u
    <3>1. reach'[v] = {} /\ console'[v] = EmptyConsole
      BY <1>3, <2>2 DEF PodMoves, TypeOK
    <3> QED
      BY <2>1, <3>1, <1>k DEF Fine, Ended, InStep, PortFollows, Equipped, Known
  <2>3. CASE v # u
    <3>1. /\ UNCHANGED <<cert[v], deferred[v], reach[v], console[v]>>
          /\ v \in ingress'.members \ ingress'.stale <=> v \in ingress.members \ ingress.stale
      BY <1>3, <2>3 DEF PodMoves, TypeOK
    <3>2. (OwesTls(v) => OwesTls(v)') /\ (OwesIngress(v) => OwesIngress(v)')
      BY <2>1, <3>1, OwedLater
    <3>3. Certificate(v)' = Certificate(v)
      BY <2>1, <3>1 DEF Certificate
    <3>4. Ended(v)' /\ InStep(v)'
      BY <2>1, <3>1 DEF Fine, Ended, InStep, KeepsEnv, KeepsCert
    <3>5. PortFollows(v)' /\ Equipped(v)' /\ Known(v)'
      BY <2>1, <3>1, <3>2, <3>3 DEF Fine, PortFollows, Equipped, Known
    <3> QED
      BY <3>4, <3>5 DEF Fine
  <2> QED
    BY <2>2, <2>3
<1>4. ASSUME NEW u \in Units, NEW c \in Containers, ContainerRestart(u, c) PROVE Fine(v)'
  <2>1. UNCHANGED <<related, failed, deferred, cert, port, peers, mishaps, notices, ingress>>
    BY <1>4 DEF ContainerRestart, juju, data, own
  <2>2. /\ reach'[v] \subseteq reach[v]
        /\ \/ console'[v] = EmptyConsole
           \/ console'[v] = console[v] /\ ("console" \in reach[v] => "console" \in reach'[v])
    BY <1>4 DEF ContainerRestart, TypeOK, Containers
  <2>3. (OwesTls(v) => OwesTls(v)') /\ (OwesIngress(v) => OwesIngress(v)') /\ Certificate(v)' = Certificate(v)
    BY <2>1, OwedLater DEF Certificate
  <2>4. Ended(v)' /\ InStep(v)'
    BY <2>1, <2>2, <1>k DEF Fine, Ended, InStep, KeepsEnv, KeepsCert
  <2>5. PortFollows(v)' /\ Equipped(v)' /\ Known(v)'
    BY <2>1, <2>2, <2>3, <1>k DEF Fine, PortFollows, Equipped, Known
  <2> QED
    BY <2>4, <2>5 DEF Fine
<1>5. ASSUME NEW u \in Units, NEW c \in Containers, PebbleUp(u, c) PROVE Fine(v)'
  <2> DEFINE kind == IF c = "console" THEN "console_ready" ELSE "polaris_ready"
  <2>1. notices'[v] = notices[v] \cup (IF v = u THEN {kind} ELSE {})
    BY <1>5, NotifyIs DEF PebbleUp
  <2>2. UNCHANGED <<related, failed, deferred, cert, port, console, peers, mishaps, ingress>>
    BY <1>5 DEF PebbleUp, data, own
  <2>3. /\ reach[v] \subseteq reach'[v]
        /\ "console" \in reach'[v] /\ "console" \notin reach[v] => v = u /\ c = "console"
    BY <1>5 DEF PebbleUp, TypeOK
  <2>4. (OwesTls(v) => OwesTls(v)') /\ (OwesIngress(v) => OwesIngress(v)') /\ Certificate(v)' = Certificate(v)
    BY <2>1, <2>2, OwedLater DEF Certificate
  <2>5. v = u /\ c = "console" => OwesTls(v)' /\ OwesIngress(v)'
    BY <2>1 DEF OwesTls, OwesIngress, Owes, TlsKinds
  <2>6. Ended(v)'
    BY <2>1, <2>2, NotBroken DEF Fine, Ended, TypeOK
  <2>7. InStep(v)'
    BY <2>2, <2>3 DEF Fine, InStep, KeepsEnv, KeepsCert
  <2>8. PortFollows(v)' /\ Equipped(v)' /\ Known(v)'
    BY <2>2, <2>3, <2>4, <2>5 DEF Fine, PortFollows, Equipped, Known
  <2> QED
    BY <2>6, <2>7, <2>8 DEF Fine
<1>6. ASSUME NEW r \in Relations, AddRelation(r) PROVE Fine(v)'
  <2>1. notices'[v] = notices[v] \cup {CreatedKind[r]}
    BY <1>6, NotifyIs DEF AddRelation
  <2>2. UNCHANGED <<failed, deferred, port, console, peers, mishaps, reach>> /\ related' = related \cup {r}
    BY <1>6 DEF AddRelation, own
  <2>3. r \notin related /\ Broken[r] \notin notices[v] /\ failed[v] # Broken[r]
    BY <1>6 DEF AddRelation, Detached, Visible
  <2>4. (OwesTls(v) => OwesTls(v)') /\ (OwesIngress(v) => OwesIngress(v)')
    BY <2>1, <2>2, OwedLater
  <2>5. r = "tls" => OwesTls(v)'
    BY <2>1 DEF OwesTls, Owes, TlsKinds, CreatedKind
  <2>6. r = "ingress" => OwesIngress(v)'
    BY <2>1 DEF OwesIngress, Owes, IngressKinds, CreatedKind
  <2>7. r # "tls" => Certificate(v)' = Certificate(v)
    BY <1>6, <2>2 DEF AddRelation, Certificate
  <2>8. Ended(v)'
    BY <2>1, <2>2, <2>3, NotBroken DEF Fine, Ended, TypeOK
  <2>9. InStep(v)'
    BY <2>2 DEF Fine, InStep, KeepsEnv, KeepsCert
  <2>10. PortFollows(v)' /\ Equipped(v)'
    BY <2>2, <2>4, <2>5, <2>7 DEF Fine, PortFollows, Equipped
  <2>11. Known(v)'
    <3>1. r # "ingress" => ingress' = ingress
      BY <1>6 DEF AddRelation
    <3> QED
      BY <2>2, <2>4, <2>6, <3>1 DEF Fine, Known
  <2> QED
    BY <2>8, <2>9, <2>10, <2>11 DEF Fine
<1>7. ASSUME NEW r \in Relations, RemoveRelation(r) PROVE Fine(v)'
  <2>1. notices'[v] = notices[v] \cup {Broken[r]}
    BY <1>7, NotifyIs DEF RemoveRelation
  <2>2. /\ UNCHANGED <<failed, deferred, cert, port, console, peers, mishaps, reach, ingress>>
        /\ related' = related \ {r}
    BY <1>7 DEF RemoveRelation, data, own
  <2>3. (OwesTls(v) => OwesTls(v)') /\ (OwesIngress(v) => OwesIngress(v)')
    BY <2>1, <2>2, OwedLater
  <2>4. r = "tls" => OwesTls(v)'
    BY <2>1 DEF OwesTls, Owes, TlsKinds, Broken
  <2>5. r # "tls" => Certificate(v)' = Certificate(v)
    BY <2>2 DEF Certificate
  <2>6. Ended(v)'
    BY <2>1, <2>2, NotBroken DEF Fine, Ended, TypeOK
  <2>7. InStep(v)'
    BY <2>2 DEF Fine, InStep, KeepsEnv, KeepsCert
  <2>8. PortFollows(v)' /\ Equipped(v)' /\ Known(v)'
    BY <2>2, <2>3, <2>4, <2>5 DEF Fine, PortFollows, Equipped, Known
  <2> QED
    BY <2>6, <2>7, <2>8 DEF Fine
<1>8. CASE CreatePeers
  <2>1. UNCHANGED <<related, failed, deferred, cert, port, console, mishaps, notices, reach, ingress>> /\ peers'
    BY <1>8 DEF CreatePeers, data, own
  <2>2. Ended(v)' /\ InStep(v)'
    BY <2>1 DEF Fine, Ended, InStep, KeepsEnv, KeepsCert
  <2>3. PortFollows(v)' /\ Equipped(v)' /\ Known(v)'
    BY <2>1 DEF Fine, PortFollows, Equipped, Known, OwesTls, OwesIngress, Owes, Certificate
  <2> QED
    BY <2>2, <2>3 DEF Fine
<1>9. CASE PublishUrl \/ WipeUrl
  <2>1. Notify(Units, "ingress_changed") /\ \A r \in Relations : "ingress_changed" # Broken[r]
    BY <1>9, <1>b DEF PublishUrl, WipeUrl
  <2>2. UNCHANGED <<related, failed, deferred, cert, port, console, reach, peers, mishaps>>
    BY <1>9 DEF PublishUrl, WipeUrl, own
  <2>3. UNCHANGED <<ingress.members, ingress.stale>>
    BY <1>9 DEF PublishUrl, WipeUrl, TypeOK
  <2> QED
    BY <2>1, <2>2, <2>3, ToldFine
<1>10. CASE IngressDeparts
  <2>1. Notify(Units, "ingress_departed") /\ \A r \in Relations : "ingress_departed" # Broken[r]
    BY <1>10, <1>b DEF IngressDeparts
  <2>2. UNCHANGED <<related, failed, deferred, cert, port, console, reach, peers, mishaps, ingress>>
    BY <1>10 DEF IngressDeparts, data, own
  <2> QED
    BY <2>1, <2>2, ToldFine
<1>11. CASE RegisterClient
  <2>1. Notify(Units, "oauth_changed") /\ \A r \in Relations : "oauth_changed" # Broken[r]
    BY <1>11, <1>b DEF RegisterClient
  <2>2. UNCHANGED <<related, failed, deferred, cert, port, console, reach, peers, mishaps, ingress>>
    BY <1>11 DEF RegisterClient, own
  <2> QED
    BY <2>1, <2>2, ToldFine
<1>12. CASE WithdrawSecret
  <2>1. UNCHANGED <<related, failed, deferred, cert, port, console, mishaps, notices, reach, ingress, peers>>
    BY <1>12 DEF WithdrawSecret, juju, own
  <2>2. Ended(v)' /\ InStep(v)'
    BY <2>1 DEF Fine, Ended, InStep, KeepsEnv, KeepsCert
  <2>3. PortFollows(v)' /\ Equipped(v)' /\ Known(v)'
    BY <2>1 DEF Fine, PortFollows, Equipped, Known, OwesTls, OwesIngress, Owes, Certificate
  <2> QED
    BY <2>2, <2>3 DEF Fine
<1> QED
  BY <1>1, <1>2, <1>3, <1>4, <1>5, <1>6, <1>7, <1>8, <1>9, <1>10, <1>11, <1>12

\* The backend, through a hook that ends.
LEMMA HookBacked ==
  ASSUME TypeOK, NEW u \in Units, NEW kind \in Kinds, Hook(u, kind), Fine(u), Backed
  PROVE  Backed'
<1> DEFINE o == Course(u, kind)[Len(Turns)]
           ran == Runs(u, kind)
           sees == Sees(u, kind)
<1> SUFFICES ASSUME "ingress" \in related', "backend_missed" \notin mishaps',
                    "console" \in reach'[leader'], port'[leader'] # None
             PROVE  ingress'.backend = port'[leader'] \/ OwesIngress(leader)'
  BY DEF Backed
<1>0. Begins(u, kind) /\ leader' = leader
  BY DEF Hook
<1>1. Stands(u, kind, ran, o)
  BY HookEnds
<1>2. UNCHANGED <<peers, related, reach, cert>> /\ mishaps \subseteq mishaps'
  BY <1>0, HookFrame
<1>3. ingress'.backend = IF o.hook.scheme # None THEN o.hook.scheme ELSE ingress.backend
  BY DEF Hook, TypeOK
<1>4. leader \in Units /\ (port[leader] # None => ingress.backend = port[leader] \/ OwesIngress(leader))
  BY <1>0, <1>2 DEF Backed, TypeOK
<1>5. CASE leader # u
  <2>1. o.hook.scheme = None
    BY <1>1, <1>5 DEF Stands
  <2>2. UNCHANGED <<notices[leader], failed[leader], deferred[leader], port[leader]>>
    BY <1>0, <1>4, <1>5, HookFrame
  <2> HIDE DEF o
  <2> QED
    BY <1>0, <1>3, <1>4, <2>1, <2>2 DEF OwesIngress, OwesTls, Owes
<1>6. CASE leader = u
  <2>1. port'[u] = o.hook.port /\ deferred'[u] = o.hook.defers
    BY DEF Hook, TypeOK
  <2>2. sees.ingress
    BY <1>0, <1>2, SeesRelations DEF Fine
  <2>3. "tls" \in ran /\ ~Able(u, {"console"}) => OwesTls(u)'
    <3>1. "tls" \in ran /\ ~Able(u, {"console"}) => "tls" \in o.hook.defers
      BY <1>1 DEF Stands, DefersItself
    <3> QED
      BY <2>1, <3>1 DEF OwesTls
  <2>4. OwesTls(u) /\ "tls" \notin ran => OwesTls(u)'
    BY <1>0, TlsOwed DEF OwesTls, Owes
  <2>5. sees.cert = Certificate(u) \/ OwesTls(u)'
    BY <1>0, SeesCertificate DEF Fine, OwesTls, Owes, TlsKinds
  <2>6. OwesTls(u)' => OwesIngress(u)'
    BY DEF OwesIngress
  <2>7. SchemeOf(sees.cert) # None
    BY ConstantsAssumption DEF SchemeOf, Schemes
  <2> HIDE DEF o, ran, sees
  <2>8. CASE \E h \in ran : Provides(u, h)
    <3>1. ingress'.backend = SchemeOf(sees.cert)
      BY <1>1, <1>3, <1>6, <2>2, <2>7, <2>8 DEF Stands, sees
    <3>2. CASE "tls" \in ran /\ Able(u, {"console"})
      BY <1>0, <1>1, <1>6, <2>1, <3>1, <3>2 DEF Stands, sees
    <3>3. CASE "tls" \in ran /\ ~Able(u, {"console"})
      BY <1>0, <1>6, <2>3, <2>6, <3>3
    <3>4. CASE "tls" \notin ran
      <4>1. port'[u] = port[u]
        BY <1>1, <2>1, <3>4 DEF Stands
      <4>2. port[u] = SchemeOf(Certificate(u)) \/ OwesTls(u)
        BY <1>0, <1>2, <1>6, <4>1 DEF Fine, PortFollows
      <4> QED
        BY <1>0, <1>6, <2>4, <2>5, <2>6, <3>1, <3>4, <4>1, <4>2
    <3> QED
      BY <3>2, <3>3, <3>4
  <2>9. CASE ~\E h \in ran : Provides(u, h)
    <3>1. ingress'.backend = ingress.backend
      BY <1>1, <1>3, <2>9 DEF Stands
    <3>2. "tls" \in ran => ~Able(u, {"console"})
      BY <2>9 DEF Provides
    <3>3. port'[u] = port[u]
      BY <1>1, <2>1, <3>2 DEF Stands
    <3>4. kind \notin IngressKinds
      BY <2>9 DEF Provides, ran, Runs, Handlers, Observed
    <3>5. OwesIngress(u) /\ "tls" \notin ran => OwesIngress(u)'
      BY <1>0, <3>4, IngressOwed DEF OwesIngress, OwesTls, Owes, ran
    <3> QED
      BY <1>0, <1>4, <1>6, <2>3, <2>6, <3>1, <3>2, <3>3, <3>5
  <2> QED
    BY <2>8, <2>9
<1> QED
  BY <1>5, <1>6

\* The backend, through a hook that fails.
LEMMA FailureBacked ==
  ASSUME TypeOK, NEW u \in Units, NEW kind \in Kinds, Begins(u, kind),
         NEW con, HookFails(u, kind, con), Backed
  PROVE  Backed'
<1>1. /\ failed' = [failed EXCEPT ![u] = kind] /\ mishaps \subseteq mishaps'
      /\ UNCHANGED <<related, deferred, reach, port, ingress>>
      /\ leader' # leader =>
           leader' # u /\ (BackendMissed(leader') => "backend_missed" \in mishaps')
  BY DEF HookFails, data, own
<1>2. CASE leader' = leader /\ leader = u
  <2>1. OwesIngress(u) => OwesIngress(u)'
    BY <1>1, IngressOwed
  <2> QED
    BY <1>1, <1>2, <2>1 DEF Backed
<1>3. CASE leader' = leader /\ leader # u
  <2>1. notices'[leader] = notices[leader] /\ failed'[leader] = failed[leader]
    BY <1>1, <1>3, BeginsIs DEF TypeOK
  <2>2. OwesIngress(leader) => OwesIngress(leader)'
    BY <1>1, <1>3, <2>1 DEF OwesIngress, OwesTls, Owes
  <2> QED
    BY <1>1, <1>3, <2>2 DEF Backed
<1>4. CASE leader' # leader
  <2>1. leader' \in Units
    BY DEF HookFails
  <2>2. notices'[leader'] = notices[leader'] /\ failed'[leader'] = failed[leader']
    BY <1>1, <1>4, <2>1, BeginsIs DEF TypeOK
  <2>3. "backend_missed" \in mishaps' \/ ~BackendMissed(leader')
    BY <1>1, <1>4
  <2> QED
    BY <1>1, <2>2, <2>3 DEF Backed, BackendMissed, OwesIngress, OwesTls, Owes
<1> QED
  BY <1>2, <1>3, <1>4

\* The backend, through the steps of the environment.
LEMMA EnvironmentBacked ==
  ASSUME TypeOK, Backed,
         \/ \E u \in Units :
              \/ Elect(u) \/ IssueCertificate(u) \/ PodMoves(u)
              \/ \E c \in Containers : ContainerRestart(u, c) \/ PebbleUp(u, c)
         \/ \E r \in Relations : AddRelation(r) \/ RemoveRelation(r)
         \/ CreatePeers \/ PublishUrl \/ WipeUrl \/ IngressDeparts \/ RegisterClient
         \/ WithdrawSecret
  PROVE  Backed'
<1>0. leader \in Units
  BY DEF TypeOK
<1>a. ASSUME leader' = leader, related' \subseteq related, mishaps' = mishaps, port' = port,
             failed' = failed, deferred'[leader] = deferred[leader],
             notices[leader] \subseteq notices'[leader],
             "console" \in reach'[leader] /\ "console" \notin reach[leader] => OwesIngress(leader)',
             ingress'.backend = ingress.backend
      PROVE  Backed'
  <2>1. OwesIngress(leader) => OwesIngress(leader)'
    BY <1>a DEF OwesIngress, OwesTls, Owes
  <2> QED
    BY <1>a, <2>1 DEF Backed
<1>1. ASSUME NEW u \in Units, Elect(u) PROVE Backed'
  <2>1. /\ leader' = u /\ notices[u] \subseteq notices'[u]
        /\ UNCHANGED <<related, failed, deferred, reach, port, ingress>>
    BY <1>1, NotifyIs DEF Elect, LeaseMoves, data, own
  <2>2. "backend_missed" \notin mishaps' => ~BackendMissed(u)
    BY <1>1 DEF Elect, LeaseMoves
  <2>3. ~BackendMissed(u) /\ "ingress" \in related /\ "console" \in reach[u] /\ port[u] # None
          => ingress.backend = port[u] \/ OwesIngress(u)
    BY DEF BackendMissed, OwesIngress, OwesTls, Owes
  <2>4. OwesIngress(u) => OwesIngress(u)'
    BY <2>1 DEF OwesIngress, OwesTls, Owes
  <2> QED
    BY <2>1, <2>2, <2>3, <2>4 DEF Backed
<1>2. ASSUME NEW u \in Units, IssueCertificate(u) PROVE Backed'
  <2>1. notices[leader] \subseteq notices'[leader]
    BY <1>0, <1>2, NotifyIs DEF IssueCertificate
  <2> QED
    BY <1>2, <1>a, <2>1 DEF IssueCertificate, own
<1>3. ASSUME NEW u \in Units, PodMoves(u) PROVE Backed'
  <2>1. UNCHANGED <<leader, related, failed, port, mishaps, notices>> /\ ingress'.backend = ingress.backend
    BY <1>3 DEF PodMoves, juju, TypeOK
  <2>2. CASE leader = u
    <3>1. reach'[leader] = {}
      BY <1>0, <1>3, <2>2 DEF PodMoves, TypeOK
    <3> QED
      BY <2>1, <3>1 DEF Backed
  <2>3. CASE leader # u
    <3>1. reach'[leader] = reach[leader] /\ deferred'[leader] = deferred[leader]
      BY <1>0, <1>3, <2>3 DEF PodMoves, TypeOK
    <3> QED
      BY <1>a, <2>1, <3>1
  <2> QED
    BY <2>2, <2>3
<1>4. ASSUME NEW u \in Units, NEW c \in Containers, ContainerRestart(u, c) PROVE Backed'
  <2>1. reach'[leader] \subseteq reach[leader]
    BY <1>0, <1>4 DEF ContainerRestart, TypeOK
  <2> QED
    BY <1>4, <1>a, <2>1 DEF ContainerRestart, juju, data, own
<1>5. ASSUME NEW u \in Units, NEW c \in Containers, PebbleUp(u, c) PROVE Backed'
  <2>1. notices'[leader] = notices[leader] \cup
          (IF leader \in {u} THEN {IF c = "console" THEN "console_ready" ELSE "polaris_ready"} ELSE {})
    BY <1>0, <1>5, NotifyIs DEF PebbleUp
  <2>2. "console" \in reach'[leader] /\ "console" \notin reach[leader] => leader = u /\ c = "console"
    BY <1>0, <1>5 DEF PebbleUp, TypeOK
  <2>3. leader' = leader
    BY <1>5 DEF PebbleUp
  <2>4. "console" \in reach'[leader] /\ "console" \notin reach[leader] => OwesIngress(leader)'
    BY <2>1, <2>2, <2>3 DEF OwesIngress, OwesTls, Owes, TlsKinds
  <2> QED
    BY <1>5, <1>a, <2>1, <2>4 DEF PebbleUp, data, own
<1>6. ASSUME NEW r \in Relations, AddRelation(r) PROVE Backed'
  <2>1. notices'[leader] = notices[leader] \cup {CreatedKind[r]}
    BY <1>0, <1>6, NotifyIs DEF AddRelation
  <2>2. UNCHANGED <<leader, failed, deferred, port, mishaps, reach>> /\ related' = related \cup {r}
    BY <1>6 DEF AddRelation, own
  <2>3. CASE r = "ingress"
    <3>1. OwesIngress(leader)'
      BY <2>1, <2>2, <2>3 DEF OwesIngress, Owes, IngressKinds, CreatedKind
    <3> QED
      BY <3>1 DEF Backed
  <2>4. CASE r # "ingress"
    <3>1. ingress' = ingress /\ ("ingress" \in related' => "ingress" \in related)
      BY <1>6, <2>2, <2>4 DEF AddRelation
    <3>2. OwesIngress(leader) => OwesIngress(leader)'
      BY <2>1, <2>2 DEF OwesIngress, OwesTls, Owes
    <3> QED
      BY <2>2, <3>1, <3>2 DEF Backed
  <2> QED
    BY <2>3, <2>4
<1>7. ASSUME NEW r \in Relations, RemoveRelation(r) PROVE Backed'
  <2>1. notices[leader] \subseteq notices'[leader]
    BY <1>0, <1>7, NotifyIs DEF RemoveRelation
  <2> QED
    BY <1>7, <1>a, <2>1 DEF RemoveRelation, data, own
<1>8. CASE CreatePeers \/ WithdrawSecret
  BY <1>8, <1>a DEF CreatePeers, WithdrawSecret, juju, data, own
<1>9. CASE PublishUrl \/ WipeUrl \/ IngressDeparts \/ RegisterClient
  <2>1. notices[leader] \subseteq notices'[leader]
    BY <1>0, <1>9, NotifyIs DEF PublishUrl, WipeUrl, IngressDeparts, RegisterClient
  <2>2. ingress'.backend = ingress.backend
    BY <1>9 DEF PublishUrl, WipeUrl, IngressDeparts, RegisterClient, TypeOK, data
  <2> QED
    BY <1>9, <1>a, <2>1, <2>2 DEF PublishUrl, WipeUrl, IngressDeparts, RegisterClient, data, own
<1> QED
  BY <1>1, <1>2, <1>3, <1>4, <1>5, <1>6, <1>7, <1>8, <1>9

-------------------------------------------------------------------------------
(* Port, assets, backend and address                                         *)

ExposureInv == TypeOK /\ (\A u \in Units : Fine(u)) /\ Backed

\* A step is a hook that ends, one that fails, or one of the environment.
LEMMA StepIs ==
  ASSUME TypeOK, Next
  PROVE  \/ \E u \in Units, kind \in Kinds : Hook(u, kind)
         \/ \E u \in Units, kind \in Kinds : Begins(u, kind) /\ \E con : HookFails(u, kind, con)
         \/ \E u \in Units :
              \/ Elect(u) \/ IssueCertificate(u) \/ PodMoves(u)
              \/ \E c \in Containers : ContainerRestart(u, c) \/ PebbleUp(u, c)
         \/ \E r \in Relations : AddRelation(r) \/ RemoveRelation(r)
         \/ CreatePeers \/ PublishUrl \/ WipeUrl \/ IngressDeparts \/ RegisterClient
         \/ WithdrawSecret
<1>1. ASSUME NEW u \in Units, NEW kind \in Kinds, HookRaises(u, kind)
      PROVE  Begins(u, kind) /\ \E con : HookFails(u, kind, con)
  BY <1>1, RaiseFails DEF HookRaises
<1>2. ASSUME NEW u \in Units, NEW v \in Units, NEW kind \in Kinds, HookDeposed(u, v, kind)
      PROVE  Begins(u, kind) /\ \E con : HookFails(u, kind, con)
  BY <1>2, DeposedFails DEF HookDeposed
<1> QED
  BY <1>1, <1>2 DEF Next

LEMMA ExposureInit == ASSUME Init PROVE ExposureInv
<1>1. TypeOK
  BY TypeInit
<1>2. ASSUME NEW u \in Units PROVE Fine(u)
  <2>1. Ended(u)
    <3>1. \A r \in related : r \in Relations /\ failed[u] # Broken[r]
      BY <1>1, KindsAre, AbsentAssumption DEF Init, TypeOK, Relations, Broken, AllKinds
    <3>2. \A r \in related : Broken[r] \notin notices[u]
      BY <3>1, NotBroken DEF Init
    <3> QED
      BY <3>1, <3>2 DEF Ended
  <2>2. InStep(u) /\ PortFollows(u) /\ Equipped(u)
    BY DEF Init, InStep, PortFollows, Equipped, EmptyConsole, KeepsEnv, KeepsCert
  <2>3. Known(u)
    <3>1. "ingress" \in related => "ingress_created" \in notices[u]
      BY DEF Init, CreatedKind
    <3> QED
      BY <3>1 DEF Known, OwesIngress, Owes, IngressKinds
  <2> QED
    BY <2>1, <2>2, <2>3 DEF Fine
<1>3. Backed
  BY <1>1 DEF Init, Backed, TypeOK
<1> QED
  BY <1>1, <1>2, <1>3 DEF ExposureInv

LEMMA ExposureStep == ASSUME ExposureInv, [Next]_vars PROVE ExposureInv'
<1>0. TypeOK /\ TypeOK' /\ (\A u \in Units : Fine(u)) /\ Backed
  BY TypeKept DEF ExposureInv
<1>1. CASE UNCHANGED vars
  <2>1. ASSUME NEW u \in Units PROVE Fine(u)'
    BY <1>0, <1>1 DEF vars, Fine, Ended, InStep, KeepsEnv, KeepsCert, PortFollows, Equipped,
       Known, OwesTls, OwesIngress, Owes, Certificate
  <2>2. Backed'
    BY <1>0, <1>1 DEF vars, Backed, OwesTls, OwesIngress, Owes
  <2> QED
    BY <1>0, <2>1, <2>2 DEF ExposureInv
<1>2. ASSUME NEW u \in Units, NEW kind \in Kinds, Hook(u, kind) PROVE ExposureInv'
  <2>1. Begins(u, kind)
    BY <1>2 DEF Hook
  <2>2. ASSUME NEW v \in Units PROVE Fine(v)'
    BY <1>0, <1>2, <2>1, HookFine, OthersFine
  <2>3. Backed'
    BY <1>0, <1>2, HookBacked
  <2> QED
    BY <1>0, <2>2, <2>3 DEF ExposureInv
<1>3. ASSUME NEW u \in Units, NEW kind \in Kinds, Begins(u, kind), NEW con, HookFails(u, kind, con)
      PROVE  ExposureInv'
  <2>1. ASSUME NEW v \in Units PROVE Fine(v)'
    BY <1>0, <1>3, FailureFine, OthersFine
  <2>2. Backed'
    BY <1>0, <1>3, FailureBacked
  <2> QED
    BY <1>0, <2>1, <2>2 DEF ExposureInv
<1>4. CASE \/ \E u \in Units :
                \/ Elect(u) \/ IssueCertificate(u) \/ PodMoves(u)
                \/ \E c \in Containers : ContainerRestart(u, c) \/ PebbleUp(u, c)
           \/ \E r \in Relations : AddRelation(r) \/ RemoveRelation(r)
           \/ CreatePeers \/ PublishUrl \/ WipeUrl \/ IngressDeparts \/ RegisterClient
           \/ WithdrawSecret
  <2>1. ASSUME NEW v \in Units PROVE Fine(v)'
    BY <1>0, <1>4, EnvironmentFine
  <2>2. Backed'
    BY <1>0, <1>4, EnvironmentBacked
  <2> QED
    BY <1>0, <2>1, <2>2 DEF ExposureInv
<1> QED
  BY <1>0, <1>1, <1>2, <1>3, <1>4, StepIs

LEMMA ExposureHolds == Spec => []ExposureInv
<1>1. ExposureInv /\ [Next]_vars => ExposureInv'
  BY ExposureStep
<1> QED
  BY <1>1, ExposureInit, PTL DEF Spec

\* Nothing is owed by a unit that is quiet.
LEMMA QuietOwes ==
  ASSUME NEW u \in Units, Quiet(u)
  PROVE  ~OwesTls(u) /\ ~OwesIngress(u) /\ \A kinds \in SUBSET Kinds : ~Owes(u, kinds)
<1>1. None \notin TlsKinds /\ None \notin IngressKinds
  BY AbsentAssumption, KindSets
<1> QED
  BY <1>1, AbsentAssumption DEF Quiet, OwesTls, OwesIngress, Owes

\* Between hooks the console runs with the certificate on its disk and the environment
\* of its plan (RunsWhatIsOnDisk), unless the restart was lost to a failing hook: one
\* that fails elsewhere leaves the halves of ConsoleManager.update together, and whoever
\* updates the console next finds what is left to do.
THEOREM ConsoleInStep == Spec => []RunsWhatIsOnDisk
<1>1. ASSUME ExposureInv PROVE RunsWhatIsOnDisk
  <2> SUFFICES ASSUME NEW u \in Units, console[u].running # None, "restart_lost" \notin mishaps
               PROVE  console[u].running = [env |-> console[u].env, cert |-> console[u].assets]
    BY DEF RunsWhatIsOnDisk
  <2>1. console[u].running \in Services
    BY <1>1 DEF ExposureInv, TypeOK, Services
  <2>2. console[u].running.env = console[u].env /\ console[u].running.cert = console[u].assets
    BY <1>1 DEF ExposureInv, Fine, InStep, KeepsEnv, KeepsCert
  <2> QED
    BY <2>1, <2>2 DEF Services
<1> QED
  BY <1>1, ExposureHolds, PTL

\* A unit that has handled everything opened the port of the certificate it was assigned
\* and has it on its disk (PortFollowsCertificate), whatever was deferred, failed and
\* retried: where they differ TLSEvents.reconcile has still to run, and it cannot run
\* without a console to update.
THEOREM PortIsCurrent == Spec => []PortFollowsCertificate
<1>1. ASSUME ExposureInv PROVE PortFollowsCertificate
  <2> SUFFICES ASSUME NEW u \in Units, Quiet(u), port[u] # None, console[u].running # None
               PROVE  port[u] = SchemeOf(Certificate(u)) /\ console[u].assets = Certificate(u)
    BY DEF PortFollowsCertificate, Certificate
  <2> QED
    BY <1>1, QuietOwes DEF ExposureInv, Fine, InStep, PortFollows, Equipped
<1> QED
  BY <1>1, ExposureHolds, PTL

\* A unit that has handled everything and whose console answers gave the ingress the
\* address of the pod it is in (IngressKnowsPods): a pod that moves loses its deferred
\* notices, but its console has still to be announced, and IngressEvents.reconcile is at
\* the end of what that sets off.
THEOREM IngressFollowsPods == Spec => []IngressKnowsPods
<1>1. ASSUME ExposureInv PROVE IngressKnowsPods
  BY <1>1, QuietOwes DEF ExposureInv, Fine, Known, IngressKnowsPods
<1> QED
  BY <1>1, ExposureHolds, PTL

\* Once everything is handled and the units opened one port, it is the backend the
\* ingress was told of (BackendMatchesPorts), as long as the console of the leader answers
\* and however often the lease moved, unless it passed to a unit with another port and
\* nothing left to handle: a backend that is ahead of the port, or behind it, leaves the
\* leader a certificate to handle.
THEOREM BackendFollowsPorts == Spec => []BackendMatchesPorts
<1>1. ASSUME ExposureInv PROVE BackendMatchesPorts
  <2> SUFFICES ASSUME AllQuiet, "ingress" \in related, "console" \in reach[leader],
                      "backend_missed" \notin mishaps, NEW s \in Schemes,
                      \A u \in Units : port[u] = s
               PROVE  ingress.backend = s
    BY DEF BackendMatchesPorts
  <2>1. leader \in Units /\ port[leader] = s /\ s # None
    BY <1>1, ConstantsAssumption DEF ExposureInv, TypeOK
  <2>2. ~OwesIngress(leader)
    BY <2>1, QuietOwes DEF AllQuiet
  <2> QED
    BY <1>1, <2>1, <2>2 DEF ExposureInv, Backed
<1> QED
  BY <1>1, ExposureHolds, PTL

-------------------------------------------------------------------------------
(* The address through the turns of a hook                                   *)

\* The address a hook begins with.
FirstUrl(u, kind) == IF stored[u] # None THEN stored[u] ELSE Sees(u, kind).url

\* A hook that stores no other address than it begins with.
KeepsUrl(u, kind) ==
  /\ "forget_url" \notin Runs(u, kind)
  /\ "set_url" \in Runs(u, kind) => Sees(u, kind).url = None \/ stored[u] \in {None, Sees(u, kind).url}

\* The environment ConsoleManager.update gives the console, where the address is a.
EnvironmentFor(u, kind, a) == IF Sees(u, kind).client # None /\ a # None THEN a ELSE Blank

\* The environment and the client are those of the address a.
Tracks(u, kind, ran, o, a) ==
  /\ (\E h \in ran : UpdatesConsole(u, h)) => o.console.env = EnvironmentFor(u, kind, a)
  /\ o.hook.config \in {None, a}

LEMMA UrlKept ==
  ASSUME TypeOK, NEW u \in Units, NEW kind, KeepsUrl(u, kind), NEW n \in 0..9
  PROVE  /\ Url(Course(u, kind)[n].hook) = FirstUrl(u, kind)
         /\ Environment(Course(u, kind)[n].hook) = EnvironmentFor(u, kind, FirstUrl(u, kind))
<1> DEFINE o == Course(u, kind)[n]
           ran == Ran(u, kind, n)
<1>1. Stands(u, kind, ran, o)
  BY HookStands
<1>2. \A h \in ran : h \in Handlers => h \in Runs(u, kind)
  BY RanIs DEF Runs
<1>3. {"forget_url", "set_url"} \subseteq Handlers
  BY DEF Handlers, Observed
<1> HIDE DEF o, ran
<1>4. Url(o.hook) = FirstUrl(u, kind)
  BY <1>1, <1>2, <1>3 DEF Stands, Url, FirstUrl, KeepsUrl
<1>5. Environment(o.hook) = EnvironmentFor(u, kind, FirstUrl(u, kind))
  BY <1>1, <1>4 DEF Stands, Environment, EnvironmentFor
<1> QED
  BY <1>4, <1>5 DEF o

LEMMA TracksContinues ==
  ASSUME TypeOK, NEW u \in Units, NEW kind, KeepsUrl(u, kind), NEW n \in 1..9,
         Tracks(u, kind, Ran(u, kind, n - 1), Course(u, kind)[n - 1], FirstUrl(u, kind))
  PROVE  Tracks(u, kind, Ran(u, kind, n), Course(u, kind)[n], FirstUrl(u, kind))
<1> DEFINE o == Course(u, kind)[n - 1]
           r == Course(u, kind)[n]
           h == Turns[n]
           was == Ran(u, kind, n - 1)
           ran == Ran(u, kind, n)
           a == FirstUrl(u, kind)
<1>1. r = Turn(u, kind, n, o)
  BY CourseIs
<1>2. ran = was \cup (IF Taken(u, kind, n) THEN {h} ELSE {})
  BY RanIs
<1>3. CASE ~Taken(u, kind, n)
  BY <1>1, <1>2, <1>3 DEF Turn
<1>4. CASE Taken(u, kind, n)
  <2>1. h \in Handlers
    BY TurnsAre DEF Handlers, Observed
  <2>2. o.hook \in Hooks /\ o.console \in Pods
    BY HookStands DEF Stands, Outcomes
  <2>3. Effect(u, h, o.hook, o.console, r)
    BY <1>1, <1>4, <2>1, <2>2, ResultIs DEF Turn
  <2>4. ran = was \cup {h}
    BY <1>2, <1>4
  <2>5. Url(o.hook) = a /\ Environment(o.hook) = EnvironmentFor(u, kind, a)
    BY UrlKept
  <2>6. Tracks(u, kind, was, o, a)
    OBVIOUS
  <2> HIDE DEF o, r, h, was, ran, a
  <2>7. Tracks(u, kind, ran, r, a)
    BY <2>3, <2>4, <2>5, <2>6 DEF Effect, Tracks, Fits
  <2> QED
    BY <2>7 DEF ran, r, a
<1> QED
  BY <1>3, <1>4

\* A hook that keeps the address ends with the environment and the client for it.
LEMMA HookTracks ==
  ASSUME TypeOK, NEW u \in Units, NEW kind, KeepsUrl(u, kind)
  PROVE  Tracks(u, kind, Runs(u, kind), Course(u, kind)[Len(Turns)], FirstUrl(u, kind))
<1> DEFINE good(n) == Tracks(u, kind, Ran(u, kind, n), Course(u, kind)[n], FirstUrl(u, kind))
<1>0. good(0)
  <2>1. Course(u, kind)[0] = Outcome(NewHook(u, kind), console[u])
    BY CourseIs
  <2>2. Ran(u, kind, 0) = {}
    BY RanIs
  <2>3. Course(u, kind)[0].hook.config = None
    BY <2>1 DEF Outcome, NewHook
  <2> QED
    BY <2>2, <2>3 DEF Tracks
<1>a. \A n \in 1..9 : good(n - 1) => good(n)
  BY TracksContinues
<1>b. good(9) => Tracks(u, kind, Runs(u, kind), Course(u, kind)[Len(Turns)], FirstUrl(u, kind))
  <2>1. deferred[u] \subseteq Deferrable
    BY DEF TypeOK, Deferrable
  <2> QED
    BY <2>1, RanIs, TurnsAre
<1> HIDE DEF good
<1>1. good(1)
  BY <1>0, <1>a
<1>2. good(2)
  BY <1>1, <1>a
<1>3. good(3)
  BY <1>2, <1>a
<1>4. good(4)
  BY <1>3, <1>a
<1>5. good(5)
  BY <1>4, <1>a
<1>6. good(6)
  BY <1>5, <1>a
<1>7. good(7)
  BY <1>6, <1>a
<1>8. good(8)
  BY <1>7, <1>a
<1>9. good(9)
  BY <1>8, <1>a
<1> QED
  BY <1>9, <1>b

\* A hook of the ingress ends with IngressEvents.reconcile, and what that makes of the
\* address is not changed any more: where it cannot run to its end the client is dropped.
LEMMA IngressTracks ==
  ASSUME TypeOK, NEW u \in Units, NEW kind \in {"ingress_created", "ingress_changed"}
  PROVE  LET o == Course(u, kind)[Len(Turns)]
         IN  /\ Able(u, Containers) => o.console.env = EnvironmentFor(u, kind, Url(o.hook))
             /\ Url(o.hook) \in HttpsUrls /\ Sees(u, kind).oauth /\ leader = u
                  => IF Able(u, Containers) THEN o.hook.config = Url(o.hook)
                                            ELSE "config_dropped" \in Mishaps(u, kind)
<1> DEFINE o == Course(u, kind)[7]
           r == Course(u, kind)[8]
<1>1. Course(u, kind)[Len(Turns)] = r
  <2>1. ~Taken(u, kind, 9)
    BY TurnsAre DEF Taken, Observed, OAuthKinds
  <2> QED
    BY <2>1, CourseIs, TurnsAre DEF Turn
<1>2. Taken(u, kind, 8) /\ Turns[8] = "ingress" /\ "ingress" \in Handlers
  BY TurnsAre DEF Taken, Observed, IngressKinds, Handlers
<1>3. Stands(u, kind, Ran(u, kind, 7), o)
  BY HookStands
<1>4. Effect(u, "ingress", o.hook, o.console, r)
  <2>1. o.hook \in Hooks /\ o.console \in Pods
    BY <1>3 DEF Stands, Outcomes
  <2>2. r = Result(u, "ingress", o.hook, o.console)
    BY <1>2, CourseIs DEF Turn
  <2> QED
    BY <1>2, <2>1, <2>2, ResultIs
<1>5. o.hook \in Hooks /\ o.hook.sees = Sees(u, kind) /\ (o.hook.config # None => Able(u, Containers))
  BY <1>3 DEF Stands, Outcomes
<1>6. ASSUME Drops(u, "ingress", o.hook) PROVE "config_dropped" \in Mishaps(u, kind)
  <2>1. 8 \in DOMAIN Turns /\ Course(u, kind)[8 - 1].hook = o.hook
    BY TurnsAre
  <2> HIDE DEF o
  <2>2. \E n \in DOMAIN Turns : Taken(u, kind, n) /\ Drops(u, Turns[n], Course(u, kind)[n - 1].hook)
    BY <1>2, <1>6, <2>1
  <2> QED
    BY <2>2 DEF Mishaps
<1> HIDE DEF o, r
<1>7. Url(r.hook) = Url(o.hook)
  BY <1>4, <1>5 DEF Effect, Url
<1>8. Environment(o.hook) = EnvironmentFor(u, kind, Url(r.hook))
  BY <1>5, <1>7 DEF Environment, EnvironmentFor
<1>9. Able(u, Containers) => r.console.env = EnvironmentFor(u, kind, Url(r.hook))
  BY <1>4, <1>8 DEF Effect, UpdatesConsole, Fits
<1>10. ASSUME Url(r.hook) \in HttpsUrls, Sees(u, kind).oauth, leader = u
       PROVE  IF Able(u, Containers) THEN r.hook.config = Url(r.hook)
                                     ELSE "config_dropped" \in Mishaps(u, kind)
  <2>1. CASE Able(u, Containers)
    BY <1>4, <1>5, <1>7, <1>10, <2>1 DEF Effect, Configures
  <2>2. CASE ~Able(u, Containers)
    <3>1. o.hook.config = None /\ Url(o.hook) # None
      BY <1>5, <1>7, <1>10, <2>2, ConstantsAssumption DEF Urls
    <3>2. ClientConfigured(u, o.hook).config = Url(o.hook)
      BY <1>5, <1>7, <1>10 DEF ClientConfigured, Hooks
    <3>3. Drops(u, "ingress", o.hook)
      BY <2>2, <3>1, <3>2 DEF Drops
    <3> QED
      BY <1>6, <2>2, <3>3
  <2> QED
    BY <2>1, <2>2
<1> QED
  BY <1>1, <1>9, <1>10

-------------------------------------------------------------------------------
(* The address a unit has, the client of that address, and the environment     *)

\* The events whose handlers bring the console up to date.
UpdateKinds == Kinds \ {"ingress_departed"}

\* A unit that stored another address than the ingress gives will hear of it, and one
\* that stored an address will hear of the end of the ingress.
Remembers(u) ==
  /\ "ingress" \in related /\ ingress.url # None /\ stored[u] # None
       => stored[u] = ingress.url \/ Owes(u, {"ingress_changed"})
  /\ "ingress" \notin related /\ stored[u] # None => Owes(u, {"ingress_broken"})

\* A client is registered for what was published.
Clients == oauth.client # None => oauth.config # None

\* Where what the leader published is not its address, it will hear of the address.
Registered(u) ==
  /\ u = leader /\ mishaps = {} /\ {"oauth", "ingress"} \subseteq related
  /\ oauth.config # None /\ Address(u) \in HttpsUrls
  => oauth.config = Address(u) \/ Owes(u, {"ingress_changed"})

\* Where the console does not send its users to the address, it will be updated.
Current(u) ==
  /\ console[u].running # None /\ {"oauth", "ingress"} \subseteq related /\ OAuthReady
  /\ Address(u) \in HttpsUrls
  /\ reach[u] = Containers \/ (u = leader /\ mishaps = {})
  => console[u].env = Address(u) \/ Owes(u, UpdateKinds) \/ deferred[u] # {}

Addressed(u) == Remembers(u) /\ Registered(u) /\ Current(u)

LEMMA UpdateKindsAre ==
  /\ UpdateKinds \in SUBSET Kinds
  /\ {"console_ready", "polaris_ready", "ingress_changed", "oauth_changed"} \subseteq UpdateKinds
  /\ {"ingress_changed"} \in SUBSET Kinds /\ {"ingress_broken"} \in SUBSET Kinds
  BY KindsAre DEF UpdateKinds, AllKinds

\* Steps that leave the address and the client alone.
LEMMA RegistrationKept ==
  ASSUME NEW v \in Units, Remembers(v), Registered(v), notices[v] \subseteq notices'[v],
         UNCHANGED <<related, failed[v], stored[v], ingress.url, oauth.config>>,
         mishaps \subseteq mishaps', mishaps' = {} => leader' = leader
  PROVE  Remembers(v)' /\ Registered(v)'
<1>1. Address(v)' = Address(v)
  BY DEF Address
<1>2. \A kinds : Owes(v, kinds) => Owes(v, kinds)'
  BY DEF Owes
<1>3. Remembers(v)'
  BY <1>2 DEF Remembers
<1>4. Registered(v)'
  BY <1>1, <1>2 DEF Registered
<1> QED
  BY <1>3, <1>4

\* Steps that leave the environment and the account of the unit alone.
LEMMA CurrentKept ==
  ASSUME NEW v \in Units, Current(v), notices[v] \subseteq notices'[v],
         UNCHANGED <<related, failed[v], deferred[v], stored[v], ingress.url,
                     oauth.client, oauth.secret>>,
         console'[v] = console[v] \/ console'[v].running = None,
         reach'[v] = Containers => reach[v] = Containers,
         mishaps \subseteq mishaps', mishaps' = {} => leader' = leader
  PROVE  Current(v)'
<1>1. Address(v)' = Address(v) /\ OAuthReady' = OAuthReady
  BY DEF Address, OAuthReady
<1>2. Owes(v, UpdateKinds) => Owes(v, UpdateKinds)'
  BY DEF Owes, UpdateKinds
<1> QED
  BY <1>1, <1>2 DEF Current

\* The units whose hook it is not.
LEMMA OthersAddressed ==
  ASSUME TypeOK, NEW u \in Units, NEW kind \in Kinds, Begins(u, kind),
         Hook(u, kind) \/ \E con : HookFails(u, kind, con),
         NEW v \in Units, v # u, Addressed(v)
  PROVE  Addressed(v)'
<1>1. /\ UNCHANGED <<related, reach, ingress.url, oauth.client, oauth.secret>>
      /\ UNCHANGED <<notices[v], failed[v], deferred[v], stored[v], console[v]>>
      /\ mishaps \subseteq mishaps'
  BY HookFrame
<1>2. mishaps' = {} => leader' = leader
  BY DEF Hook, HookFails
<1>3. Current(v)'
  BY <1>1, <1>2, CurrentKept DEF Addressed
<1>4. Remembers(v)'
  BY <1>1 DEF Addressed, Remembers, Owes
<1>5. leader = v => oauth'.config = oauth.config
  <2>1. CASE Hook(u, kind)
    BY <2>1, HookEnds DEF Hook, Stands
  <2>2. CASE \E con : HookFails(u, kind, con)
    BY <2>2 DEF HookFails, data
  <2> QED
    BY <2>1, <2>2
<1>6. Registered(v)'
  <2> SUFFICES ASSUME v = leader', mishaps' = {} PROVE Registered(v)'
    BY DEF Registered
  <2>1. leader' = leader /\ v = leader /\ oauth'.config = oauth.config
    BY <1>2, <1>5
  <2> QED
    BY <1>1, <2>1, RegistrationKept DEF Addressed
<1> QED
  BY <1>3, <1>4, <1>6 DEF Addressed

\* A unit whose hook failed.
LEMMA FailureAddressed ==
  ASSUME TypeOK, NEW u \in Units, NEW kind \in Kinds, Begins(u, kind),
         NEW con, HookFails(u, kind, con), Fine(u), Addressed(u)
  PROVE  Addressed(u)'
<1>1. /\ console'[u] = con /\ failed'[u] = kind /\ failed' = [failed EXCEPT ![u] = kind]
      /\ UNCHANGED <<related, deferred, reach, ingress, oauth, stored>>
      /\ mishaps \subseteq mishaps' /\ (mishaps' = {} => leader' = leader)
  BY DEF HookFails, TypeOK, data, own
<1>2. \A r \in related : kind # Broken[r]
  BY BeginsIs DEF Fine
<1>3. "ingress" \in related /\ Owes(u, {"ingress_changed"}) => Owes(u, {"ingress_changed"})'
  <2> DEFINE kinds == {"ingress_changed"}
  <2> SUFFICES ASSUME "ingress" \in related, Owes(u, kinds)
               PROVE  notices'[u] \cap kinds # {} \/ failed'[u] \in kinds
    BY DEF Owes
  <2>1. \A r \in Relations : r # "ingress" => kinds \cap KindsOf[r] = {}
    BY DEF Relations, KindsOf
  <2>2. \A r \in Relations : kind = Broken[r] => kinds \cap KindsOf[r] = {}
    BY <1>2, <2>1
  <2>3. kinds \in SUBSET Kinds
    BY UpdateKindsAre
  <2> HIDE DEF kinds
  <2> QED
    BY <1>1, <2>2, <2>3, FailureOwes
<1>4. Owes(u, {"ingress_broken"}) => Owes(u, {"ingress_broken"})'
  <2>1. \A r \in Relations : {"ingress_broken"} \cap KindsOf[r] = {}
    BY DEF Relations, KindsOf
  <2> QED
    BY <1>1, <2>1, FailureOwes, UpdateKindsAre DEF Owes
<1>5. Address(u)' = Address(u) /\ OAuthReady' = OAuthReady
  BY <1>1 DEF Address, OAuthReady
<1>6. Remembers(u)'
  BY <1>1, <1>3, <1>4 DEF Addressed, Remembers
<1>7. Registered(u)'
  BY <1>1, <1>3, <1>5 DEF Addressed, Registered
<1>8. Current(u)'
  <2>1. CASE kind \in UpdateKinds
    <3>1. Owes(u, UpdateKinds)'
      BY <1>1, <2>1 DEF Owes, UpdateKinds
    <3> QED
      BY <3>1 DEF Current
  <2>2. CASE deferred[u] # {}
    BY <1>1, <2>2 DEF Current
  <2>3. CASE kind = "ingress_departed" /\ deferred[u] = {}
    <3>1. con = console[u]
      <4>1. \A h \in Runs(u, kind) : ~UpdatesConsole(u, h)
        BY <2>3 DEF Runs, Handlers, Observed, UpdatesConsole, PolarisKinds, TlsKinds,
                    IngressKinds, OAuthKinds
      <4> QED
        BY <4>1 DEF HookFails, Spoilt
    <3>2. \A r \in Relations : kind # Broken[r]
      BY <2>3, NotBroken
    <3>3. Owes(u, UpdateKinds) => Owes(u, UpdateKinds)'
      <4> DEFINE kinds == UpdateKinds
      <4>1. kinds \in SUBSET Kinds /\ (notices'[u] \cap kinds # {} \/ failed'[u] \in kinds => Owes(u, UpdateKinds)')
        BY UpdateKindsAre DEF Owes, UpdateKinds
      <4> HIDE DEF kinds
      <4>2. Owes(u, kinds) => notices'[u] \cap kinds # {} \/ failed'[u] \in kinds
        BY <1>1, <3>2, <4>1, FailureOwes
      <4> QED
        BY <4>1, <4>2 DEF kinds
    <3> QED
      BY <1>1, <1>5, <3>1, <3>3 DEF Addressed, Current
  <2> QED
    BY <2>1, <2>2, <2>3 DEF UpdateKinds
<1> QED
  BY <1>6, <1>7, <1>8 DEF Addressed

\* The address a unit has after its hook is the one the hook ended with.
LEMMA AddressAfter ==
  ASSUME TypeOK, NEW u \in Units, NEW kind \in Kinds, Hook(u, kind), Ended(u), "ingress" \in related
  PROVE  /\ Address(u)' = Url(Course(u, kind)[Len(Turns)].hook)
         /\ KeepsUrl(u, kind) => Address(u)' = Address(u) /\ FirstUrl(u, kind) = Address(u)
         /\ ~KeepsUrl(u, kind) /\ kind # "ingress_changed"
              => /\ kind = "ingress_departed" /\ stored[u] # None
                 /\ ingress.url # None /\ stored[u] # ingress.url
<1> DEFINE o == Course(u, kind)[Len(Turns)]
<1>0. Begins(u, kind)
  BY DEF Hook
<1>1. Stands(u, kind, Runs(u, kind), o)
  BY HookEnds
<1>2. Sees(u, kind).url = ingress.url /\ kind # "ingress_broken"
  <2>1. Broken["ingress"] = "ingress_broken"
    BY DEF Broken
  <2> QED
    BY <1>0, <2>1, SeesRelations, BeginsIs
<1>3. stored'[u] = o.hook.stored /\ ingress'.url = ingress.url
  BY <1>0, HookFrame DEF Hook, TypeOK
<1> HIDE DEF o
<1>4. Address(u)' = Url(o.hook)
  BY <1>1, <1>2, <1>3 DEF Address, Url, Stands
<1>5. FirstUrl(u, kind) = Address(u)
  BY <1>2 DEF FirstUrl, Address
<1>6. ASSUME KeepsUrl(u, kind) PROVE Url(o.hook) = FirstUrl(u, kind)
  BY <1>6, UrlKept, TurnsAre DEF o
<1>7. ASSUME ~KeepsUrl(u, kind), kind # "ingress_changed"
      PROVE  /\ kind = "ingress_departed" /\ stored[u] # None
             /\ ingress.url # None /\ stored[u] # ingress.url
  <2>1. "forget_url" \notin deferred[u] /\ "set_url" \notin deferred[u]
    BY DEF TypeOK
  <2>2. "forget_url" \notin Runs(u, kind)
    BY <1>2, <2>1 DEF Runs, Observed, ForgetUrlKinds
  <2>3. "set_url" \in Runs(u, kind) => kind = "ingress_departed"
    BY <1>7, <2>1 DEF Runs, Observed, SetUrlKinds
  <2> QED
    BY <1>2, <1>7, <2>2, <2>3 DEF KeepsUrl
<1> QED
  BY <1>4, <1>5, <1>6, <1>7 DEF o

\* What the unit still has to hear of its address stays, unless it hears it in this hook.
LEMMA UrlOwed ==
  ASSUME TypeOK, NEW u \in Units, NEW kind \in Kinds, Begins(u, kind), Ended(u)
  PROVE  /\ "ingress" \in related /\ Owes(u, {"ingress_changed"}) /\ kind # "ingress_changed"
              => notices'[u] \cap {"ingress_changed"} # {}
         /\ Owes(u, {"ingress_broken"}) /\ kind # "ingress_broken"
              => notices'[u] \cap {"ingress_broken"} # {}
         /\ Owes(u, UpdateKinds) /\ kind = "ingress_departed" => notices'[u] \cap UpdateKinds # {}
<1>1. \A r \in related : kind # Broken[r]
  BY BeginsIs
<1>2. ASSUME "ingress" \in related, Owes(u, {"ingress_changed"}), kind # "ingress_changed"
      PROVE  notices'[u] \cap {"ingress_changed"} # {}
  <2> DEFINE kinds == {"ingress_changed"}
  <2>1. \A r \in Relations : r # "ingress" => kinds \cap KindsOf[r] = {}
    BY DEF Relations, KindsOf
  <2>2. kinds \in SUBSET Kinds /\ Owes(u, kinds) /\ kind \notin kinds
    BY <1>2, UpdateKindsAre
  <2>3. \A r \in Relations : kind = Broken[r] => kinds \cap KindsOf[r] = {}
    BY <1>1, <1>2, <2>1
  <2>4. notices'[u] \cap kinds # {}
    <3> HIDE DEF kinds
    <3> QED
      BY <2>2, <2>3, OwesStays
  <2> QED
    BY <2>4
<1>3. ASSUME Owes(u, {"ingress_broken"}), kind # "ingress_broken"
      PROVE  notices'[u] \cap {"ingress_broken"} # {}
  <2> DEFINE kinds == {"ingress_broken"}
  <2>1. \A r \in Relations : kinds \cap KindsOf[r] = {}
    BY DEF Relations, KindsOf
  <2>2. kinds \in SUBSET Kinds /\ Owes(u, kinds) /\ kind \notin kinds
    BY <1>3, UpdateKindsAre
  <2>3. notices'[u] \cap kinds # {}
    <3> HIDE DEF kinds
    <3> QED
      BY <2>1, <2>2, OwesStays
  <2> QED
    BY <2>3
<1>4. ASSUME Owes(u, UpdateKinds), kind = "ingress_departed"
      PROVE  notices'[u] \cap UpdateKinds # {}
  <2> DEFINE kinds == UpdateKinds
  <2>1. kinds \in SUBSET Kinds /\ Owes(u, kinds) /\ kind \notin kinds
    BY <1>4, UpdateKindsAre DEF UpdateKinds
  <2>2. \A r \in Relations : kind # Broken[r]
    BY <1>4, NotBroken
  <2>3. notices'[u] \cap kinds # {}
    <3> HIDE DEF kinds
    <3> QED
      BY <2>1, <2>2, OwesStays
  <2> QED
    BY <2>3
<1> QED
  BY <1>2, <1>3, <1>4

\* What a unit remembers, after its hook.
LEMMA HookRemembers ==
  ASSUME TypeOK, NEW u \in Units, NEW kind \in Kinds, Hook(u, kind), Fine(u), Remembers(u)
  PROVE  Remembers(u)'
<1> DEFINE o == Course(u, kind)[Len(Turns)]
<1>0. Begins(u, kind) /\ Ended(u)
  BY DEF Hook, Fine
<1>1. Stands(u, kind, Runs(u, kind), o)
  BY HookEnds
<1>2. stored'[u] = o.hook.stored /\ ingress'.url = ingress.url /\ related' = related
  BY <1>0, HookFrame DEF Hook, TypeOK
<1>3. Broken["ingress"] = "ingress_broken"
  BY DEF Broken
<1>4. /\ "forget_url" \in Runs(u, kind) <=> kind = "ingress_broken"
      /\ "set_url" \in Runs(u, kind) <=> kind \in {"ingress_changed", "ingress_departed"}
  <2>1. "forget_url" \notin deferred[u] /\ "set_url" \notin deferred[u]
    BY DEF TypeOK
  <2> QED
    BY <2>1 DEF Runs, Handlers, Observed, ForgetUrlKinds, SetUrlKinds
<1>5. o.hook.stored = IF kind = "ingress_broken" THEN None
                      ELSE IF kind \in {"ingress_changed", "ingress_departed"} /\ Sees(u, kind).url # None
                      THEN Sees(u, kind).url ELSE stored[u]
  BY <1>1, <1>4 DEF Stands
<1> HIDE DEF o
<1>6. ASSUME "ingress" \in related, ingress.url # None, stored'[u] # None
      PROVE  stored'[u] = ingress.url \/ Owes(u, {"ingress_changed"})'
  <2>1. kind # "ingress_broken" /\ Sees(u, kind).url = ingress.url
    BY <1>0, <1>3, <1>6, SeesRelations, BeginsIs
  <2>2. CASE kind \in {"ingress_changed", "ingress_departed"}
    BY <1>2, <1>5, <1>6, <2>1, <2>2
  <2>3. CASE kind \notin {"ingress_changed", "ingress_departed"}
    <3>1. stored'[u] = stored[u]
      BY <1>2, <1>5, <2>1, <2>3
    <3> QED
      BY <1>0, <1>6, <2>3, <3>1, UrlOwed DEF Remembers, Owes
  <2> QED
    BY <2>2, <2>3
<1>7. ASSUME "ingress" \notin related, stored'[u] # None
      PROVE  Owes(u, {"ingress_broken"})'
  <2>1. kind # "ingress_broken"
    BY <1>2, <1>5, <1>7
  <2>2. CASE stored[u] # None
    BY <1>0, <1>7, <2>1, <2>2, UrlOwed DEF Remembers, Owes
  <2>3. CASE stored[u] = None
    <3>1. Sees(u, kind).url # None
      BY <1>2, <1>5, <1>7, <2>3
    <3>2. "ingress_broken" \in notices[u]
      BY <1>3, <1>7, <3>1 DEF Sees, Visible
    <3> QED
      BY <1>0, <2>1, <3>2, UrlOwed DEF Owes
  <2> QED
    BY <2>2, <2>3
<1> QED
  BY <1>2, <1>6, <1>7 DEF Remembers

\* The client, after the hook of the leader.
LEMMA HookRegisters ==
  ASSUME TypeOK, NEW u \in Units, NEW kind \in Kinds, Hook(u, kind), Fine(u),
         Remembers(u), Registered(u)
  PROVE  Registered(u)'
<1> DEFINE o == Course(u, kind)[Len(Turns)]
           a == FirstUrl(u, kind)
<1>1. /\ leader' = leader /\ related' = related /\ mishaps \subseteq mishaps'
      /\ mishaps' = Mishaps(u, kind)
      /\ oauth'.config = IF o.hook.config # None THEN o.hook.config ELSE oauth.config
  BY DEF Hook, Mishaps, TypeOK
<1> SUFFICES ASSUME u = leader, mishaps' = {}, {"oauth", "ingress"} \subseteq related,
                    oauth'.config # None, Address(u)' \in HttpsUrls
             PROVE  oauth'.config = Address(u)' \/ Owes(u, {"ingress_changed"})'
  BY <1>1 DEF Registered
<1>2. Begins(u, kind) /\ Ended(u) /\ Sees(u, kind).oauth
  BY SeesRelations DEF Hook, Fine
<1>3. Address(u)' = Url(o.hook)
  BY <1>2, AddressAfter
<1>4. CASE kind = "ingress_changed"
  <2>1. ~("config_dropped" \in Mishaps(u, kind))
    BY <1>1
  <2>2. o.hook.config = Address(u)'
    BY <1>2, <1>3, <1>4, <2>1, IngressTracks
  <2> HIDE DEF o
  <2> QED
    BY <1>1, <2>2, ConstantsAssumption DEF Urls
<1>5. CASE kind # "ingress_changed" /\ KeepsUrl(u, kind)
  <2>1. Address(u)' = Address(u) /\ a = Address(u)
    BY <1>2, <1>5, AddressAfter
  <2>2. o.hook.config \in {None, a}
    BY <1>5, HookTracks DEF Tracks
  <2> HIDE DEF o, a
  <2>3. CASE o.hook.config # None
    BY <1>1, <2>1, <2>2, <2>3
  <2>4. CASE o.hook.config = None
    <3>1. oauth.config = Address(u) \/ Owes(u, {"ingress_changed"})
      BY <1>1, <2>1, <2>4 DEF Registered
    <3> QED
      BY <1>1, <1>2, <1>5, <2>1, <2>4, <3>1, UrlOwed DEF Owes
  <2> QED
    BY <2>3, <2>4
<1>6. CASE kind # "ingress_changed" /\ ~KeepsUrl(u, kind)
  <2>1. Owes(u, {"ingress_changed"})
    BY <1>2, <1>6, AddressAfter DEF Remembers
  <2> QED
    BY <1>2, <1>6, <2>1, UrlOwed DEF Owes
<1> QED
  BY <1>4, <1>5, <1>6

\* The environment of the console, after its hook.
LEMMA HookCurrent ==
  ASSUME TypeOK, NEW u \in Units, NEW kind \in Kinds, Hook(u, kind), Fine(u),
         Remembers(u), Current(u)
  PROVE  Current(u)'
<1> DEFINE o == Course(u, kind)[Len(Turns)]
           ran == Runs(u, kind)
           a == FirstUrl(u, kind)
<1>0. Begins(u, kind) /\ Ended(u)
  BY DEF Hook, Fine
<1>1. /\ UNCHANGED <<leader, related, reach, peers>> /\ OAuthReady' = OAuthReady
      /\ oauth.client' = oauth.client
      /\ mishaps \subseteq mishaps' /\ mishaps' = Mishaps(u, kind)
      /\ console'[u] = o.console /\ deferred'[u] = o.hook.defers
  <2>1. UNCHANGED <<related, reach, peers, oauth.client, oauth.secret>> /\ mishaps \subseteq mishaps'
    BY <1>0, HookFrame
  <2> QED
    BY <2>1 DEF Hook, TypeOK, OAuthReady
<1> SUFFICES ASSUME console'[u].running # None, {"oauth", "ingress"} \subseteq related, OAuthReady,
                    Address(u)' \in HttpsUrls,
                    reach[u] = Containers \/ (u = leader /\ mishaps' = {})
             PROVE  console'[u].env = Address(u)' \/ Owes(u, UpdateKinds)' \/ deferred'[u] # {}
  BY <1>1 DEF Current
<1>2. Stands(u, kind, ran, o)
  BY HookEnds
<1>3. Sees(u, kind).oauth /\ Sees(u, kind).client # None
  BY <1>0, SeesRelations DEF OAuthReady
<1>4. Address(u)' = Url(o.hook) /\ Address(u)' # None
  BY <1>0, AddressAfter, ConstantsAssumption DEF Urls
<1>5. peers /\ reach[u] = Containers => Able(u, Containers)
  BY DEF Able
<1>6. Able(u, {"console"})
  <2>1. Fine(u)'
    BY HookFine
  <2> QED
    BY <1>1, <2>1 DEF Fine, InStep, Able
<1>7. Able(u, Containers) \/ (u = leader /\ mishaps' = {})
  BY <1>5, <1>6 DEF Able
<1>8. CASE kind \in {"ingress_created", "ingress_changed"}
  <2>1. Able(u, Containers)
    <3>1. Url(o.hook) \in HttpsUrls /\ (mishaps' = {} => "config_dropped" \notin Mishaps(u, kind))
      BY <1>1, <1>4
    <3> QED
      BY <1>3, <1>7, <1>8, <3>1, IngressTracks
  <2>2. o.console.env = EnvironmentFor(u, kind, Url(o.hook))
    BY <1>8, <2>1, IngressTracks
  <2> QED
    BY <1>1, <1>3, <1>4, <2>2 DEF EnvironmentFor
<1>9. CASE kind \notin {"ingress_created", "ingress_changed"} /\ KeepsUrl(u, kind)
  <2>1. Address(u)' = Address(u) /\ a = Address(u)
    BY <1>0, <1>9, AddressAfter
  <2>2. CASE \E h \in ran : UpdatesConsole(u, h)
    <3>1. o.console.env = EnvironmentFor(u, kind, a)
      BY <1>9, <2>2, HookTracks DEF Tracks
    <3> QED
      BY <1>1, <1>3, <1>4, <2>1, <3>1 DEF EnvironmentFor
  <2>3. CASE ~\E h \in ran : UpdatesConsole(u, h)
    <3>1. o.console = console[u]
      BY <1>2, <2>3 DEF Stands
    <3>2. "tls" \notin ran
      BY <1>6, <2>3 DEF UpdatesConsole
    <3>3. CASE \E h \in ran : h \in {"polaris", "oauth"}
      <4>1. PICK h \in ran : h \in {"polaris", "oauth"}
        BY <3>3
      <4>2. DefersItself(u, h)
        BY <2>3, <4>1 DEF UpdatesConsole, DefersItself
      <4>3. h \in o.hook.defers
        BY <1>2, <4>1, <4>2 DEF Stands
      <4> QED
        BY <1>1, <4>3
    <3>4. CASE ~\E h \in ran : h \in {"polaris", "oauth"}
      <4>1. deferred[u] = {}
        BY <3>2, <3>4 DEF TypeOK, Runs
      <4>2. kind = "ingress_departed"
        <5>1. kind # "ingress_broken"
          <6>1. Broken["ingress"] = "ingress_broken"
            BY DEF Broken
          <6> QED
            BY <1>0, <6>1, BeginsIs
        <5>2. \A h \in {"polaris", "tls", "oauth"} : kind \notin Observed[h]
          BY <3>2, <3>4 DEF Runs, Handlers, Observed
        <5>3. kind \notin PolarisKinds /\ kind \notin TlsKinds /\ kind \notin OAuthKinds
          BY <5>2 DEF Observed
        <5> QED
          BY <1>9, <5>1, <5>3, KindsAre DEF AllKinds, PolarisKinds, TlsKinds, OAuthKinds
      <4>3. console[u].env = Address(u) \/ Owes(u, UpdateKinds)
        BY <1>1, <2>1, <3>1, <4>1 DEF Current
      <4> QED
        BY <1>0, <1>1, <2>1, <3>1, <4>2, <4>3, UrlOwed DEF Owes, UpdateKinds
    <3> QED
      BY <3>3, <3>4
  <2> QED
    BY <2>2, <2>3
<1>10. CASE kind \notin {"ingress_created", "ingress_changed"} /\ ~KeepsUrl(u, kind)
  <2>1. Owes(u, {"ingress_changed"}) /\ kind # "ingress_changed"
    BY <1>0, <1>10, AddressAfter DEF Remembers
  <2>2. notices'[u] \cap {"ingress_changed"} # {}
    BY <1>0, <2>1, UrlOwed
  <2> QED
    BY <2>2, UpdateKindsAre DEF Owes, UpdateKinds
<1> QED
  BY <1>8, <1>9, <1>10

\* Steps of the environment.
LEMMA EnvironmentAddressed ==
  ASSUME TypeOK, NEW v \in Units, Addressed(v),
         \/ \E u \in Units :
              \/ Elect(u) \/ IssueCertificate(u) \/ PodMoves(u)
              \/ \E c \in Containers : ContainerRestart(u, c) \/ PebbleUp(u, c)
         \/ \E r \in Relations : AddRelation(r) \/ RemoveRelation(r)
         \/ CreatePeers \/ PublishUrl \/ WipeUrl \/ IngressDeparts \/ RegisterClient
         \/ WithdrawSecret
  PROVE  Addressed(v)'
<1>0. Remembers(v) /\ Registered(v) /\ Current(v)
  BY DEF Addressed
<1>1. ASSUME NEW u \in Units, Elect(u) PROVE Addressed(v)'
  <2>1. /\ notices[v] \subseteq notices'[v] /\ mishaps \subseteq mishaps' /\ mishaps' # {}
        /\ UNCHANGED <<related, failed, deferred, stored, ingress, oauth, console, reach>>
    BY <1>1, NotifyIs DEF Elect, LeaseMoves, data, own
  <2> QED
    BY <1>0, <2>1, RegistrationKept, CurrentKept DEF Addressed
<1>2. ASSUME NEW u \in Units, IssueCertificate(u) PROVE Addressed(v)'
  <2>1. /\ notices[v] \subseteq notices'[v]
        /\ UNCHANGED <<leader, mishaps, related, failed, deferred, stored, ingress, oauth, console, reach>>
    BY <1>2, NotifyIs DEF IssueCertificate, own
  <2> QED
    BY <1>0, <2>1, RegistrationKept, CurrentKept DEF Addressed
<1>3. ASSUME NEW u \in Units, PodMoves(u) PROVE Addressed(v)'
  <2>1. UNCHANGED <<leader, mishaps, related, failed, notices, ingress.url, oauth>>
    BY <1>3 DEF PodMoves, juju, TypeOK
  <2>2. CASE v = u
    <3>1. stored'[v] = None /\ console'[v].running = None
      BY <1>3, <2>2 DEF PodMoves, EmptyConsole, TypeOK
    <3>2. Remembers(v)' /\ Current(v)'
      BY <3>1 DEF Remembers, Current
    <3>3. Registered(v)'
      <4>1. Address(v)' = ingress.url
        BY <2>1, <3>1 DEF Address
      <4>2. stored[v] = None \/ stored[v] = ingress.url => Address(v) = ingress.url
        BY DEF Address
      <4>3. \A k : Owes(v, k)' <=> Owes(v, k)
        BY <2>1 DEF Owes
      <4> QED
        BY <1>0, <2>1, <4>1, <4>2, <4>3, ConstantsAssumption DEF Registered, Remembers, Urls
    <3> QED
      BY <3>2, <3>3 DEF Addressed
  <2>3. CASE v # u
    <3>1. UNCHANGED <<deferred[v], stored[v], console[v], reach[v]>>
      BY <1>3, <2>3 DEF PodMoves, TypeOK
    <3> QED
      BY <1>0, <2>1, <3>1, RegistrationKept, CurrentKept DEF Addressed
  <2> QED
    BY <2>2, <2>3
<1>4. ASSUME NEW u \in Units, NEW c \in Containers, ContainerRestart(u, c) PROVE Addressed(v)'
  <2>1. UNCHANGED <<leader, mishaps, notices, related, failed, deferred, stored, ingress, oauth>>
    BY <1>4 DEF ContainerRestart, juju, data, own
  <2>2. /\ console'[v] = console[v] \/ console'[v].running = None
        /\ reach'[v] = Containers => reach[v] = Containers
    BY <1>4 DEF ContainerRestart, EmptyConsole, TypeOK
  <2> QED
    BY <1>0, <2>1, <2>2, RegistrationKept, CurrentKept DEF Addressed
<1>5. ASSUME NEW u \in Units, NEW c \in Containers, PebbleUp(u, c) PROVE Addressed(v)'
  <2>1. /\ notices'[v] = notices[v] \cup (IF v = u THEN {IF c = "console" THEN "console_ready"
                                                           ELSE "polaris_ready"} ELSE {})
        /\ UNCHANGED <<leader, mishaps, related, failed, deferred, stored, ingress, oauth, console>>
    BY <1>5, NotifyIs DEF PebbleUp, data, own
  <2>2. Remembers(v)' /\ Registered(v)'
    BY <1>0, <2>1, RegistrationKept
  <2>3. CASE v = u
    <3>1. Owes(v, UpdateKinds)'
      BY <2>1, <2>3, UpdateKindsAre DEF Owes, UpdateKinds
    <3> QED
      BY <2>2, <3>1 DEF Addressed, Current
  <2>4. CASE v # u
    <3>1. reach'[v] = reach[v]
      BY <1>5, <2>4 DEF PebbleUp, TypeOK
    <3> QED
      BY <1>0, <2>1, <2>2, <3>1, CurrentKept DEF Addressed
  <2> QED
    BY <2>3, <2>4
<1>6. ASSUME NEW r \in Relations, AddRelation(r) PROVE Addressed(v)'
  <2>1. /\ notices[v] \subseteq notices'[v] /\ related' = related \cup {r}
        /\ UNCHANGED <<leader, mishaps, failed, deferred, stored, console, reach>>
    BY <1>6, NotifyIs DEF AddRelation, own
  <2>2. r \in {"tls", "ingress", "oauth"}
    BY DEF Relations
  <2>3. CASE r = "ingress"
    <3>1. /\ ingress'.url = None /\ r \notin related /\ ~Owes(v, {"ingress_broken"})
      BY <1>6, <2>3 DEF AddRelation, Detached, Visible, Broken, Owes, NewIngress
    <3>2. stored'[v] = None
      BY <1>0, <2>1, <2>3, <3>1 DEF Remembers
    <3>3. Address(v)' = None
      BY <3>1, <3>2 DEF Address
    <3> QED
      BY <2>1, <2>3, <3>1, <3>2, <3>3, ConstantsAssumption DEF Addressed, Remembers, Registered, Current, Urls
  <2>4. CASE r = "oauth"
    <3>1. oauth'.config = None /\ ~OAuthReady' /\ ingress' = ingress
      BY <1>6, <2>4 DEF AddRelation, NewOAuth, OAuthReady
    <3>2. Remembers(v)'
      BY <1>0, <2>1, <2>4, <3>1 DEF Remembers, Owes
    <3> QED
      BY <3>1, <3>2 DEF Addressed, Registered, Current
  <2>5. CASE r = "tls"
    <3>1. ingress' = ingress /\ oauth' = oauth
      BY <1>6, <2>5 DEF AddRelation
    <3>2. \A q \in {"ingress", "oauth"} : q \in related' <=> q \in related
      BY <2>1, <2>5
    <3>3. Address(v)' = Address(v) /\ OAuthReady' = OAuthReady
      BY <2>1, <3>1 DEF Address, OAuthReady
    <3>4. \A k : Owes(v, k) => Owes(v, k)'
      BY <2>1 DEF Owes
    <3>5. Remembers(v)' /\ Registered(v)'
      BY <1>0, <2>1, <3>1, <3>2, <3>3, <3>4 DEF Remembers, Registered
    <3>6. Owes(v, UpdateKinds) => Owes(v, UpdateKinds)'
      BY <2>1 DEF Owes, UpdateKinds
    <3>7. Current(v)'
      BY <1>0, <2>1, <3>1, <3>2, <3>3, <3>6 DEF Current
    <3> QED
      BY <3>5, <3>7 DEF Addressed
  <2> QED
    BY <2>2, <2>3, <2>4, <2>5
<1>7. ASSUME NEW r \in Relations, RemoveRelation(r) PROVE Addressed(v)'
  <2>1. /\ notices'[v] = notices[v] \cup {Broken[r]} /\ related' = related \ {r}
        /\ UNCHANGED <<leader, mishaps, failed, deferred, stored, console, reach, ingress, oauth>>
    BY <1>7, NotifyIs DEF RemoveRelation, data, own
  <2>2. Address(v)' = Address(v) /\ OAuthReady' = OAuthReady
    BY <2>1 DEF Address, OAuthReady
  <2>3. \A k : Owes(v, k) => Owes(v, k)'
    BY <2>1 DEF Owes
  <2>4. Owes(v, UpdateKinds) => Owes(v, UpdateKinds)'
    BY <2>1 DEF Owes, UpdateKinds
  <2>5. r = "ingress" => Owes(v, {"ingress_broken"})'
    BY <2>1 DEF Owes, Broken
  <2>6. Remembers(v)'
    BY <1>0, <2>1, <2>3, <2>5 DEF Remembers
  <2>7. Registered(v)' /\ Current(v)'
    BY <1>0, <2>1, <2>2, <2>3, <2>4 DEF Registered, Current
  <2> QED
    BY <2>6, <2>7 DEF Addressed
<1>8. CASE CreatePeers
  <2>1. UNCHANGED <<leader, mishaps, notices, related, failed, deferred, stored, console, reach, ingress, oauth>>
    BY <1>8 DEF CreatePeers, data, own
  <2> QED
    BY <1>0, <2>1, RegistrationKept, CurrentKept DEF Addressed
<1>9. CASE PublishUrl \/ WipeUrl
  <2>1. notices'[v] = notices[v] \cup {"ingress_changed"}
    BY <1>9, NotifyIs DEF PublishUrl, WipeUrl
  <2>2. "ingress" \in related /\ related' = related
    BY <1>9 DEF PublishUrl, WipeUrl, ProviderReady
  <2>3. Owes(v, {"ingress_changed"})' /\ Owes(v, UpdateKinds)'
    BY <2>1, UpdateKindsAre DEF Owes, UpdateKinds
  <2> QED
    BY <2>2, <2>3 DEF Addressed, Remembers, Registered, Current
<1>10. CASE IngressDeparts
  <2>1. /\ notices[v] \subseteq notices'[v]
        /\ UNCHANGED <<leader, mishaps, related, failed, deferred, stored, console, reach, ingress, oauth>>
    BY <1>10, NotifyIs DEF IngressDeparts, data, own
  <2> QED
    BY <1>0, <2>1, RegistrationKept, CurrentKept DEF Addressed
<1>11. CASE RegisterClient
  <2>1. /\ notices'[v] = notices[v] \cup {"oauth_changed"}
        /\ UNCHANGED <<leader, mishaps, related, failed, stored, ingress>> /\ oauth'.config = oauth.config
    BY <1>11, NotifyIs DEF RegisterClient, own, TypeOK
  <2>2. Remembers(v)' /\ Registered(v)'
    BY <1>0, <2>1, RegistrationKept
  <2>3. Owes(v, UpdateKinds)'
    BY <2>1, UpdateKindsAre DEF Owes, UpdateKinds
  <2> QED
    BY <2>2, <2>3 DEF Addressed, Current
<1>12. CASE WithdrawSecret
  <2>1. /\ UNCHANGED <<leader, mishaps, notices, related, failed, stored, ingress>>
        /\ oauth'.config = oauth.config /\ oauth'.secret = FALSE
    BY <1>12 DEF WithdrawSecret, juju, own, TypeOK
  <2>2. Remembers(v)' /\ Registered(v)'
    BY <1>0, <2>1, RegistrationKept
  <2> QED
    BY <2>1, <2>2 DEF Addressed, Current, OAuthReady
<1> QED
  BY <1>1, <1>2, <1>3, <1>4, <1>5, <1>6, <1>7, <1>8, <1>9, <1>10, <1>11, <1>12

\* A client is registered for what was published.
LEMMA ClientsKept ==
  ASSUME TypeOK, Clients, [Next]_vars
  PROVE  Clients'
<1>1. CASE UNCHANGED oauth
  BY <1>1 DEF Clients
<1>2. ASSUME NEW u \in Units, NEW kind \in Kinds, Hook(u, kind) PROVE Clients'
  BY <1>2 DEF Hook, Clients, TypeOK
<1>3. ASSUME NEW r \in Relations, AddRelation(r) PROVE Clients'
  BY <1>3 DEF AddRelation, NewOAuth, Clients
<1>4. CASE RegisterClient \/ WithdrawSecret
  BY <1>4 DEF RegisterClient, WithdrawSecret, Clients, TypeOK
<1>5. CASE \E u \in Units, kind \in Kinds : Begins(u, kind) /\ \E con : HookFails(u, kind, con)
  BY <1>1, <1>5 DEF HookFails, data
<1>6. CASE \/ \E u \in Units :
                \/ Elect(u) \/ IssueCertificate(u) \/ PodMoves(u)
                \/ \E c \in Containers : ContainerRestart(u, c) \/ PebbleUp(u, c)
           \/ \E r \in Relations : RemoveRelation(r)
           \/ CreatePeers \/ PublishUrl \/ WipeUrl \/ IngressDeparts
  BY <1>1, <1>6 DEF Elect, IssueCertificate, PodMoves, ContainerRestart, PebbleUp, RemoveRelation,
                    CreatePeers, PublishUrl, WipeUrl, IngressDeparts, data
<1>7. CASE UNCHANGED vars
  BY <1>1, <1>7 DEF vars
<1> QED
  BY <1>2, <1>3, <1>4, <1>5, <1>6, <1>7, StepIs

LoginInv == ExposureInv /\ Clients /\ \A u \in Units : Addressed(u)

LEMMA LoginInit == ASSUME Init PROVE LoginInv
  BY ExposureInit DEF Init, LoginInv, Clients, Addressed, Remembers, Registered, Current,
     NewOAuth, EmptyConsole

LEMMA LoginStep == ASSUME LoginInv, [Next]_vars PROVE LoginInv'
<1>0. /\ TypeOK /\ Clients /\ (\A u \in Units : Fine(u) /\ Addressed(u))
      /\ ExposureInv' /\ Clients'
  BY ExposureStep, ClientsKept DEF LoginInv, ExposureInv
<1> SUFFICES ASSUME NEW v \in Units PROVE Addressed(v)'
  BY <1>0 DEF LoginInv
<1>1. CASE UNCHANGED vars
  BY <1>0, <1>1, RegistrationKept, CurrentKept DEF vars, Addressed
<1>2. ASSUME NEW u \in Units, NEW kind \in Kinds, Hook(u, kind) PROVE Addressed(v)'
  <2>1. CASE v = u
    BY <1>0, <1>2, <2>1, HookRemembers, HookRegisters, HookCurrent DEF Addressed
  <2>2. CASE v # u
    BY <1>0, <1>2, <2>2, OthersAddressed DEF Hook
  <2> QED
    BY <2>1, <2>2
<1>3. ASSUME NEW u \in Units, NEW kind \in Kinds, Begins(u, kind), NEW con, HookFails(u, kind, con)
      PROVE  Addressed(v)'
  BY <1>0, <1>3, FailureAddressed, OthersAddressed
<1>4. CASE \/ \E u \in Units :
                \/ Elect(u) \/ IssueCertificate(u) \/ PodMoves(u)
                \/ \E c \in Containers : ContainerRestart(u, c) \/ PebbleUp(u, c)
           \/ \E r \in Relations : AddRelation(r) \/ RemoveRelation(r)
           \/ CreatePeers \/ PublishUrl \/ WipeUrl \/ IngressDeparts \/ RegisterClient
           \/ WithdrawSecret
  BY <1>0, <1>4, EnvironmentAddressed
<1> QED
  BY <1>0, <1>1, <1>2, <1>3, <1>4, StepIs

\* A unit that reports OAuth as working has a console that sends its users to the address
\* registered with the provider (ActiveMeansLoginWorks), for any units, addresses and
\* changes: as long as nothing was dropped and the lease stayed, a stored address that is
\* not the ingress', a client for another address and an environment without it each
\* leave the unit something to handle.
THEOREM LoginWorks == Spec => []ActiveMeansLoginWorks
<1>1. ASSUME LoginInv PROVE ActiveMeansLoginWorks
  <2> SUFFICES ASSUME AllQuiet, mishaps = {}, NEW u \in Units, OAuthActive(u),
                      console[u].running # None,
                      u # leader => reach[u] = Containers /\ Address(u) = Address(leader)
               PROVE  console[u].running.env = oauth.client
    BY DEF ActiveMeansLoginWorks
  <2>1. {"oauth", "ingress"} \subseteq related /\ OAuthReady /\ Address(u) \in HttpsUrls
    BY DEF OAuthActive, OAuthStatus
  <2>2. leader \in Units /\ Quiet(u) /\ Quiet(leader) /\ Address(leader) = Address(u)
    BY <1>1 DEF AllQuiet, LoginInv, ExposureInv, TypeOK
  <2>3. console[u].env = Address(u)
    <3>1. ~Owes(u, UpdateKinds) /\ deferred[u] = {}
      BY <2>2, QuietOwes, UpdateKindsAre DEF Quiet
    <3> QED
      BY <1>1, <2>1, <3>1 DEF LoginInv, Addressed, Current
  <2>4. oauth.config # None /\ oauth.client = oauth.config
    BY <1>1, <2>1 DEF LoginInv, Clients, OAuthReady, AllQuiet
  <2>5. oauth.config = Address(leader)
    <3>1. ~Owes(leader, {"ingress_changed"})
      BY <2>2, QuietOwes, UpdateKindsAre
    <3> QED
      BY <1>1, <2>1, <2>2, <2>4, <3>1 DEF LoginInv, Addressed, Registered
  <2>6. console[u].running.env = console[u].env
    BY <1>1 DEF LoginInv, ExposureInv, Fine, InStep, KeepsEnv
  <2> QED
    BY <2>2, <2>3, <2>4, <2>5, <2>6
<1>2. LoginInv /\ [Next]_vars => LoginInv'
  BY LoginStep
<1> QED
  BY <1>1, <1>2, LoginInit, PTL DEF Spec

===============================================================================
