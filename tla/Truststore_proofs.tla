-------------------------- MODULE Truststore_proofs --------------------------
(***************************************************************************)
(* What holds of the truststore for any certificates, settings and         *)
(* passwords, chains of any bounded length and any number of changes.      *)
(***************************************************************************)
EXTENDS Truststore, FiniteSetTheorems, TLAPS

-------------------------------------------------------------------------------
(* The inductive invariant                                                  *)

\* The steps of ensure_certificates_imported.
Importings == {"password", "storepasswd", "open", "clear", "delete", "import"}

\* The handlers an event runs.
Runs(event) == Range(HandlersOf(event))

\* The handlers the hook runs, whether it fails and is run again or not.
Charges == deferred \cup Runs(hook.event)

\* The handler that imports the chain of a prefix, or withdraws it.
Duty(p) ==
  IF p = "additional-ca" THEN "certs" ELSE IF storage # None THEN "s3" ELSE "gone"

\* What a hook carries from its start to its end.
Context ==
  /\ hook.pc # "idle" => hook.event \in Events
  /\ InHook =>
       /\ hook.again \subseteq deferred /\ Range(hook.todo) \subseteq Runs(hook.event)
       /\ hook.defers \subseteq Charges
       /\ hook.pc # "run" => hook.cur \in Charges
       /\ password # None => hook.password = password

\* Who called ensure_certificates_imported, for which prefix.
Call ==
  hook.pc \in Importings =>
    /\ hook.prefix \in Prefixes /\ hook.stage \in {"withdraw", "import"}
    /\ hook.prefix = "additional-ca" <=> hook.cur = "certs"
    /\ hook.stage = "withdraw" <=> hook.cur = "gone"
    /\ hook.stage = "withdraw" => hook.certs = <<>>

\* Where the hook stands in it tells what is on the disk, if the disk is still there.
Position ==
  /\ hook.pc \in Importings \ {"password"} => hook.password # None /\ (reach => store # None)
  /\ hook.pc = "clear" => hook.certs = <<>>
  /\ hook.pc \in {"delete", "import"} =>
       hook.certs # <<>> /\ (reach => chain[hook.prefix] = hook.certs)
  /\ hook.pc = "import" /\ reach =>
       \E k \in 0..MaxChain : /\ k < Len(hook.certs)
                              /\ CurrentAliases = [j \in 1..k |-> hook.certs[j]]

Control == Context /\ Call /\ Position

\* The object storage is not there and about to be withdrawn, and nothing is left of a
\* container that is gone.
Apart ==
  /\ storage = None => offered["object-storage-ca"] = <<>>
  /\ storage # None => /\ "s3_gone" \notin notices /\ "gone" \notin deferred
                       /\ hook.pc # "idle" => hook.event # "s3_gone"
  /\ ~reach => store = None /\ file = None /\ running = None
  /\ store = None => chain = NoFiles

WellFormed == TypeOK /\ Control /\ Apart

\* The password that opens the keystore is that of the hook, and at its end the committed one.
Openable ==
  NoHookFailed /\ store # None =>
    IF InHook THEN hook.pc = "storepasswd" \/ store.password = hook.password
              ELSE store.password = password

\* As long as no hook fails, each alias is that of a certificate in the chain file, but
\* for those still to be deleted.
Faithful(p) ==
  NoHookFailed /\ chain[p] # None /\ ~(hook.pc = "delete" /\ hook.prefix = p)
    => \A j \in DOMAIN Trusted[p] : j \in DOMAIN chain[p] /\ Trusted[p][j] = chain[p][j]

\* The keystore and the chain file have what the relation offers.
Agrees(p) ==
  /\ DOMAIN Trusted[p] = 1..Len(offered[p])
  /\ chain[p] = IF offered[p] = <<>> THEN None ELSE offered[p]
  /\ NoHookFailed => Trusted[p] = offered[p]

Noticed(p) == \E event \in notices : Duty(p) \in Runs(event)

Underway(p) ==
  /\ hook.pc \in Importings /\ hook.prefix = p /\ hook.cur = Duty(p)
  /\ hook.certs = offered[p]

\* The chain of p has still to be imported, or withdrawn.
Owed(p) ==
  \/ ~reach
  \/ Noticed(p)
  \/ IF InHook THEN Underway(p) \/ Duty(p) \in hook.again \cup Range(hook.todo) \cup hook.defers
     ELSE Duty(p) \in deferred \/ (hook.pc = "error" /\ Duty(p) \in Runs(hook.event))

\* The chain that is being imported is still the one offered, or a notice says it is not.
Current == hook.pc \in Importings /\ reach => Underway(hook.prefix) \/ Noticed(hook.prefix)

Due ==
  /\ \A p \in Prefixes : Faithful(p)
  /\ \A p \in Prefixes : Agrees(p) \/ Owed(p)
  /\ Current

\* Aliases of p are missing, or too many, for its chain file.
Torn(p) == chain[p] # None /\ DOMAIN Trusted[p] # 1..Len(chain[p])

\* The hook restarts the service unless it fails.
Bound(p) ==
  \/ hook.pc = "update" /\ hook.force
  \/ /\ hook.prefix = p
     /\ \/ hook.pc \in {"delete", "import"}
        \/ hook.pc = "clear" /\ (hook.force \/ chain[p] # None)

\* The relation to the object storage stayed.
StorageStays == "storage" \notin Range(edits)

\* Nothing says that it went away.
Unbroken ==
  /\ "s3_gone" \notin notices /\ "gone" \notin deferred
  /\ hook.pc # "idle" => hook.event # "s3_gone"

\* The service trusts what the keystore has for p, or is about to, or an import failed.
Keeps(p) == running.trust[p] = Trusted[p] \/ Torn(p) \/ Bound(p)

Abreast ==
  NoHookFailed /\ StorageStays =>
    /\ Unbroken
    /\ running # None => storage # None /\ \A p \in Prefixes : Keeps(p)

IInv == WellFormed /\ Openable /\ Due /\ Abreast

-------------------------------------------------------------------------------
(* Lemmas about chains, aliases and sequences of handlers                   *)

\* A chain is a sequence of certificates within the bound.
LEMMA ChainIsSequence ==
  ASSUME NEW c \in Chains
  PROVE  /\ c \in Seq(Certs) /\ Len(c) \in 0..MaxChain
         /\ DOMAIN c = 1..Len(c) /\ c \in [1..Len(c) -> Certs]
         /\ c = <<>> <=> Len(c) = 0
<1>1. PICK n \in 0..MaxChain : c \in [1..n -> Certs]  BY DEF Chains
<1>2. n \in Nat  BY <1>1, TruststoreAssumption
<1>3. c \in Seq(Certs) /\ Len(c) = n  BY <1>1, <1>2
<1> QED  BY <1>1, <1>2, <1>3

\* Offering no certificate is a chain, and having no alias is one of the maps of aliases.
LEMMA NoneIsChain == <<>> \in Chains /\ <<>> \in Aliases
<1>1. <<>> \in [1..0 -> Certs]  OBVIOUS
<1>2. <<>> \in [{} -> Certs]  OBVIOUS
<1>3. 0 \in 0..MaxChain  BY TruststoreAssumption
<1>4. {} \in SUBSET (1..MaxChain)  OBVIOUS
<1>5. <<>> \in Chains  BY <1>1, <1>3 DEF Chains
<1>6. <<>> \in Aliases  BY <1>2, <1>4 DEF Aliases
<1> QED  BY <1>5, <1>6

\* Without a certificate there is one map of aliases.
LEMMA NoAliasLeft ==
  ASSUME NEW f \in Aliases, DOMAIN f = {}
  PROVE  f = <<>>
<1>1. f \in [{} -> Certs]  BY DEF Aliases
<1>2. f \in Seq(Certs) /\ Len(f) = 0  BY <1>1
<1> QED  BY <1>2

\* Aliases numbered from one are the sequence of their certificates.
LEMMA AliasesAreChain ==
  ASSUME NEW f \in Aliases, NEW c \in Chains, DOMAIN f = DOMAIN c,
         \A j \in DOMAIN f : f[j] = c[j]
  PROVE  f = c
BY ChainIsSequence DEF Aliases, Chains

\* What Tail and Head leave of the handlers to run.
LEMMA TailRange ==
  ASSUME NEW S, NEW s \in Seq(S), s # <<>>
  PROVE  /\ Head(s) \in Range(s) /\ Tail(s) \in Seq(S)
         /\ Range(s) = {Head(s)} \cup Range(Tail(s))
<1> DEFINE t == Tail(s)
<1>1. Len(s) \in Nat /\ Len(s) > 0 /\ Head(s) = s[1] /\ DOMAIN s = 1..Len(s)  OBVIOUS
<1>2. t \in Seq(S) /\ Len(t) = Len(s) - 1 /\ DOMAIN t = 1..Len(t)  OBVIOUS
<1>3. \A i \in 1..Len(t) : t[i] = s[i + 1]  OBVIOUS
<1> HIDE DEF t
<1>4. Range(s) \subseteq {s[1]} \cup Range(t)
  <2> SUFFICES ASSUME NEW i \in 1..Len(s), i # 1  PROVE s[i] \in Range(t)
    BY <1>1 DEF Range
  <2>1. i - 1 \in DOMAIN t /\ t[i - 1] = s[i]  BY <1>1, <1>2, <1>3
  <2> QED  BY <2>1 DEF Range
<1>5. Range(t) \subseteq Range(s)
  <2> SUFFICES ASSUME NEW i \in DOMAIN t  PROVE t[i] \in Range(s)
    BY DEF Range
  <2>1. i + 1 \in DOMAIN s /\ t[i] = s[i + 1]  BY <1>1, <1>2, <1>3
  <2> QED  BY <2>1 DEF Range
<1>6. s[1] \in Range(s)  BY <1>1 DEF Range
<1> QED  BY <1>1, <1>2, <1>4, <1>5, <1>6 DEF t

\* The changes made so far stay made.
LEMMA AppendRange ==
  ASSUME NEW S, NEW s \in Seq(S), NEW e \in S
  PROVE  Range(Append(s, e)) = Range(s) \cup {e}
<1> DEFINE t == Append(s, e)
<1>1. Len(s) \in Nat /\ t \in Seq(S) /\ Len(t) = Len(s) + 1  OBVIOUS
<1>2. \A i \in 1..Len(s) : t[i] = s[i]  OBVIOUS
<1>3. t[Len(s) + 1] = e  OBVIOUS
<1> HIDE DEF t
<1>4. DOMAIN t = 1..(Len(s) + 1) /\ DOMAIN s = 1..Len(s)  BY <1>1
<1>5. Range(t) \subseteq Range(s) \cup {e}
  <2> SUFFICES ASSUME NEW i \in 1..(Len(s) + 1)  PROVE t[i] \in Range(s) \cup {e}
    BY <1>4 DEF Range
  <2>1. i \in 1..Len(s) \/ i = Len(s) + 1  BY <1>1
  <2> QED  BY <2>1, <1>2, <1>3, <1>4 DEF Range
<1>6. Range(s) \cup {e} \subseteq Range(t)
  <2>1. \A i \in 1..Len(s) : i \in 1..(Len(s) + 1)  BY <1>1
  <2>2. Len(s) + 1 \in 1..(Len(s) + 1)  BY <1>1
  <2> QED  BY <2>1, <2>2, <1>2, <1>3, <1>4 DEF Range
<1> QED  BY <1>5, <1>6 DEF t

\* The handlers of each event.
LEMMA RunsOf ==
  ASSUME NEW event \in Events
  PROVE  /\ HandlersOf(event) \in Seq(Handlers) /\ Runs(event) \subseteq Handlers
         /\ "certs" \in Runs(event) <=> event \in {"pebble_ready", "certificates"}
         /\ "s3" \in Runs(event) <=> event \in {"pebble_ready", "s3_changed"}
         /\ "gone" \in Runs(event) <=> event = "s3_gone"
<1>1. CASE event = "update"  BY <1>1 DEF HandlersOf, Runs, Range, Handlers
<1>2. CASE event = "pebble_ready"
  <2>1. HandlersOf(event) = <<"polaris", "s3", "certs">>  BY <1>2 DEF HandlersOf
  <2>2. Runs(event) = {"polaris", "s3", "certs"}  BY <2>1 DEF Runs, Range
  <2> QED  BY <2>1, <2>2, <1>2 DEF Handlers
<1>3. CASE event = "s3_changed"  BY <1>3 DEF HandlersOf, Runs, Range, Handlers
<1>4. CASE event = "s3_gone"  BY <1>4 DEF HandlersOf, Runs, Range, Handlers
<1>5. CASE event = "certificates"  BY <1>5 DEF HandlersOf, Runs, Range, Handlers
<1> QED  BY <1>1, <1>2, <1>3, <1>4, <1>5 DEF Events

-------------------------------------------------------------------------------
(* Lemmas about the hook                                                    *)

\* What the rest of a hook keeps: the event, the password, the handlers still to run.
Carried(new, old) ==
  /\ new \in HookType
  /\ new.event = old.event /\ new.password = old.password
  /\ new.again = old.again /\ new.todo = old.todo

\* A handler that returns.
LEMMA ReturnedIs ==
  ASSUME NEW hk \in HookType, NEW r, r = Returned(hk)
  PROVE  Carried(r, hk) /\ r.pc = "run" /\ r.defers = hk.defers
BY NoneIsChain DEF Returned, HookType, Carried

\* A handler that defers its event.
LEMMA DeferredIs ==
  ASSUME NEW hk \in HookType, hk.cur \in Handlers, NEW r, r = Deferred(hk)
  PROVE  Carried(r, hk) /\ r.pc = "run" /\ r.defers = hk.defers \cup {hk.cur}
<1> DEFINE d == [hk EXCEPT !.defers = @ \cup {hk.cur}]
<1>1. d \in HookType /\ d.defers = hk.defers \cup {hk.cur} /\ d.event = hk.event
      /\ d.password = hk.password /\ d.again = hk.again /\ d.todo = hk.todo
  BY DEF HookType
<1>2. r = Returned(d)  BY DEF Deferred
<1> HIDE DEF d
<1>3. Carried(r, d) /\ r.pc = "run" /\ r.defers = d.defers  BY <1>1, <1>2, ReturnedIs
<1> QED  BY <1>1, <1>3 DEF Carried

\* A handler that calls ensure_certificates_imported.
LEMMA ImportingIs ==
  ASSUME NEW hk \in HookType, NEW p \in Prefixes, NEW c \in Chains,
         NEW s \in {"withdraw", "import"}, NEW r, r = Importing(hk, p, c, s)
  PROVE  /\ Carried(r, hk) /\ r.pc = "password" /\ r.defers = hk.defers /\ r.cur = hk.cur
         /\ r.prefix = p /\ r.certs = c /\ r.stage = s
BY DEF Importing, HookType, Carried

\* A handler that goes on to PolarisManager.update.
LEMMA UpdatingIs ==
  ASSUME NEW hk \in HookType, NEW b \in BOOLEAN, NEW r,
         r = [hk EXCEPT !.pc = "update", !.force = b]
  PROVE  Carried(r, hk) /\ r.pc = "update" /\ r.defers = hk.defers /\ r.cur = hk.cur
         /\ r.force = b
BY DEF HookType, Carried

\* A step within ensure_certificates_imported.
LEMMA StepIs ==
  ASSUME NEW hk \in HookType, NEW c \in Importings, NEW b \in BOOLEAN, NEW r,
         r = [hk EXCEPT !.pc = c, !.force = b]
  PROVE  /\ Carried(r, hk) /\ r.pc = c /\ r.defers = hk.defers /\ r.cur = hk.cur
         /\ r.prefix = hk.prefix /\ r.certs = hk.certs /\ r.stage = hk.stage /\ r.force = b
BY DEF HookType, Carried, Importings

\* The hook of an event starts with what was deferred.
LEMMA NewHookIs ==
  ASSUME TypeOK, NEW event \in Events, NEW r, r = NewHook(event)
  PROVE  /\ r \in HookType /\ r.pc = "run" /\ r.event = event /\ r.again = deferred
         /\ Range(r.todo) = Runs(event) /\ r.defers = {} /\ r.password = password
<1>1. HandlersOf(event) \in Seq(Handlers)  BY RunsOf
<1>2. IdleHook \in HookType /\ IdleHook.defers = {}
  BY NoneIsChain DEF IdleHook, HookType
<1>3. deferred \in SUBSET Handlers /\ password \in RandomPasswords \cup {None}  BY DEF TypeOK
<1>4. r \in HookType /\ r.pc = "run" /\ r.event = event /\ r.again = deferred
      /\ r.todo = HandlersOf(event) /\ r.defers = {} /\ r.password = password
  BY <1>1, <1>2, <1>3 DEF NewHook, HookType
<1> QED  BY <1>4 DEF Runs

\* A hook that failed keeps its event.
LEMMA FailedHookIs ==
  ASSUME NEW event \in Events \cup {None}, NEW r, r = FailedHook(event)
  PROVE  r \in HookType /\ r.pc = "error" /\ r.event = event
<1>1. IdleHook \in HookType  BY NoneIsChain DEF IdleHook, HookType
<1> QED  BY <1>1 DEF FailedHook, HookType

\* Between hooks nothing is carried.
LEMMA IdleHookIs ==
  IdleHook \in HookType /\ IdleHook.pc = "idle" /\ IdleHook.event = None
BY NoneIsChain DEF IdleHook, HookType

\* The handler h is taken from those still to run.
Taken(hk, h) ==
  /\ hk \in HookType /\ hk.cur = h /\ hk.event = hook.event /\ hk.password = hook.password
  /\ hk.defers = hook.defers
  /\ hk.again \subseteq hook.again /\ Range(hk.todo) \subseteq Range(hook.todo)
  /\ hook.again \cup Range(hook.todo) = {h} \cup hk.again \cup Range(hk.todo)

\* Where the handler h goes from there.
DefersFirst(hk, h) ==
  ~reach /\ Carried(hook', hk) /\ hook'.pc = "run" /\ hook'.defers = hk.defers \cup {h}

Skips(hk, h) ==
  /\ h = "s3" /\ reach /\ storage = None
  /\ Carried(hook', hk) /\ hook'.pc = "run" /\ hook'.defers = hk.defers

Imports(hk, h, p, c, s) ==
  /\ Carried(hook', hk) /\ hook'.pc = "password" /\ hook'.defers = hk.defers
  /\ hook'.cur = h /\ hook'.prefix = p /\ hook'.certs = c /\ hook'.stage = s

Updates(hk, h) ==
  /\ h = "polaris" /\ reach
  /\ Carried(hook', hk) /\ hook'.pc = "update" /\ hook'.defers = hk.defers /\ hook'.cur = h

Entered(hk, h) ==
  \/ DefersFirst(hk, h)
  \/ Skips(hk, h)
  \/ /\ h = "s3" /\ reach /\ storage # None
     /\ Imports(hk, h, "object-storage-ca", offered["object-storage-ca"], "import")
  \/ h = "gone" /\ Imports(hk, h, "object-storage-ca", <<>>, "withdraw")
  \/ /\ h = "certs" /\ reach
     /\ Imports(hk, h, "additional-ca", offered["additional-ca"], "import")
  \/ Updates(hk, h)

\* Begin takes one handler, which defers, returns, or starts an import or an update.
LEMMA BeginIs ==
  ASSUME TypeOK, Control, Begin
  PROVE  \E h \in Handlers, hk \in HookType : h \in Charges /\ Taken(hk, h) /\ Entered(hk, h)
<1> DEFINE Choice == IF hook.again # {} THEN hook.again
                     ELSE IF hook.todo # <<>> THEN {Head(hook.todo)} ELSE {}
           Took(h) == IF hook.again # {}
                      THEN [hook EXCEPT !.cur = h, !.again = @ \ {h}]
                      ELSE [hook EXCEPT !.cur = h, !.todo = Tail(@)]
<1>1. PICK h \in Choice :
        hook' = CASE h = "s3" -> S3Entry(Took(h))
                  [] h = "gone" -> Importing(Took(h), "object-storage-ca", <<>>, "withdraw")
                  [] h = "certs" ->
                       IF reach THEN Importing(Took(h), "additional-ca",
                                               offered["additional-ca"], "import")
                                ELSE Deferred(Took(h))
                  [] h = "polaris" -> IF reach THEN [Took(h) EXCEPT !.pc = "update"]
                                               ELSE Deferred(Took(h))
  BY DEF Begin
<1> DEFINE hk == Took(h)
<1>2. hook \in HookType /\ hook.pc = "run" /\ InHook  BY DEF TypeOK, Begin, InHook
<1>3. hook.todo \in Seq(Handlers) /\ hook.again \in SUBSET Handlers  BY <1>2 DEF HookType
<1>4. h \in Handlers /\ h \in Charges /\ Taken(hk, h)
  <2>1. CASE hook.again # {}
    <3>1. h \in hook.again  BY <2>1
    <3>2. hk = [hook EXCEPT !.cur = h, !.again = @ \ {h}]  BY <2>1
    <3>3. hk \in HookType /\ hk.cur = h /\ hk.event = hook.event /\ hk.todo = hook.todo
          /\ hk.password = hook.password /\ hk.defers = hook.defers
          /\ hk.again = hook.again \ {h}
      BY <1>2, <1>3, <3>1, <3>2 DEF HookType
    <3> HIDE DEF Took
    <3> QED  BY <1>2, <1>3, <3>1, <3>3 DEF Taken, Control, Context, Charges
  <2>2. CASE hook.again = {}
    <3>1. hook.todo # <<>> /\ h = Head(hook.todo)  BY <2>2
    <3>2. hk = [hook EXCEPT !.cur = h, !.todo = Tail(@)]  BY <2>2
    <3>3. h \in Range(hook.todo) /\ Tail(hook.todo) \in Seq(Handlers)
          /\ Range(hook.todo) = {h} \cup Range(Tail(hook.todo))
      BY <1>3, <3>1, TailRange
    <3>4. h \in Handlers  BY <1>3, <3>1
    <3>5. hk \in HookType /\ hk.cur = h /\ hk.event = hook.event /\ hk.todo = Tail(hook.todo)
          /\ hk.password = hook.password /\ hk.defers = hook.defers /\ hk.again = hook.again
      BY <1>2, <3>2, <3>3, <3>4 DEF HookType
    <3>6. h \in Charges  BY <1>2, <3>3 DEF Control, Context, Charges
    <3> HIDE DEF Took
    <3> QED  BY <2>2, <3>3, <3>4, <3>5, <3>6 DEF Taken
  <2> QED  BY <2>1, <2>2
<1> HIDE DEF Took
<1>5. hk \in HookType /\ hk.cur = h  BY <1>4 DEF Taken
<1> SUFFICES Entered(hk, h)  BY <1>4, <1>5
<1>6. offered["object-storage-ca"] \in Chains /\ offered["additional-ca"] \in Chains
  BY DEF TypeOK, Prefixes
<1>7. ~reach /\ h # "gone" => DefersFirst(hk, h)
  <2> SUFFICES ASSUME ~reach, h # "gone"  PROVE DefersFirst(hk, h)  OBVIOUS
  <2>1. hook' = Deferred(hk)  BY <1>1, <1>4 DEF Handlers, S3Entry
  <2> QED  BY <1>4, <1>5, <2>1, DeferredIs DEF DefersFirst
<1>8. CASE h = "s3"
  <2>1. hook' = S3Entry(hk)  BY <1>1, <1>8
  <2>2. CASE reach /\ storage = None
    <3>1. hook' = Returned(hk)  BY <2>1, <2>2 DEF S3Entry
    <3> QED  BY <1>4, <1>5, <1>8, <2>2, <3>1, ReturnedIs DEF Skips, Entered
  <2>3. CASE reach /\ storage # None
    <3>1. hook' = Importing(hk, "object-storage-ca", offered["object-storage-ca"], "import")
      BY <2>1, <2>3 DEF S3Entry
    <3>2. Imports(hk, h, "object-storage-ca", offered["object-storage-ca"], "import")
      BY <1>5, <1>6, <3>1, ImportingIs DEF Imports, Prefixes
    <3> QED  BY <1>4, <1>8, <2>3, <3>2 DEF Entered
  <2> QED  BY <1>4, <1>7, <1>8, <2>2, <2>3 DEF Entered
<1>9. CASE h = "gone"
  <2>1. hook' = Importing(hk, "object-storage-ca", <<>>, "withdraw")  BY <1>1, <1>9
  <2>2. Imports(hk, h, "object-storage-ca", <<>>, "withdraw")
    BY <1>5, <2>1, ImportingIs, NoneIsChain DEF Imports, Prefixes
  <2> QED  BY <1>4, <1>9, <2>2 DEF Entered
<1>10. CASE h = "certs" /\ reach
  <2>1. hook' = Importing(hk, "additional-ca", offered["additional-ca"], "import")
    BY <1>1, <1>10
  <2>2. Imports(hk, h, "additional-ca", offered["additional-ca"], "import")
    BY <1>5, <1>6, <2>1, ImportingIs DEF Imports, Prefixes
  <2> QED  BY <1>4, <1>10, <2>2 DEF Entered
<1>11. CASE h = "polaris" /\ reach
  <2>1. hook' = [hk EXCEPT !.pc = "update"]  BY <1>1, <1>11
  <2>2. Carried(hook', hk) /\ hook'.pc = "update" /\ hook'.defers = hk.defers
        /\ hook'.cur = hk.cur
    BY <1>5, <2>1 DEF HookType, Carried
  <2> QED  BY <1>4, <1>5, <1>11, <2>2 DEF Updates, Entered
<1> QED  BY <1>4, <1>7, <1>8, <1>9, <1>10, <1>11 DEF Handlers, Entered

\* ensure_certificates_imported returns to a handler that is done, or that updates.
LEMMA ImportedIs ==
  ASSUME WellFormed, hook.pc \in Importings, reach, NEW changed \in BOOLEAN,
         NEW r, r = Imported(hook, changed)
  PROVE  /\ Carried(r, hook) /\ r.defers = hook.defers
         /\ \/ hook.cur = "gone" /\ r.pc = "run"
            \/ /\ hook.cur # "gone" /\ r.pc = "update" /\ r.cur = hook.cur
               /\ r.force = changed
<1>1. hook \in HookType /\ InHook  BY DEF WellFormed, TypeOK, InHook, Importings
<1>2. CASE hook.stage = "withdraw"
  <2> DEFINE hk == [hook EXCEPT !.force = FALSE]
  <2>1. hook.cur = "gone"  BY <1>2 DEF WellFormed, Control, Call
  <2>2. storage = None
    <3>1. "gone" \in Charges  BY <1>1, <2>1 DEF WellFormed, Control, Context, Importings
    <3>2. hook.event \in Events /\ hook.pc # "idle"
      BY <1>1 DEF WellFormed, Control, Context, InHook
    <3> QED  BY <3>1, <3>2, RunsOf DEF WellFormed, Apart, Charges
  <2>3. hk \in HookType /\ Carried(hk, hook) /\ hk.defers = hook.defers
    BY <1>1 DEF HookType, Carried
  <2>4. r = Returned(hk)  BY <1>2, <2>2 DEF Imported, S3Entry
  <2> HIDE DEF hk
  <2> QED  BY <2>1, <2>3, <2>4, ReturnedIs DEF Carried
<1>3. CASE hook.stage # "withdraw"
  <2>1. r = [hook EXCEPT !.pc = "update", !.force = changed]  BY <1>3 DEF Imported
  <2>2. hook.cur # "gone"  BY <1>3 DEF WellFormed, Control, Call
  <2>3. Carried(r, hook) /\ r.pc = "update" /\ r.defers = hook.defers /\ r.cur = hook.cur
        /\ r.force = changed
    BY <1>1, <2>1, UpdatingIs
  <2> QED  BY <2>2, <2>3
<1> QED  BY <1>2, <1>3

-------------------------------------------------------------------------------
(* Lemmas about the keystore                                                *)

\* keytool -delete takes away one alias.
LEMMA WithoutIs ==
  ASSUME NEW f \in Aliases, NEW i
  PROVE  /\ Without(f, i) \in Aliases /\ DOMAIN Without(f, i) = DOMAIN f \ {i}
         /\ \A j \in DOMAIN f \ {i} : Without(f, i)[j] = f[j]
<1>1. PICK S \in SUBSET (1..MaxChain) : f \in [S -> Certs]  BY DEF Aliases
<1>2. Without(f, i) \in [S \ {i} -> Certs] /\ S \ {i} \in SUBSET (1..MaxChain)
  BY <1>1 DEF Without
<1> QED  BY <1>1, <1>2 DEF Aliases, Without

\* keytool -import adds the next one of the chain.
LEMMA WithNextIs ==
  ASSUME NEW c \in Chains, NEW k \in 0..MaxChain, k < Len(c),
         NEW f, f = [j \in 1..k |-> c[j]]
  PROVE  /\ f \in Aliases /\ DOMAIN f = 1..k /\ Cardinality(DOMAIN f) + 1 = k + 1
         /\ WithAlias(f, k + 1, c[k + 1]) = [j \in 1..(k + 1) |-> c[j]]
         /\ [j \in 1..(k + 1) |-> c[j]] \in Aliases
         /\ k + 1 \in 0..MaxChain
         /\ k + 1 = Len(c) => [j \in 1..(k + 1) |-> c[j]] = c
<1>1. c \in [1..Len(c) -> Certs] /\ Len(c) \in 0..MaxChain /\ MaxChain \in Nat
  BY ChainIsSequence, TruststoreAssumption
<1>2. k \in Nat /\ k + 1 \in Nat /\ k + 1 \in 0..MaxChain /\ k + 1 \in 1..Len(c)  BY <1>1
<1>3. DOMAIN f = 1..k /\ f \in [1..k -> Certs] /\ 1..k \subseteq 1..MaxChain  BY <1>1, <1>2
<1>4. f \in Aliases  BY <1>3 DEF Aliases
<1>5. Cardinality(1..k) = k
  <2>1. 1 \in Int /\ k \in Int  BY <1>2
  <2>2. Cardinality(1..k) = IF 1 > k THEN 0 ELSE k - 1 + 1  BY <2>1, FS_Interval
  <2> QED  BY <1>2, <2>2
<1>6. [j \in 1..(k + 1) |-> c[j]] \in [1..(k + 1) -> Certs] /\ 1..(k + 1) \subseteq 1..MaxChain
  BY <1>1, <1>2
<1>7. [j \in 1..(k + 1) |-> c[j]] \in Aliases  BY <1>6 DEF Aliases
<1>8. WithAlias(f, k + 1, c[k + 1]) = [j \in 1..(k + 1) |-> c[j]]
  <2>1. 1..(k + 1) = 1..k \cup {k + 1}  BY <1>2
  <2>2. WithAlias(f, k + 1, c[k + 1])
        = [j \in 1..k \cup {k + 1} |-> IF j = k + 1 THEN c[k + 1] ELSE f[j]]
    BY <1>3 DEF WithAlias
  <2>3. \A j \in 1..k \cup {k + 1} : (IF j = k + 1 THEN c[k + 1] ELSE f[j]) = c[j]
    BY <1>2
  <2> QED  BY <2>1, <2>2, <2>3
<1>9. k + 1 = Len(c) => [j \in 1..(k + 1) |-> c[j]] = c  BY <1>1
<1> QED  BY <1>2, <1>3, <1>4, <1>5, <1>7, <1>8, <1>9

\* The keystore s in which the aliases of the prefix p are now x.
Filed(s, p, x) == [s EXCEPT !.aliases = [@ EXCEPT ![p] = x]]

LEMMA FiledIs ==
  ASSUME NEW s \in Keystores, NEW p \in Prefixes, NEW x \in Aliases
  PROVE  /\ Filed(s, p, x) \in Keystores /\ Filed(s, p, x) # None
         /\ Filed(s, p, x).password = s.password
         /\ Filed(s, p, x).aliases[p] = x
         /\ \A q \in Prefixes \ {p} : Filed(s, p, x).aliases[q] = s.aliases[q]
<1> DEFINE r == Filed(s, p, x)
           a == [s.aliases EXCEPT ![p] = x]
<1>1. s.aliases \in [Prefixes -> Aliases]  BY DEF Keystores
<1>2. a \in [Prefixes -> Aliases] /\ a[p] = x
      /\ \A q \in Prefixes \ {p} : a[q] = s.aliases[q]
  BY <1>1
<1>3. r = [s EXCEPT !.aliases = a]  BY DEF Filed
<1> HIDE DEF a, r
<1>4. r \in Keystores /\ r.password = s.password /\ r.aliases = a
  BY <1>2, <1>3 DEF Keystores
<1>5. r # None  BY <1>4, AbsentAssumption
<1> QED  BY <1>2, <1>4, <1>5 DEF r

\* The copy of the JVM truststore has none of the aliases.
LEMMA CopyIs ==
  ASSUME NEW r, r = [password |-> DefaultPassword, aliases |-> NoAliases]
  PROVE  r \in Keystores /\ r # None /\ r.password = DefaultPassword /\ r.aliases = NoAliases
<1>1. NoAliases \in [Prefixes -> Aliases]  BY NoneIsChain DEF NoAliases
<1>2. r \in Keystores  BY <1>1 DEF Keystores
<1> QED  BY <1>2, AbsentAssumption

\* What the service would trust is a keystore's aliases.
LEMMA TrustedIs == ASSUME TypeOK  PROVE Trusted \in [Prefixes -> Aliases]
<1>1. NoAliases \in [Prefixes -> Aliases]  BY NoneIsChain DEF NoAliases
<1>2. store # None => store.aliases \in [Prefixes -> Aliases]  BY DEF TypeOK, Keystores
<1> QED  BY <1>1, <1>2 DEF Trusted

-------------------------------------------------------------------------------
(* Each step keeps the form of the state                                    *)

\* What is left of the hook is for the same event.
LEMMA ContextKept ==
  ASSUME WellFormed, InHook, hook' \in HookType, hook'.pc \notin {"idle", "error"},
         hook'.event = hook.event, hook'.again \subseteq hook.again,
         Range(hook'.todo) \subseteq Range(hook.todo), hook'.defers \subseteq Charges,
         hook'.pc # "run" => hook'.cur \in Charges,
         password # None => hook'.password = password,
         UNCHANGED <<password, deferred>>
  PROVE  Context'
<1>1. hook.event \in Events /\ hook.again \subseteq deferred
      /\ Range(hook.todo) \subseteq Runs(hook.event)
  BY DEF WellFormed, Control, Context, InHook
<1>2. Charges' = Charges  BY DEF Charges
<1>3. hook'.event \in Events  BY <1>1
<1>4. hook'.again \subseteq deferred' /\ Range(hook'.todo) \subseteq Runs(hook'.event)  BY <1>1
<1>5. password' # None => hook'.password = password'  OBVIOUS
<1> QED  BY <1>2, <1>3, <1>4, <1>5 DEF Context

\* A hook that fails leaves the disk and the databag as they are.
LEMMA FailKeepsForm ==
  ASSUME WellFormed, InHook, hook' = FailedHook(hook.event), faults' \subseteq Faults,
         UNCHANGED <<relations, password, notices, deferred, reach, disk, running, edits>>
  PROVE  WellFormed'
<1>1. hook.event \in Events  BY DEF WellFormed, Control, Context, InHook
<1>2. hook' \in HookType /\ hook'.pc = "error" /\ hook'.event = hook.event
  BY <1>1, FailedHookIs
<1>3. TypeOK'  BY <1>2 DEF WellFormed, TypeOK, relations, disk
<1>4. Control'
  BY <1>1, <1>2 DEF Control, Context, Call, Position, InHook, Importings
<1>5. Apart'  BY <1>2 DEF WellFormed, Apart, relations, disk, InHook
<1> QED  BY <1>3, <1>4, <1>5 DEF WellFormed

\* Steps that leave hook, disk, password and deferred handlers alone.
LEMMA ControlKept ==
  ASSUME Control, UNCHANGED <<hook, deferred, password, reach, disk>>
  PROVE  Control'
<1>1. Context'  BY DEF Control, Context, InHook, Charges
<1>2. Call'  BY DEF Control, Call
<1>3. CurrentAliases' = CurrentAliases  BY DEF CurrentAliases, disk
<1>4. Position'  BY <1>3 DEF Control, Position, disk
<1> QED  BY <1>1, <1>2, <1>4 DEF Control

LEMMA BeginKeepsForm == ASSUME WellFormed, Begin  PROVE WellFormed'
<1> USE DEF WellFormed
<1>1. hook.pc = "run" /\ InHook /\ UNCHANGED <<relations, password, notices, deferred,
                                              reach, disk, running, edits, faults>>
  BY DEF Begin, InHook
<1>2. PICK h \in Handlers, hk \in HookType : h \in Charges /\ Taken(hk, h) /\ Entered(hk, h)
  BY BeginIs
<1>3. hook' \in HookType /\ hook'.event = hook.event /\ hook'.again \subseteq hook.again
      /\ Range(hook'.todo) \subseteq Range(hook.todo) /\ hook'.password = hook.password
  BY <1>2 DEF Taken, Entered, DefersFirst, Skips, Imports, Updates, Carried
<1>4. /\ hook'.pc \in {"run", "password", "update"}
      /\ hook'.defers \subseteq hook.defers \cup {h}
      /\ hook'.pc # "run" => hook'.cur = h
  BY <1>2 DEF Taken, Entered, DefersFirst, Skips, Imports, Updates
<1>5. TypeOK'  BY <1>1, <1>3 DEF TypeOK, relations, disk
<1>6. Context'
  <2>1. hook.defers \subseteq Charges /\ (password # None => hook.password = password)
    BY <1>1 DEF Control, Context
  <2> QED  BY <1>1, <1>2, <1>3, <1>4, <2>1, ContextKept
<1>7. Call'
  <2> SUFFICES ASSUME hook'.pc \in Importings  PROVE Call'  BY DEF Call
  <2>1. hook'.pc = "password"  BY <1>4 DEF Importings
  <2>2. \/ Imports(hk, h, "object-storage-ca", offered["object-storage-ca"], "import") /\ h = "s3"
        \/ Imports(hk, h, "object-storage-ca", <<>>, "withdraw") /\ h = "gone"
        \/ Imports(hk, h, "additional-ca", offered["additional-ca"], "import") /\ h = "certs"
    BY <1>2, <2>1 DEF Entered, DefersFirst, Skips, Updates
  <2> QED  BY <2>2 DEF Call, Imports, Prefixes
<1>8. Position'  BY <1>4 DEF Position, Importings
<1>9. Apart'  BY <1>1, <1>3, <1>4 DEF Apart, relations, disk
<1> QED  BY <1>5, <1>6, <1>7, <1>8, <1>9 DEF Control

LEMMA CreateStoreKeepsForm == ASSUME WellFormed, CreateStore  PROVE WellFormed'
<1> USE DEF WellFormed
<1>1. hook.pc = "password" /\ reach /\ InHook /\ hook \in HookType
      /\ UNCHANGED <<relations, password, notices, deferred, reach, chain, file, running,
                     edits, faults>>
  BY DEF CreateStore, InHook, TypeOK
<1>2. PICK p \in IF hook.password = None THEN RandomPasswords ELSE {hook.password} :
        hook' = [hook EXCEPT !.password = p,
                             !.pc = IF store = None THEN "storepasswd" ELSE "open"]
  BY DEF CreateStore
<1>3. p \in RandomPasswords /\ p # None /\ (hook.password # None => p = hook.password)
  BY <1>1, TruststoreAssumption DEF HookType
<1>4. /\ hook' \in HookType /\ hook'.password = p /\ hook'.pc \in {"storepasswd", "open"}
      /\ hook'.event = hook.event /\ hook'.again = hook.again /\ hook'.todo = hook.todo
      /\ hook'.defers = hook.defers /\ hook'.cur = hook.cur /\ hook'.prefix = hook.prefix
      /\ hook'.stage = hook.stage /\ hook'.certs = hook.certs
  BY <1>1, <1>2, <1>3 DEF HookType
<1>5. store' \in Keystores /\ store' # None
  <2>1. CASE store = None
    <3>1. store' = [password |-> DefaultPassword, aliases |-> NoAliases]
      BY <2>1 DEF CreateStore
    <3> QED  BY <3>1, CopyIs
  <2>2. CASE store # None
    <3>1. store' = store  BY <2>2 DEF CreateStore
    <3> QED  BY <2>2, <3>1 DEF TypeOK
  <2> QED  BY <2>1, <2>2
<1>6. TypeOK'  BY <1>1, <1>4, <1>5 DEF TypeOK, relations
<1>7. Context'
  <2>1. hook.defers \subseteq Charges /\ hook.cur \in Charges
        /\ (password # None => hook.password = password)
    BY <1>1 DEF Control, Context
  <2>2. password # None => hook'.password = password  BY <1>3, <1>4, <2>1
  <2> QED  BY <1>1, <1>4, <2>1, <2>2, ContextKept
<1>8. Call'  BY <1>1, <1>4 DEF Control, Call, Importings
<1>9. Position'  BY <1>3, <1>4, <1>5 DEF Position
<1>10. Apart'  BY <1>1, <1>4, <1>5 DEF Apart, relations
<1> QED  BY <1>6, <1>7, <1>8, <1>9, <1>10 DEF Control

LEMMA SetStorePasswordKeepsForm == ASSUME WellFormed, SetStorePassword  PROVE WellFormed'
<1> USE DEF WellFormed
<1>1. hook.pc = "storepasswd" /\ reach /\ InHook /\ hook \in HookType
      /\ hook' = [hook EXCEPT !.pc = "open"]
      /\ store' = [store EXCEPT !.password = hook.password]
      /\ UNCHANGED <<relations, password, notices, deferred, reach, chain, file, running,
                     edits, faults>>
  BY DEF SetStorePassword, InHook, TypeOK
<1>2. store # None /\ hook.password # None
  BY <1>1 DEF Control, Position, Importings
<1>3. store' \in Keystores /\ store' # None
  <2>1. store \in Keystores /\ hook.password \in RandomPasswords
    BY <1>1, <1>2 DEF TypeOK, HookType
  <2>2. store' \in Keystores  BY <1>1, <2>1 DEF Keystores
  <2> QED  BY <2>2, AbsentAssumption
<1>4. /\ hook' \in HookType /\ hook'.password = hook.password /\ hook'.pc = "open"
      /\ hook'.event = hook.event /\ hook'.again = hook.again /\ hook'.todo = hook.todo
      /\ hook'.defers = hook.defers /\ hook'.cur = hook.cur /\ hook'.prefix = hook.prefix
      /\ hook'.stage = hook.stage /\ hook'.certs = hook.certs
  BY <1>1 DEF HookType
<1>5. TypeOK'  BY <1>1, <1>3, <1>4 DEF TypeOK, relations
<1>6. Context'
  <2>1. hook.defers \subseteq Charges /\ hook.cur \in Charges
        /\ (password # None => hook.password = password)
    BY <1>1 DEF Control, Context
  <2> QED  BY <1>1, <1>4, <2>1, ContextKept
<1>7. Call'  BY <1>1, <1>4 DEF Control, Call, Importings
<1>8. Position'  BY <1>2, <1>3, <1>4 DEF Position
<1>9. Apart'  BY <1>1, <1>3, <1>4 DEF Apart, relations
<1> QED  BY <1>5, <1>6, <1>7, <1>8, <1>9 DEF Control

\* What OpenStore leaves: an import to clear, an import to do again, or nothing to do.
LEMMA OpenStoreIs ==
  ASSUME WellFormed, OpenStore
  PROVE  /\ hook.pc = "open" /\ reach /\ InHook /\ store # None
         /\ store.password = hook.password
         /\ \/ /\ hook.certs = <<>> /\ chain' = chain
               /\ Carried(hook', hook) /\ hook'.pc = "clear" /\ hook'.defers = hook.defers
               /\ hook'.cur = hook.cur /\ hook'.prefix = hook.prefix
               /\ hook'.certs = hook.certs /\ hook'.stage = hook.stage
            \/ /\ hook.certs # <<>> /\ chain' = [chain EXCEPT ![hook.prefix] = hook.certs]
               /\ Carried(hook', hook) /\ hook'.pc = "delete" /\ hook'.defers = hook.defers
               /\ hook'.cur = hook.cur /\ hook'.prefix = hook.prefix
               /\ hook'.certs = hook.certs /\ hook'.stage = hook.stage
            \/ /\ hook.certs # <<>> /\ chain[hook.prefix] = hook.certs /\ chain' = chain
               /\ DOMAIN CurrentAliases = 1..Len(hook.certs)
               /\ Carried(hook', hook) /\ hook'.pc = "update" /\ hook'.defers = hook.defers
               /\ hook'.cur = hook.cur /\ hook.cur # "gone"
<1> USE DEF WellFormed
<1>1. hook.pc = "open" /\ reach /\ InHook /\ hook \in HookType
      /\ store.password = hook.password
  BY DEF OpenStore, InHook, TypeOK
<1>2. store # None  BY <1>1 DEF Control, Position, Importings
<1>3. chain \in [Prefixes -> Chains \cup {None}] /\ hook.prefix \in Prefixes
  BY <1>1 DEF TypeOK, Control, Call, Importings
<1>4. CASE hook.certs = <<>>
  <2>1. hook' = [hook EXCEPT !.pc = "clear"] /\ chain' = chain  BY <1>4 DEF OpenStore
  <2>2. Carried(hook', hook) /\ hook'.pc = "clear" /\ hook'.defers = hook.defers
        /\ hook'.cur = hook.cur /\ hook'.prefix = hook.prefix
        /\ hook'.certs = hook.certs /\ hook'.stage = hook.stage
    BY <1>1, <2>1 DEF HookType, Carried
  <2> QED  BY <1>1, <1>2, <1>4, <2>1, <2>2
<1>5. CASE hook.certs # <<>> /\ UpToDate(chain[hook.prefix] # hook.certs)
  <2>1. hook' = Imported(hook, FALSE) /\ chain' = [chain EXCEPT ![hook.prefix] = hook.certs]
    BY <1>5 DEF OpenStore
  <2>2. chain[hook.prefix] = hook.certs /\ DOMAIN CurrentAliases = 1..Len(hook.certs)
    BY <1>5 DEF UpToDate
  <2>3. chain' = chain  BY <1>3, <2>1, <2>2
  <2>4. hook.pc \in Importings  BY <1>1 DEF Importings
  <2>5. Carried(hook', hook) /\ hook'.defers = hook.defers
        /\ (hook.cur # "gone" => hook'.pc = "update" /\ hook'.cur = hook.cur)
    BY <1>1, <2>1, <2>4, ImportedIs
  <2>6. hook.cur # "gone"  BY <1>5, <2>4 DEF Control, Call
  <2> QED  BY <1>1, <1>2, <1>5, <2>2, <2>3, <2>5, <2>6
<1>6. CASE hook.certs # <<>> /\ ~UpToDate(chain[hook.prefix] # hook.certs)
  <2>1. hook' = [hook EXCEPT !.pc = "delete"]
        /\ chain' = [chain EXCEPT ![hook.prefix] = hook.certs]
    BY <1>6 DEF OpenStore
  <2>2. Carried(hook', hook) /\ hook'.pc = "delete" /\ hook'.defers = hook.defers
        /\ hook'.cur = hook.cur /\ hook'.prefix = hook.prefix
        /\ hook'.certs = hook.certs /\ hook'.stage = hook.stage
    BY <1>1, <2>1 DEF HookType, Carried
  <2> QED  BY <1>1, <1>2, <1>6, <2>1, <2>2
<1> QED  BY <1>4, <1>5, <1>6

LEMMA OpenStoreKeepsForm == ASSUME WellFormed, OpenStore  PROVE WellFormed'
<1> USE DEF WellFormed
<1>1. hook.pc = "open" /\ reach /\ InHook /\ store # None
  BY OpenStoreIs
<1>2. /\ Carried(hook', hook) /\ hook'.defers = hook.defers /\ hook'.cur = hook.cur
      /\ hook'.pc \in {"clear", "delete", "update"}
      /\ chain' = chain \/ chain' = [chain EXCEPT ![hook.prefix] = hook.certs]
  BY OpenStoreIs
<1>3. /\ hook'.pc \in Importings => hook'.prefix = hook.prefix /\ hook'.stage = hook.stage
                                     /\ hook'.certs = hook.certs
      /\ hook'.pc = "clear" => hook.certs = <<>>
      /\ hook'.pc = "delete" => hook.certs # <<>>
                                /\ chain' = [chain EXCEPT ![hook.prefix] = hook.certs]
  BY OpenStoreIs DEF Importings
<1>4. UNCHANGED <<relations, password, notices, deferred, reach, store, file, running,
                  edits, faults>>
  BY DEF OpenStore
<1>5. hook.prefix \in Prefixes /\ hook.certs \in Chains /\ hook.pc \in Importings
      /\ hook.password # None
  BY <1>1 DEF TypeOK, HookType, Control, Call, Position, Importings
<1>6. chain \in [Prefixes -> Chains \cup {None}]  BY DEF TypeOK
<1>7. TypeOK'  BY <1>2, <1>4, <1>5 DEF TypeOK, relations, Carried
<1>8. Context'
  <2>1. hook.defers \subseteq Charges /\ hook.cur \in Charges
        /\ (password # None => hook.password = password)
    BY <1>1 DEF Control, Context
  <2> QED  BY <1>1, <1>2, <1>4, <2>1, ContextKept DEF Carried
<1>9. Call'  BY <1>2, <1>3, <1>5 DEF Control, Call
<1>10. Position'  BY <1>1, <1>2, <1>3, <1>4, <1>5, <1>6 DEF Position, Importings, Carried
<1>11. Apart'  BY <1>1, <1>2, <1>4 DEF Apart, relations, Carried, InHook
<1> QED  BY <1>7, <1>8, <1>9, <1>10, <1>11 DEF Control

\* What DeleteAlias leaves of the keystore and the hook.
LEMMA DeleteAliasIs ==
  ASSUME WellFormed, DeleteAlias
  PROVE  /\ hook.pc \in {"clear", "delete"} /\ reach /\ InHook /\ store # None
         /\ store' \in Keystores /\ store' # None /\ store'.password = store.password
         /\ DOMAIN store'.aliases[hook.prefix] # DOMAIN CurrentAliases
         /\ \A q \in Prefixes \ {hook.prefix} : store'.aliases[q] = store.aliases[q]
         /\ Carried(hook', hook) /\ hook'.pc = hook.pc /\ hook'.defers = hook.defers
         /\ hook'.cur = hook.cur /\ hook'.prefix = hook.prefix /\ hook'.certs = hook.certs
         /\ hook'.stage = hook.stage /\ hook'.force = TRUE
<1> USE DEF WellFormed
<1>1. hook.pc \in {"clear", "delete"} /\ reach /\ InHook /\ hook \in HookType
      /\ hook.pc \in Importings
  BY DEF DeleteAlias, InHook, TypeOK, Importings
<1>2. store # None /\ store \in Keystores /\ hook.prefix \in Prefixes
  BY <1>1 DEF TypeOK, Control, Call, Position, Importings
<1>3. CurrentAliases \in Aliases  BY <1>2 DEF CurrentAliases, Keystores
<1>4. PICK i \in DOMAIN CurrentAliases :
        store' = [store EXCEPT !.aliases[hook.prefix] = Without(CurrentAliases, i)]
  BY DEF DeleteAlias, CurrentAliases
<1>5. Without(CurrentAliases, i) \in Aliases
      /\ DOMAIN Without(CurrentAliases, i) = DOMAIN CurrentAliases \ {i}
  BY <1>3, WithoutIs
<1> DEFINE w == Without(CurrentAliases, i)
<1>w. w \in Aliases /\ DOMAIN w = DOMAIN CurrentAliases \ {i}  BY <1>5
<1>e. store' = [store EXCEPT !.aliases[hook.prefix] = w]  BY <1>4
<1> HIDE DEF w
<1>6. store' \in Keystores /\ store' # None /\ store'.password = store.password
      /\ store'.aliases[hook.prefix] = w
      /\ \A q \in Prefixes \ {hook.prefix} : store'.aliases[q] = store.aliases[q]
  <2>1. store' = Filed(store, hook.prefix, w)  BY <1>e DEF Filed
  <2> QED  BY <1>2, <1>w, <2>1, FiledIs
<1>7. hook' = [hook EXCEPT !.force = TRUE]  BY DEF DeleteAlias
<1>8. Carried(hook', hook) /\ hook'.pc = hook.pc /\ hook'.defers = hook.defers
      /\ hook'.cur = hook.cur /\ hook'.prefix = hook.prefix /\ hook'.certs = hook.certs
      /\ hook'.stage = hook.stage /\ hook'.force = TRUE
  BY <1>1, <1>7 DEF HookType, Carried
<1>9. DOMAIN store'.aliases[hook.prefix] # DOMAIN CurrentAliases  BY <1>4, <1>w, <1>6
<1> QED  BY <1>1, <1>2, <1>6, <1>8, <1>9

LEMMA DeleteAliasKeepsForm == ASSUME WellFormed, DeleteAlias  PROVE WellFormed'
<1> USE DEF WellFormed
<1>1. hook.pc \in {"clear", "delete"} /\ reach /\ InHook /\ store # None
      /\ store' \in Keystores /\ store' # None
  BY DeleteAliasIs
<1>2. Carried(hook', hook) /\ hook'.pc = hook.pc /\ hook'.defers = hook.defers
      /\ hook'.cur = hook.cur /\ hook'.prefix = hook.prefix /\ hook'.certs = hook.certs
      /\ hook'.stage = hook.stage
  BY DeleteAliasIs
<1>3. UNCHANGED <<relations, password, notices, deferred, reach, chain, file, running,
                  edits, faults>>
  BY DEF DeleteAlias
<1>4. TypeOK'  BY <1>1, <1>2, <1>3 DEF TypeOK, relations, Carried
<1>5. Context'
  <2>1. hook.defers \subseteq Charges /\ hook.cur \in Charges
        /\ (password # None => hook.password = password)
    BY <1>1 DEF Control, Context
  <2> QED  BY <1>1, <1>2, <1>3, <2>1, ContextKept DEF Carried
<1>6. Call'  BY <1>2 DEF Control, Call
<1>7. Position'  BY <1>1, <1>2, <1>3 DEF Control, Position, Importings, Carried
<1>8. Apart'  BY <1>1, <1>2, <1>3 DEF Apart, relations, Carried, InHook
<1> QED  BY <1>4, <1>5, <1>6, <1>7, <1>8 DEF Control

\* What ClearChain leaves: no chain file, and a handler that returns or updates.
LEMMA ClearChainIs ==
  ASSUME WellFormed, ClearChain
  PROVE  /\ hook.pc = "clear" /\ reach /\ InHook /\ store # None /\ hook.prefix \in Prefixes
         /\ CurrentAliases = <<>> /\ chain' = [chain EXCEPT ![hook.prefix] = None]
         /\ Carried(hook', hook) /\ hook'.defers = hook.defers
         /\ \/ hook.cur = "gone" /\ hook'.pc = "run"
            \/ /\ hook.cur # "gone" /\ hook'.pc = "update" /\ hook'.cur = hook.cur
               /\ hook'.force = (hook.force \/ chain[hook.prefix] # None)
<1> USE DEF WellFormed
<1>1. hook.pc = "clear" /\ reach /\ InHook /\ hook \in HookType /\ hook.pc \in Importings
  BY DEF ClearChain, InHook, TypeOK, Importings
<1>2. store # None /\ store \in Keystores /\ hook.prefix \in Prefixes
  BY <1>1 DEF TypeOK, Control, Call, Position, Importings
<1>3. CurrentAliases = <<>>
  <2>1. CurrentAliases \in Aliases  BY <1>2 DEF CurrentAliases, Keystores
  <2> QED  BY <2>1, NoAliasLeft DEF ClearChain
<1> DEFINE changed == hook.force \/ chain[hook.prefix] # None
<1>4. hook' = Imported(hook, changed)  BY DEF ClearChain
<1>5. changed \in BOOLEAN  OBVIOUS
<1> HIDE DEF changed
<1>6. /\ Carried(hook', hook) /\ hook'.defers = hook.defers
      /\ \/ hook.cur = "gone" /\ hook'.pc = "run"
         \/ /\ hook.cur # "gone" /\ hook'.pc = "update" /\ hook'.cur = hook.cur
            /\ hook'.force = changed
  BY <1>1, <1>4, <1>5, ImportedIs
<1>7. chain' = [chain EXCEPT ![hook.prefix] = None]  BY DEF ClearChain
<1> QED  BY <1>1, <1>2, <1>3, <1>6, <1>7 DEF changed

LEMMA ClearChainKeepsForm == ASSUME WellFormed, ClearChain  PROVE WellFormed'
<1> USE DEF WellFormed
<1>1. hook.pc = "clear" /\ reach /\ InHook /\ store # None /\ hook.prefix \in Prefixes
      /\ chain' = [chain EXCEPT ![hook.prefix] = None]
      /\ Carried(hook', hook) /\ hook'.defers = hook.defers
      /\ hook'.pc \in {"run", "update"} /\ (hook'.pc # "run" => hook'.cur = hook.cur)
  BY ClearChainIs
<1>2. UNCHANGED <<relations, password, notices, deferred, reach, store, file, running,
                  edits, faults>>
  BY DEF ClearChain
<1>3. TypeOK'  BY <1>1, <1>2 DEF TypeOK, relations, Carried
<1>4. Context'
  <2>1. hook.defers \subseteq Charges /\ hook.cur \in Charges
        /\ (password # None => hook.password = password)
    BY <1>1 DEF Control, Context
  <2> QED  BY <1>1, <1>2, <2>1, ContextKept DEF Carried
<1>5. Call' /\ Position'  BY <1>1 DEF Call, Position, Importings
<1>6. Apart'  BY <1>1, <1>2 DEF Apart, relations, Carried, InHook
<1> QED  BY <1>3, <1>4, <1>5, <1>6 DEF Control

\* StartImport only moves the hook on.
LEMMA StartImportIs ==
  ASSUME WellFormed, StartImport
  PROVE  /\ hook.pc = "delete" /\ reach /\ InHook /\ store # None /\ CurrentAliases = <<>>
         /\ Carried(hook', hook) /\ hook'.pc = "import" /\ hook'.defers = hook.defers
         /\ hook'.cur = hook.cur /\ hook'.prefix = hook.prefix /\ hook'.certs = hook.certs
         /\ hook'.stage = hook.stage
<1> USE DEF WellFormed
<1>1. hook.pc = "delete" /\ reach /\ InHook /\ hook \in HookType /\ hook.pc \in Importings
      /\ hook' = [hook EXCEPT !.pc = "import"]
  BY DEF StartImport, InHook, TypeOK, Importings
<1>2. store # None /\ store \in Keystores /\ hook.prefix \in Prefixes
  BY <1>1 DEF TypeOK, Control, Call, Position, Importings
<1>3. CurrentAliases = <<>>
  <2>1. CurrentAliases \in Aliases  BY <1>2 DEF CurrentAliases, Keystores
  <2> QED  BY <2>1, NoAliasLeft DEF StartImport
<1>4. Carried(hook', hook) /\ hook'.pc = "import" /\ hook'.defers = hook.defers
      /\ hook'.cur = hook.cur /\ hook'.prefix = hook.prefix /\ hook'.certs = hook.certs
      /\ hook'.stage = hook.stage
  BY <1>1 DEF HookType, Carried
<1> QED  BY <1>1, <1>2, <1>3, <1>4

LEMMA StartImportKeepsForm == ASSUME WellFormed, StartImport  PROVE WellFormed'
<1> USE DEF WellFormed
<1>1. hook.pc = "delete" /\ reach /\ InHook /\ store # None /\ CurrentAliases = <<>>
      /\ Carried(hook', hook) /\ hook'.pc = "import" /\ hook'.defers = hook.defers
      /\ hook'.cur = hook.cur /\ hook'.prefix = hook.prefix /\ hook'.certs = hook.certs
      /\ hook'.stage = hook.stage
  BY StartImportIs
<1>2. UNCHANGED <<relations, password, notices, deferred, reach, disk, running, edits,
                  faults>>
  BY DEF StartImport
<1>3. TypeOK'  BY <1>1, <1>2 DEF TypeOK, relations, disk, Carried
<1>4. Context'
  <2>1. hook.defers \subseteq Charges /\ hook.cur \in Charges
        /\ (password # None => hook.password = password)
    BY <1>1 DEF Control, Context
  <2> QED  BY <1>1, <1>2, <2>1, ContextKept DEF Carried
<1>5. Call'  BY <1>1 DEF Control, Call, Importings
<1>6. Position'
  <2>1. hook.certs # <<>> /\ hook.certs \in Chains /\ chain[hook.prefix] = hook.certs
        /\ hook.password # None
    BY <1>1 DEF TypeOK, HookType, Control, Position, Importings
  <2>2. 0 \in 0..MaxChain /\ 0 < Len(hook.certs)
    BY <2>1, ChainIsSequence, TruststoreAssumption
  <2>3. CurrentAliases' = [j \in 1..0 |-> hook'.certs[j]]
    <3>1. CurrentAliases' = <<>>  BY <1>1, <1>2 DEF CurrentAliases, disk
    <3> QED  BY <3>1
  <2> QED  BY <1>1, <1>2, <2>1, <2>2, <2>3 DEF Position, Importings, Carried, disk
<1>7. Apart'  BY <1>1, <1>2 DEF Apart, relations, disk, Carried, InHook
<1> QED  BY <1>3, <1>4, <1>5, <1>6, <1>7 DEF Control

\* What ImportCertificate adds, and where the hook goes after the last one.
LEMMA ImportCertificateIs ==
  ASSUME WellFormed, ImportCertificate
  PROVE  /\ hook.pc = "import" /\ reach /\ InHook /\ hook.pc \in Importings
         /\ hook.prefix \in Prefixes /\ hook.certs \in Chains
         /\ store # None /\ store' \in Keystores /\ store' # None
         /\ store'.password = store.password
         /\ \A q \in Prefixes \ {hook.prefix} : store'.aliases[q] = store.aliases[q]
         /\ \E k \in 0..MaxChain :
              /\ k < Len(hook.certs) /\ k + 1 \in 0..MaxChain
              /\ store'.aliases[hook.prefix] = [j \in 1..(k + 1) |-> hook.certs[j]]
              /\ \/ /\ k + 1 = Len(hook.certs) /\ hook' = Imported(hook, TRUE)
                    /\ store'.aliases[hook.prefix] = hook.certs
                 \/ k + 1 # Len(hook.certs) /\ hook' = hook
<1> USE DEF WellFormed
<1>1. hook.pc = "import" /\ reach /\ InHook /\ hook \in HookType /\ hook.pc \in Importings
  BY DEF ImportCertificate, InHook, TypeOK, Importings
<1>2. store # None /\ store \in Keystores /\ hook.prefix \in Prefixes /\ hook.certs \in Chains
  BY <1>1 DEF TypeOK, HookType, Control, Call, Position, Importings
<1>3. PICK k \in 0..MaxChain : /\ k < Len(hook.certs)
                               /\ CurrentAliases = [j \in 1..k |-> hook.certs[j]]
  BY <1>1 DEF Control, Position
<1> DEFINE f == [j \in 1..k |-> hook.certs[j]]
           g == [j \in 1..(k + 1) |-> hook.certs[j]]
<1>4. /\ Cardinality(DOMAIN f) + 1 = k + 1 /\ k + 1 \in 0..MaxChain
      /\ WithAlias(f, k + 1, hook.certs[k + 1]) = g /\ g \in Aliases
      /\ k + 1 = Len(hook.certs) => g = hook.certs
  BY <1>2, <1>3, WithNextIs
<1>5. CurrentAliases = f  BY <1>3
<1> HIDE DEF f, g
<1>6. NextIndex = k + 1  BY <1>4, <1>5 DEF NextIndex
<1>7. store' = [store EXCEPT !.aliases[hook.prefix] = g]
  <2>1. store' = [store EXCEPT !.aliases[hook.prefix] =
                    WithAlias(CurrentAliases, NextIndex, hook.certs[NextIndex])]
    BY DEF ImportCertificate, CurrentAliases
  <2> QED  BY <1>4, <1>5, <1>6, <2>1
<1>8. store' \in Keystores /\ store' # None /\ store'.password = store.password
      /\ store'.aliases[hook.prefix] = g
      /\ \A q \in Prefixes \ {hook.prefix} : store'.aliases[q] = store.aliases[q]
  <2>1. store' = Filed(store, hook.prefix, g)  BY <1>7 DEF Filed
  <2> QED  BY <1>2, <1>4, <2>1, FiledIs
<1>9. hook' = IF k + 1 = Len(hook.certs) THEN Imported(hook, TRUE) ELSE hook
  BY <1>6 DEF ImportCertificate
<1> QED  BY <1>1, <1>2, <1>3, <1>4, <1>8, <1>9 DEF g

LEMMA ImportCertificateKeepsForm == ASSUME WellFormed, ImportCertificate  PROVE WellFormed'
<1> USE DEF WellFormed
<1>1. hook.pc = "import" /\ reach /\ InHook /\ hook.pc \in Importings
      /\ store # None /\ store' \in Keystores /\ store' # None
  BY ImportCertificateIs
<1>2. PICK k \in 0..MaxChain :
        /\ k < Len(hook.certs) /\ k + 1 \in 0..MaxChain
        /\ store'.aliases[hook.prefix] = [j \in 1..(k + 1) |-> hook.certs[j]]
        /\ \/ k + 1 = Len(hook.certs) /\ hook' = Imported(hook, TRUE)
           \/ k + 1 # Len(hook.certs) /\ hook' = hook
  BY ImportCertificateIs
<1>3. UNCHANGED <<relations, password, notices, deferred, reach, chain, file, running,
                  edits, faults>>
  BY DEF ImportCertificate
<1>4. Carried(hook', hook) /\ hook'.defers = hook.defers
      /\ (hook' = hook \/ hook'.pc \in {"run", "update"})
      /\ (hook'.pc # "run" => hook'.cur = hook.cur)
  <2>1. CASE hook' = hook  BY <2>1 DEF Carried, TypeOK
  <2>2. CASE hook' = Imported(hook, TRUE)
    <3>1. TRUE \in BOOLEAN  OBVIOUS
    <3> QED  BY <1>1, <2>2, <3>1, ImportedIs
  <2> QED  BY <1>2, <2>1, <2>2
<1>5. TypeOK'  BY <1>1, <1>3, <1>4 DEF TypeOK, relations, Carried
<1>6. Context'
  <2>1. hook.defers \subseteq Charges /\ hook.cur \in Charges
        /\ (password # None => hook.password = password)
    BY <1>1 DEF Control, Context
  <2>2. hook'.pc \notin {"idle", "error"}  BY <1>1, <1>4
  <2> QED  BY <1>1, <1>3, <1>4, <2>1, <2>2, ContextKept DEF Carried
<1>7. hook' = hook => Call' /\ Position'
  <2> SUFFICES ASSUME hook' = hook  PROVE Call' /\ Position'  OBVIOUS
  <2>1. Call'  BY DEF Control, Call
  <2>2. k + 1 < Len(hook.certs)
    <3>1. hook.certs \in Chains /\ Len(hook.certs) \in 0..MaxChain /\ MaxChain \in Nat
      BY ChainIsSequence, TruststoreAssumption DEF TypeOK, HookType
    <3>2. k + 1 # Len(hook.certs)
      <4> SUFFICES ASSUME k + 1 = Len(hook.certs), hook' = Imported(hook, TRUE)  PROVE FALSE
        BY <1>2
      <4>1. TRUE \in BOOLEAN  OBVIOUS
      <4>2. hook'.pc \in {"run", "update"}  BY <1>1, <4>1, ImportedIs
      <4> QED  BY <1>1, <4>2
    <3> QED  BY <1>2, <3>1, <3>2
  <2>3. CurrentAliases' = [j \in 1..(k + 1) |-> hook'.certs[j]]
    BY <1>2 DEF CurrentAliases
  <2>4. Position'
    BY <1>1, <1>2, <1>3, <2>2, <2>3 DEF Control, Position, Importings
  <2> QED  BY <2>1, <2>4
<1>8. hook'.pc \in {"run", "update"} => Call' /\ Position'  BY DEF Call, Position, Importings
<1>9. Apart'  BY <1>1, <1>3, <1>4 DEF Apart, relations, Carried, InHook
<1>10. Call' /\ Position'  BY <1>4, <1>7, <1>8
<1> QED  BY <1>5, <1>6, <1>9, <1>10 DEF Control

LEMMA UpdateKeepsForm == ASSUME WellFormed, Update  PROVE WellFormed'
<1> USE DEF WellFormed
<1>1. hook.pc = "update" /\ InHook /\ hook \in HookType /\ hook' = Returned(hook)
      /\ UNCHANGED <<relations, password, notices, deferred, reach, store, chain, edits,
                     faults>>
  BY DEF Update, InHook, TypeOK
<1>2. Carried(hook', hook) /\ hook'.pc = "run" /\ hook'.defers = hook.defers
  BY <1>1, ReturnedIs
<1>3. \/ UNCHANGED <<file, running>>
      \/ /\ storage # None /\ reach /\ file' = storage
         /\ running' = StartedService \/ running' = running
  BY DEF Update
<1>4. storage # None =>
        StartedService \in [settings: Settings, trust: [Prefixes -> Aliases]]
  <2>1. Trusted \in [Prefixes -> Aliases] /\ NoAliases \in [Prefixes -> Aliases]
    BY TrustedIs, NoneIsChain DEF NoAliases
  <2>2. storage # None => storage \in Settings  BY DEF TypeOK
  <2> QED  BY <2>1, <2>2 DEF StartedService
<1>5. TypeOK'  BY <1>1, <1>2, <1>3, <1>4 DEF TypeOK, relations, Carried
<1>6. Context'
  <2>1. hook.defers \subseteq Charges /\ (password # None => hook.password = password)
    BY <1>1 DEF Control, Context
  <2> QED  BY <1>1, <1>2, <2>1, ContextKept DEF Carried
<1>7. Call' /\ Position'  BY <1>2 DEF Call, Position, Importings
<1>8. Apart'  BY <1>1, <1>2, <1>3 DEF Apart, relations, Carried, InHook
<1> QED  BY <1>5, <1>6, <1>7, <1>8 DEF Control

\* A hook that starts, for an event or again for the same one.
LEMMA StartKeepsForm ==
  ASSUME WellFormed, NEW event \in Events, hook' = NewHook(event),
         event = "s3_gone" => storage = None, notices' \subseteq notices,
         UNCHANGED <<relations, password, deferred, reach, disk, running, edits, faults>>
  PROVE  WellFormed'
<1> USE DEF WellFormed
<1>1. hook' \in HookType /\ hook'.pc = "run" /\ hook'.event = event
      /\ hook'.again = deferred /\ Range(hook'.todo) = Runs(event) /\ hook'.defers = {}
      /\ hook'.password = password
  BY NewHookIs
<1>2. TypeOK'  BY <1>1 DEF TypeOK, relations, disk
<1>3. Control'  BY <1>1 DEF Control, Context, Call, Position, InHook, Importings
<1>4. Apart'  BY <1>1 DEF Apart, relations, disk
<1> QED  BY <1>2, <1>3, <1>4

LEMMA DispatchKeepsForm ==
  ASSUME WellFormed, NEW event \in Events, Dispatch(event)  PROVE WellFormed'
<1>1. hook' = NewHook(event) /\ notices' \subseteq notices
      /\ UNCHANGED <<relations, password, deferred, reach, disk, running, edits, faults>>
  BY DEF Dispatch
<1>2. event = "s3_gone" => storage = None  BY DEF Dispatch, WellFormed, Apart
<1> QED  BY <1>1, <1>2, StartKeepsForm

LEMMA RetryKeepsForm == ASSUME WellFormed, Retry  PROVE WellFormed'
<1>1. hook.event \in Events  BY DEF Retry, WellFormed, Control, Context
<1>2. hook' = NewHook(hook.event) /\ notices' \subseteq notices
      /\ UNCHANGED <<relations, password, deferred, reach, disk, running, edits, faults>>
  BY DEF Retry
<1>3. hook.event = "s3_gone" => storage = None  BY DEF Retry, WellFormed, Apart
<1> QED  BY <1>1, <1>2, <1>3, StartKeepsForm

LEMMA CommitKeepsForm == ASSUME WellFormed, Commit  PROVE WellFormed'
<1> USE DEF WellFormed
<1>1. hook.pc = "run" /\ InHook /\ hook \in HookType /\ password' = hook.password
      /\ deferred' = hook.defers /\ hook' = IdleHook
      /\ UNCHANGED <<relations, notices, reach, disk, running, edits, faults>>
  BY DEF Commit, InHook, TypeOK
<1>2. hook' \in HookType /\ hook'.pc = "idle"  BY <1>1, IdleHookIs
<1>3. hook.password \in RandomPasswords \cup {None} /\ hook.defers \subseteq Handlers
  BY <1>1 DEF HookType
<1>4. TypeOK'  BY <1>1, <1>2, <1>3 DEF TypeOK, relations, disk
<1>5. Control'  BY <1>2 DEF Control, Context, Call, Position, InHook, Importings
<1>6. storage # None => "gone" \notin hook.defers
  <2>1. hook.event \in Events /\ hook.defers \subseteq Charges
    BY <1>1 DEF Control, Context
  <2> QED  BY <1>1, <2>1, RunsOf DEF Apart, Charges
<1>7. Apart'  BY <1>1, <1>2, <1>6 DEF Apart, relations, disk
<1> QED  BY <1>4, <1>5, <1>7

LEMMA ContainerRestartKeepsForm == ASSUME WellFormed, ContainerRestart  PROVE WellFormed'
<1> USE DEF WellFormed
<1>1. reach' = FALSE /\ store' = None /\ chain' = NoFiles /\ file' = None /\ running' = None
      /\ faults' \subseteq Faults
      /\ UNCHANGED <<relations, password, hook, notices, deferred, edits>>
  BY DEF ContainerRestart, Fault, TypeOK
<1>2. TypeOK'  BY <1>1 DEF TypeOK, relations, NoFiles
<1>3. Context'  BY <1>1 DEF Control, Context, InHook, Charges
<1>4. Call'  BY <1>1 DEF Control, Call
<1>5. Position'  BY <1>1 DEF Control, Position
<1>6. Apart'  BY <1>1 DEF Apart, relations
<1> QED  BY <1>2, <1>3, <1>4, <1>5, <1>6 DEF Control

LEMMA PebbleUpKeepsForm == ASSUME WellFormed, PebbleUp  PROVE WellFormed'
<1> USE DEF WellFormed
<1>1. reach' = TRUE /\ ~InHook /\ hook.pc \notin Importings
      /\ notices' = notices \cup {"pebble_ready"}
      /\ UNCHANGED <<relations, password, hook, deferred, disk, running, edits, faults>>
  BY DEF PebbleUp, InHook, Importings
<1>2. TypeOK'  BY <1>1 DEF TypeOK, relations, disk, Events
<1>3. Control'  BY <1>1 DEF Control, Context, Call, Position, InHook, Importings
<1>4. Apart'  BY <1>1 DEF Apart, relations, disk
<1> QED  BY <1>2, <1>3, <1>4

\* What a change of a relation leaves alone, and the notice it makes.
LEMMA EditIs ==
  ASSUME TypeOK, NEW kind, NEW event \in Events, Edit(kind, event)
  PROVE  /\ edits' \in Seq(Edits) /\ Len(edits') <= MaxEdits
         /\ Range(edits') = Range(edits) \cup {kind}
         /\ notices' = notices \cup {event} /\ notices' \subseteq Events
         /\ UNCHANGED <<password, hook, deferred, reach, disk, running, faults>>
<1>1. kind \in Edits /\ edits \in Seq(Edits) /\ Len(edits) < MaxEdits
      /\ edits' = Append(edits, kind)
  BY DEF Edit, TypeOK
<1>2. edits' \in Seq(Edits) /\ Len(edits') = Len(edits) + 1 /\ Len(edits) \in Nat  BY <1>1
<1>3. Len(edits') <= MaxEdits  BY <1>1, <1>2, TruststoreAssumption
<1>4. Range(edits') = Range(edits) \cup {kind}  BY <1>1, AppendRange
<1>5. notices' = notices \cup {event} /\ notices' \subseteq Events
      /\ UNCHANGED <<password, hook, deferred, reach, disk, running, faults>>
  BY DEF Edit, TypeOK
<1> QED  BY <1>2, <1>3, <1>4, <1>5

\* The five changes, by what they do to the relations.
LEMMA EditKeepsForm ==
  ASSUME WellFormed, NEW kind, NEW event \in Events, Edit(kind, event),
         offered' \in [Prefixes -> Chains], storage' \in Settings \cup {None},
         storage' = None => offered'["object-storage-ca"] = <<>>,
         storage' # None => /\ event # "s3_gone"
                            /\ storage # None \/ /\ "s3_gone" \notin notices
                                                 /\ hook.event # "s3_gone"
                                                 /\ "gone" \notin deferred
  PROVE  WellFormed'
<1> USE DEF WellFormed
<1>1. /\ edits' \in Seq(Edits) /\ Len(edits') <= MaxEdits
      /\ notices' = notices \cup {event} /\ notices' \subseteq Events
      /\ UNCHANGED <<password, hook, deferred, reach, disk, running, faults>>
  BY EditIs
<1>2. TypeOK'  BY <1>1 DEF TypeOK, disk
<1>3. Control'  BY <1>1, ControlKept
<1>4. Apart'
  <2>1. storage' # None => /\ "s3_gone" \notin notices /\ "gone" \notin deferred
                           /\ hook.pc # "idle" => hook.event # "s3_gone"
    BY DEF Apart
  <2> QED  BY <1>1, <2>1 DEF Apart, disk
<1> QED  BY <1>2, <1>3, <1>4

\* A change of the relations, as the other invariants see it.
Changed(event) ==
  /\ event \in Events
  /\ notices' = notices \cup {event}
  /\ UNCHANGED <<password, hook, deferred, reach, disk, running, faults>>

AnyEdit ==
  \/ ChangeCertificates \/ ChangeStorageCertificates \/ ChangeSettings
  \/ RemoveStorage \/ RelateStorage

LEMMA AnyEditKeepsForm == ASSUME WellFormed, AnyEdit  PROVE WellFormed'
<1>1. offered \in [Prefixes -> Chains] /\ storage \in Settings \cup {None}
      /\ None \notin Settings
  BY TruststoreAssumption DEF WellFormed, TypeOK
<1>2. "object-storage-ca" \in Prefixes /\ "additional-ca" \in Prefixes  BY DEF Prefixes
<1>3. "certificates" \in Events /\ "s3_changed" \in Events /\ "s3_gone" \in Events
  BY DEF Events
<1>4. CASE ChangeCertificates
  <2>1. PICK c \in Chains : offered' = [offered EXCEPT !["additional-ca"] = c]
    BY <1>4 DEF ChangeCertificates
  <2>2. Edit("ca", "certificates") /\ storage' = storage  BY <1>4 DEF ChangeCertificates
  <2>3. offered' \in [Prefixes -> Chains]
        /\ offered'["object-storage-ca"] = offered["object-storage-ca"]
    BY <1>1, <1>2, <2>1
  <2>4. storage' = None => offered'["object-storage-ca"] = <<>>
    BY <2>2, <2>3 DEF WellFormed, Apart
  <2> QED  BY <1>1, <1>3, <2>2, <2>3, <2>4, EditKeepsForm
<1>5. CASE ChangeStorageCertificates
  <2>1. PICK c \in Chains : offered' = [offered EXCEPT !["object-storage-ca"] = c]
    BY <1>5 DEF ChangeStorageCertificates
  <2>2. Edit("object_storage_ca", "s3_changed") /\ storage' = storage /\ storage # None
    BY <1>5 DEF ChangeStorageCertificates
  <2>3. offered' \in [Prefixes -> Chains]  BY <1>1, <1>2, <2>1
  <2> QED  BY <1>1, <1>3, <2>2, <2>3, EditKeepsForm
<1>6. CASE ChangeSettings
  <2>1. Edit("settings", "s3_changed") /\ storage' \in Settings /\ storage # None
        /\ offered' = offered
    BY <1>6 DEF ChangeSettings
  <2> QED  BY <1>1, <1>3, <2>1, EditKeepsForm
<1>7. CASE RemoveStorage
  <2>1. Edit("storage", "s3_gone") /\ storage' = None
        /\ offered' = [offered EXCEPT !["object-storage-ca"] = <<>>]
    BY <1>7 DEF RemoveStorage
  <2>2. offered' \in [Prefixes -> Chains] /\ offered'["object-storage-ca"] = <<>>
    BY <1>1, <1>2, <2>1, NoneIsChain
  <2> QED  BY <1>1, <1>3, <2>1, <2>2, EditKeepsForm
<1>8. CASE RelateStorage
  <2>1. Edit("storage", "s3_changed") /\ storage' \in Settings /\ offered' = offered
        /\ "s3_gone" \notin notices /\ hook.event # "s3_gone" /\ "gone" \notin deferred
    BY <1>8 DEF RelateStorage
  <2> QED  BY <1>1, <1>3, <2>1, EditKeepsForm
<1> QED  BY <1>4, <1>5, <1>6, <1>7, <1>8 DEF AnyEdit

\* The steps at which a hook fails.
Failing == OpenStoreFails \/ ImportFails \/ PebbleLost \/ Abort

LEMMA FailingIs ==
  ASSUME WellFormed, Failing
  PROVE  /\ InHook /\ hook' = FailedHook(hook.event) /\ faults \subseteq faults'
         /\ faults' \subseteq Faults
         /\ UNCHANGED <<relations, password, notices, deferred, reach, disk, running, edits>>
BY DEF Failing, OpenStoreFails, ImportFails, PebbleLost, Abort, Fault, InHook, WellFormed,
       TypeOK

\* Every step is one of these.
LEMMA StepsAre ==
  Next => \/ Begin \/ CreateStore \/ SetStorePassword \/ OpenStore \/ DeleteAlias
          \/ ClearChain \/ StartImport \/ ImportCertificate \/ Failing \/ Update
          \/ Commit \/ Retry \/ (\E event \in Events : Dispatch(event))
          \/ ContainerRestart \/ PebbleUp \/ AnyEdit
BY DEF Next, HookStep, EnsureCertificatesImported, Environment, Failing, AnyEdit

LEMMA StutterKeepsForm == ASSUME WellFormed, UNCHANGED vars  PROVE WellFormed'
<1>1. TypeOK'  BY DEF WellFormed, TypeOK, vars, relations, disk
<1>2. Control'  BY ControlKept DEF WellFormed, vars, disk
<1>3. Apart'  BY DEF WellFormed, Apart, vars
<1> QED  BY <1>1, <1>2, <1>3 DEF WellFormed

LEMMA InitWellFormed == Init => WellFormed
<1> SUFFICES ASSUME Init  PROVE WellFormed  OBVIOUS
<1>1. hook \in HookType /\ hook.pc = "idle"  BY IdleHookIs DEF Init
<1>2. NoAliases \in [Prefixes -> Chains] /\ NoAliases["object-storage-ca"] = <<>>
  BY NoneIsChain DEF NoAliases, Prefixes
<1>3. TypeOK
  <2>1. edits \in Seq(Edits) /\ Len(edits) <= MaxEdits
    BY TruststoreAssumption DEF Init
  <2>2. notices \subseteq Events  BY DEF Init, Events
  <2>3. chain \in [Prefixes -> Chains \cup {None}]  BY DEF Init, NoFiles
  <2> QED  BY <1>1, <1>2, <2>1, <2>2, <2>3 DEF Init, TypeOK
<1>4. Control  BY <1>1 DEF Control, Context, Call, Position, InHook, Importings
<1>5. Apart  BY <1>1, <1>2 DEF Init, Apart
<1> QED  BY <1>3, <1>4, <1>5 DEF WellFormed

LEMMA NextWellFormed == WellFormed /\ [Next]_vars => WellFormed'
<1> SUFFICES ASSUME WellFormed, [Next]_vars  PROVE WellFormed'  OBVIOUS
<1>1. CASE Failing  BY <1>1, FailingIs, FailKeepsForm
<1>2. CASE \E event \in Events : Dispatch(event)  BY <1>2, DispatchKeepsForm
<1>3. CASE UNCHANGED vars  BY <1>3, StutterKeepsForm
<1> QED
  BY <1>1, <1>2, <1>3, StepsAre, BeginKeepsForm, CreateStoreKeepsForm,
     SetStorePasswordKeepsForm, OpenStoreKeepsForm, DeleteAliasKeepsForm,
     ClearChainKeepsForm, StartImportKeepsForm, ImportCertificateKeepsForm,
     UpdateKeepsForm, CommitKeepsForm, RetryKeepsForm, ContainerRestartKeepsForm,
     PebbleUpKeepsForm, AnyEditKeepsForm

\* In every state that can be reached the hook stands where its handlers put it, and a
\* store, a chain file and a service are only on a container that answers.
LEMMA WellFormedAlways == Spec => []WellFormed
BY InitWellFormed, NextWellFormed, PTL DEF Spec

\* The variables keep their types: the aliases of a prefix are certificates with indices
\* within the bound, and a store is either absent or complete.
THEOREM TypesHold == Spec => []TypeOK
<1>1. WellFormed => TypeOK  BY DEF WellFormed
<1> QED  BY <1>1, WellFormedAlways, PTL

-------------------------------------------------------------------------------
(* The password opens the keystore                                          *)

\* A step of the hook that changes neither password.
LEMMA OpenableKept ==
  ASSUME Openable, InHook, InHook', hook.pc # "storepasswd",
         hook'.password = hook.password, faults' = faults,
         store' # None => store # None /\ store'.password = store.password
  PROVE  Openable'
<1>1. NoHookFailed' => NoHookFailed  BY DEF NoHookFailed
<1> QED  BY <1>1 DEF Openable

LEMMA CreateStoreOpenable ==
  ASSUME WellFormed, Openable, CreateStore  PROVE Openable'
<1>1. hook.pc = "password" /\ InHook /\ hook \in HookType /\ faults' = faults
  BY DEF CreateStore, InHook, WellFormed, TypeOK
<1>2. PICK p \in IF hook.password = None THEN RandomPasswords ELSE {hook.password} :
        hook' = [hook EXCEPT !.password = p,
                             !.pc = IF store = None THEN "storepasswd" ELSE "open"]
  BY DEF CreateStore
<1>3. /\ hook'.password = p /\ hook'.pc = IF store = None THEN "storepasswd" ELSE "open"
  BY <1>1, <1>2 DEF HookType
<1>4. CASE store = None  BY <1>3, <1>4 DEF Openable, InHook
<1>5. CASE store # None
  <2>1. store' = store /\ InHook'  BY <1>3, <1>5 DEF CreateStore, InHook
  <2> SUFFICES ASSUME NoHookFailed'  PROVE store.password = hook'.password
    BY <2>1 DEF Openable
  <2>2. store.password = hook.password  BY <1>1, <1>5 DEF Openable, NoHookFailed
  <2>3. store.password # None
    BY <1>5, TruststoreAssumption DEF WellFormed, TypeOK, Keystores
  <2> QED  BY <1>2, <1>3, <2>2, <2>3
<1> QED  BY <1>4, <1>5

LEMMA SetStorePasswordOpenable ==
  ASSUME WellFormed, Openable, SetStorePassword  PROVE Openable'
<1>1. hook.pc = "storepasswd" /\ hook \in HookType /\ hook' = [hook EXCEPT !.pc = "open"]
      /\ store' = [store EXCEPT !.password = hook.password] /\ reach
  BY DEF SetStorePassword, WellFormed, TypeOK
<1>2. store \in Keystores
  <2>1. store # None  BY <1>1 DEF WellFormed, Control, Position, Importings
  <2> QED  BY <2>1 DEF WellFormed, TypeOK
<1>3. hook'.password = hook.password /\ InHook'  BY <1>1 DEF HookType, InHook
<1>4. store'.password = hook.password  BY <1>1, <1>2 DEF Keystores
<1> QED  BY <1>3, <1>4 DEF Openable

LEMMA FailingOpenable ==
  ASSUME WellFormed, Openable, Failing  PROVE Openable'
<1>1. InHook /\ hook' = FailedHook(hook.event) /\ faults \subseteq faults'
      /\ UNCHANGED <<relations, password, notices, deferred, reach, disk, running, edits>>
  BY FailingIs
<1>2. hook.event \in Events  BY <1>1 DEF WellFormed, Control, Context, InHook
<1>3. ~InHook'  BY <1>2, FailedHookIs, <1>1 DEF InHook
<1> SUFFICES ASSUME NoHookFailed', store # None  PROVE store.password = password
  BY <1>1, <1>3 DEF Openable, disk
<1>4. NoHookFailed  BY <1>1 DEF NoHookFailed
<1>5. hook.pc = "storepasswd" \/ store.password = hook.password
  BY <1>1, <1>4 DEF Openable
<1>6. CASE OpenStoreFails
  BY <1>5, <1>6 DEF OpenStoreFails
<1>7. CASE ImportFails
  <2>1. hook.pc = "import" /\ "import_error" \notin faults'
    BY <1>7 DEF ImportFails, NoHookFailed
  <2>2. password # None
    BY <1>7, <2>1 DEF ImportFails, Fault
  <2>3. hook.password = password  BY <1>1, <2>2 DEF WellFormed, Control, Context
  <2> QED  BY <1>5, <2>1, <2>3
<1>8. CASE PebbleLost
  BY <1>8 DEF PebbleLost, WellFormed, Apart
<1>9. CASE Abort
  BY <1>9 DEF Abort, Fault, NoHookFailed
<1> QED  BY <1>6, <1>7, <1>8, <1>9 DEF Failing

\* A hook starts with the password of the databag.
LEMMA StartOpenable ==
  ASSUME WellFormed, Openable, ~InHook, NEW event \in Events, hook' = NewHook(event),
         UNCHANGED <<disk, faults>>
  PROVE  Openable'
<1>1. hook'.password = password /\ InHook'
  BY NewHookIs DEF WellFormed, InHook
<1>2. NoHookFailed' => NoHookFailed  BY DEF NoHookFailed
<1> QED  BY <1>1, <1>2 DEF Openable, disk

LEMMA NextOpenable == WellFormed /\ Openable /\ [Next]_vars => Openable'
<1> SUFFICES ASSUME WellFormed, Openable, [Next]_vars  PROVE Openable'  OBVIOUS
<1>1. CASE Begin
  <2>1. PICK h \in Handlers, hk \in HookType :
          h \in Charges /\ Taken(hk, h) /\ Entered(hk, h)
    BY <1>1, BeginIs DEF WellFormed
  <2>2. hook'.password = hook.password /\ InHook'
    BY <2>1 DEF Taken, Entered, DefersFirst, Skips, Imports, Updates, Carried, InHook
  <2>3. hook.pc = "run" /\ InHook /\ faults' = faults /\ store' = store
    BY <1>1 DEF Begin, InHook, disk
  <2> QED  BY <2>2, <2>3, OpenableKept
<1>2. CASE OpenStore
  <2>1. InHook /\ hook.pc = "open" /\ Carried(hook', hook)
        /\ hook'.pc \in {"clear", "delete", "update"}
    BY <1>2, OpenStoreIs
  <2>2. InHook' /\ hook'.password = hook.password  BY <2>1 DEF InHook, Carried
  <2>3. store' = store /\ faults' = faults  BY <1>2 DEF OpenStore
  <2> QED  BY <2>1, <2>2, <2>3, OpenableKept
<1>3. CASE DeleteAlias
  <2>1. InHook /\ hook.pc \in {"clear", "delete"} /\ Carried(hook', hook)
        /\ hook'.pc = hook.pc /\ store # None /\ store'.password = store.password
    BY <1>3, DeleteAliasIs
  <2>2. InHook' /\ hook'.password = hook.password  BY <2>1 DEF InHook, Carried
  <2>3. faults' = faults  BY <1>3 DEF DeleteAlias
  <2> QED  BY <2>1, <2>2, <2>3, OpenableKept
<1>4. CASE ClearChain
  <2>1. InHook /\ hook.pc = "clear" /\ Carried(hook', hook) /\ hook'.pc \in {"run", "update"}
    BY <1>4, ClearChainIs
  <2>2. InHook' /\ hook'.password = hook.password  BY <2>1 DEF InHook, Carried
  <2>3. store' = store /\ faults' = faults  BY <1>4 DEF ClearChain
  <2> QED  BY <2>1, <2>2, <2>3, OpenableKept
<1>5. CASE StartImport
  <2>1. InHook /\ hook.pc = "delete" /\ Carried(hook', hook) /\ hook'.pc = "import"
    BY <1>5, StartImportIs
  <2>2. InHook' /\ hook'.password = hook.password  BY <2>1 DEF InHook, Carried
  <2>3. store' = store /\ faults' = faults  BY <1>5 DEF StartImport, disk
  <2> QED  BY <2>1, <2>2, <2>3, OpenableKept
<1>6. CASE ImportCertificate
  <2>1. InHook /\ hook.pc = "import" /\ hook.pc \in Importings /\ reach /\ store # None
        /\ store'.password = store.password
        /\ (hook' = hook \/ hook' = Imported(hook, TRUE))
    BY <1>6, ImportCertificateIs
  <2>2. InHook' /\ hook'.password = hook.password
    <3>1. CASE hook' = hook  BY <2>1, <3>1 DEF InHook
    <3>2. CASE hook' = Imported(hook, TRUE)
      <4>1. TRUE \in BOOLEAN  OBVIOUS
      <4>2. Carried(hook', hook) /\ hook'.pc \in {"run", "update"}
        BY <2>1, <3>2, <4>1, ImportedIs
      <4> QED  BY <4>2 DEF Carried, InHook
    <3> QED  BY <2>1, <3>1, <3>2
  <2>3. faults' = faults  BY <1>6 DEF ImportCertificate
  <2> QED  BY <2>1, <2>2, <2>3, OpenableKept
<1>7. CASE Update
  <2>1. hook.pc = "update" /\ InHook /\ hook \in HookType /\ hook' = Returned(hook)
        /\ store' = store /\ faults' = faults
    BY <1>7 DEF Update, InHook, WellFormed, TypeOK
  <2>2. InHook' /\ hook'.password = hook.password
    <3>1. Carried(hook', hook) /\ hook'.pc = "run"  BY <2>1, ReturnedIs
    <3> QED  BY <3>1 DEF Carried, InHook
  <2> QED  BY <2>1, <2>2, OpenableKept
<1>8. CASE Commit
  <2>1. hook.pc = "run" /\ InHook /\ ~InHook' /\ password' = hook.password
        /\ store' = store /\ faults' = faults
    BY <1>8, IdleHookIs DEF Commit, InHook, disk
  <2>2. NoHookFailed' => NoHookFailed  BY <2>1 DEF NoHookFailed
  <2> QED  BY <2>1, <2>2 DEF Openable
<1>9. CASE Retry
  <2>1. hook.event \in Events  BY <1>9 DEF Retry, WellFormed, Control, Context
  <2>2. ~InHook /\ hook' = NewHook(hook.event) /\ UNCHANGED <<disk, faults>>
    BY <1>9 DEF Retry, InHook
  <2> QED  BY <2>1, <2>2, StartOpenable
<1>10. CASE \E event \in Events : Dispatch(event)
  <2>1. PICK event \in Events : Dispatch(event)  BY <1>10
  <2>2. ~InHook /\ hook' = NewHook(event) /\ UNCHANGED <<disk, faults>>
    BY <2>1 DEF Dispatch, InHook
  <2> QED  BY <2>2, StartOpenable
<1>11. CASE ContainerRestart  BY <1>11 DEF ContainerRestart, Openable
<1>12. CASE PebbleUp \/ AnyEdit \/ UNCHANGED vars
  <2>1. UNCHANGED <<hook, store, password, faults>>
    BY <1>12 DEF PebbleUp, AnyEdit, ChangeCertificates, ChangeStorageCertificates,
                 ChangeSettings, RemoveStorage, RelateStorage, Edit, vars, disk
  <2> QED  BY <2>1 DEF Openable, InHook, NoHookFailed
<1> QED
  BY <1>1, <1>2, <1>3, <1>4, <1>5, <1>6, <1>7, <1>8, <1>9, <1>10, <1>11, <1>12, StepsAre,
     CreateStoreOpenable, SetStorePasswordOpenable, FailingOpenable

LEMMA OpenableAlways == Spec => [](WellFormed /\ Openable)
<1>1. Init => Openable  BY DEF Init, Openable
<1>2. Init => WellFormed  BY InitWellFormed
<1>3. WellFormed /\ Openable /\ [Next]_vars => (WellFormed /\ Openable)'
  BY NextWellFormed, NextOpenable
<1> QED  BY <1>1, <1>2, <1>3, PTL DEF Spec

\* Between hooks the password in the databag opens the keystore, whatever the number of
\* changes and of restarts of the container, unless a hook failed before the password it
\* generated was committed (truststore_password).
THEOREM PasswordOpensStore == Spec => []StoreOpens
<1>1. Openable => StoreOpens  BY DEF Openable, StoreOpens
<1> QED  BY <1>1, OpenableAlways, PTL

-------------------------------------------------------------------------------
(* The keystore follows the relations                                       *)

\* A step of ensure_certificates_imported that does not fail.
ImportStep ==
  \/ CreateStore \/ SetStorePassword \/ OpenStore \/ DeleteAlias \/ ClearChain
  \/ StartImport \/ ImportCertificate

\* The call goes on, for the same prefix, chain and handler.
GoesOn ==
  /\ hook'.pc \in Importings /\ hook'.prefix = hook.prefix /\ hook'.certs = hook.certs
  /\ hook'.cur = hook.cur

\* The call returns, and leaves the chain in the keystore and in its file.
Finishes ==
  /\ hook'.pc \in {"run", "update"}
  /\ \/ /\ hook.certs = <<>> /\ Trusted'[hook.prefix] = <<>> /\ chain'[hook.prefix] = None
     \/ /\ hook.certs # <<>> /\ Trusted'[hook.prefix] = hook.certs
        /\ chain'[hook.prefix] = hook.certs
     \/ /\ hook.certs # <<>> /\ UNCHANGED <<Trusted, chain>> /\ hook.pc = "open"
        /\ chain[hook.prefix] = hook.certs
        /\ DOMAIN Trusted[hook.prefix] = DOMAIN hook.certs

LEMMA CreateStoreIs ==
  ASSUME WellFormed, CreateStore
  PROVE  GoesOn /\ Trusted' = Trusted /\ chain' = chain /\ hook'.pc # "delete"
         /\ hook'.event = hook.event /\ hook'.again = hook.again /\ hook'.todo = hook.todo
         /\ hook'.defers = hook.defers
<1>1. hook.pc = "password" /\ hook \in HookType /\ chain' = chain
  BY DEF CreateStore, WellFormed, TypeOK
<1>2. PICK p \in IF hook.password = None THEN RandomPasswords ELSE {hook.password} :
        hook' = [hook EXCEPT !.password = p,
                             !.pc = IF store = None THEN "storepasswd" ELSE "open"]
  BY DEF CreateStore
<1>3. /\ hook'.pc \in {"storepasswd", "open"}
      /\ hook'.event = hook.event /\ hook'.again = hook.again /\ hook'.todo = hook.todo
      /\ hook'.defers = hook.defers /\ hook'.cur = hook.cur /\ hook'.prefix = hook.prefix
      /\ hook'.certs = hook.certs
  BY <1>1, <1>2 DEF HookType
<1>4. GoesOn /\ hook'.pc # "delete"  BY <1>3 DEF GoesOn, Importings
<1>5. Trusted' = Trusted
  <2>1. CASE store = None
    <3>1. store' = [password |-> DefaultPassword, aliases |-> NoAliases]
      BY <2>1 DEF CreateStore
    <3>2. store' # None /\ store'.aliases = NoAliases  BY <3>1, CopyIs
    <3> QED  BY <2>1, <3>2 DEF Trusted
  <2>2. CASE store # None  BY <2>2 DEF CreateStore, Trusted
  <2> QED  BY <2>1, <2>2
<1> QED  BY <1>1, <1>3, <1>4, <1>5

LEMMA SetStorePasswordIs ==
  ASSUME WellFormed, SetStorePassword
  PROVE  GoesOn /\ Trusted' = Trusted /\ chain' = chain /\ hook'.pc # "delete"
         /\ hook'.event = hook.event /\ hook'.again = hook.again /\ hook'.todo = hook.todo
         /\ hook'.defers = hook.defers
<1>1. hook.pc = "storepasswd" /\ hook \in HookType /\ chain' = chain /\ reach
      /\ hook' = [hook EXCEPT !.pc = "open"]
      /\ store' = [store EXCEPT !.password = hook.password]
  BY DEF SetStorePassword, WellFormed, TypeOK
<1>2. /\ hook'.pc = "open"
      /\ hook'.event = hook.event /\ hook'.again = hook.again /\ hook'.todo = hook.todo
      /\ hook'.defers = hook.defers /\ hook'.cur = hook.cur /\ hook'.prefix = hook.prefix
      /\ hook'.certs = hook.certs
  BY <1>1 DEF HookType
<1>3. store # None /\ store \in Keystores /\ hook.password \in RandomPasswords
  BY <1>1 DEF WellFormed, Control, Position, Importings, TypeOK, HookType
<1>4. store' \in Keystores /\ store'.aliases = store.aliases  BY <1>1, <1>3 DEF Keystores
<1>5. Trusted' = Trusted  BY <1>3, <1>4, AbsentAssumption DEF Trusted
<1>6. GoesOn  BY <1>2 DEF GoesOn, Importings
<1> QED  BY <1>1, <1>2, <1>5, <1>6

\* An import that is under way: its prefix and its chain are known.
LEMMA ImportStepAt ==
  ASSUME WellFormed, ImportStep
  PROVE  /\ hook.pc \in Importings /\ reach /\ InHook /\ hook.prefix \in Prefixes
         /\ hook.certs \in Chains
         /\ UNCHANGED <<relations, password, notices, deferred, reach, file, running,
                        edits, faults>>
<1>1. hook.pc \in Importings /\ reach /\ UNCHANGED <<relations, password, notices,
                              deferred, reach, file, running, edits, faults>>
  BY DEF ImportStep, CreateStore, SetStorePassword, OpenStore, DeleteAlias, ClearChain,
         StartImport, ImportCertificate, Importings, disk
<1>2. InHook  BY <1>1 DEF InHook, Importings
<1>3. hook.prefix \in Prefixes /\ hook.certs \in Chains
  BY <1>1 DEF WellFormed, Control, Call, TypeOK, HookType
<1> QED  BY <1>1, <1>2, <1>3

LEMMA ImportStepIs ==
  ASSUME WellFormed, ImportStep
  PROVE  /\ GoesOn \/ Finishes
         /\ \A q \in Prefixes \ {hook.prefix} : Trusted'[q] = Trusted[q] /\ chain'[q] = chain[q]
         /\ hook'.again = hook.again /\ hook'.todo = hook.todo
         /\ hook'.defers = hook.defers /\ hook'.event = hook.event
<1>0. hook.pc \in Importings /\ reach /\ InHook /\ hook.prefix \in Prefixes
      /\ hook.certs \in Chains
  BY ImportStepAt
<1>c. chain \in [Prefixes -> Chains \cup {None}]  BY DEF WellFormed, TypeOK
<1>1. CASE CreateStore  BY <1>1, CreateStoreIs
<1>2. CASE SetStorePassword  BY <1>2, SetStorePasswordIs
<1>3. CASE OpenStore
  <2>1. Trusted' = Trusted  BY <1>3 DEF OpenStore, Trusted
  <2>2. \A q \in Prefixes \ {hook.prefix} : chain'[q] = chain[q]
    BY <1>0, <1>3, <1>c, OpenStoreIs
  <2>3. Carried(hook', hook) /\ hook'.defers = hook.defers  BY <1>3, OpenStoreIs
  <2>6. hook'.pc \in {"clear", "delete", "update"}  BY <1>3, OpenStoreIs
  <2>7. GoesOn \/ Finishes
    <3>1. CASE hook'.pc \in {"clear", "delete"}
      BY <1>3, <3>1, OpenStoreIs DEF GoesOn, Importings
    <3>2. CASE hook'.pc = "update"
      <4>1. hook.certs # <<>> /\ chain[hook.prefix] = hook.certs /\ chain' = chain
            /\ DOMAIN CurrentAliases = 1..Len(hook.certs) /\ hook.pc = "open" /\ store # None
        BY <1>3, <3>2, OpenStoreIs
      <4>2. CurrentAliases = Trusted[hook.prefix]  BY <4>1 DEF CurrentAliases, Trusted
      <4>3. DOMAIN hook.certs = 1..Len(hook.certs)  BY <1>0, ChainIsSequence
      <4> QED  BY <2>1, <3>2, <4>1, <4>2, <4>3 DEF Finishes
    <3> QED  BY <2>6, <3>1, <3>2
  <2> QED  BY <2>1, <2>2, <2>3, <2>7 DEF Carried
<1>4. CASE DeleteAlias
  <2>1. chain' = chain  BY <1>4 DEF DeleteAlias
  <2>2. \A q \in Prefixes \ {hook.prefix} : Trusted'[q] = Trusted[q]
    BY <1>4, DeleteAliasIs DEF Trusted
  <2>3. Carried(hook', hook) /\ hook'.defers = hook.defers /\ GoesOn
    BY <1>4, DeleteAliasIs DEF GoesOn, Importings
  <2> QED  BY <2>1, <2>2, <2>3 DEF Carried
<1>5. CASE ClearChain
  <2>1. store' = store /\ Trusted' = Trusted  BY <1>5 DEF ClearChain, Trusted
  <2>2. hook.pc = "clear" /\ store # None /\ CurrentAliases = <<>>
        /\ chain' = [chain EXCEPT ![hook.prefix] = None]
        /\ Carried(hook', hook) /\ hook'.defers = hook.defers /\ hook'.pc \in {"run", "update"}
    BY <1>5, ClearChainIs
  <2>3. Trusted[hook.prefix] = <<>>  BY <2>2 DEF CurrentAliases, Trusted
  <2>4. hook.certs = <<>>  BY <2>2 DEF WellFormed, Control, Position
  <2>5. Finishes  BY <1>0, <1>c, <2>1, <2>2, <2>3, <2>4 DEF Finishes
  <2> QED  BY <1>0, <1>c, <2>1, <2>2, <2>5 DEF Carried
<1>6. CASE StartImport
  <2>1. chain' = chain /\ Trusted' = Trusted  BY <1>6 DEF StartImport, Trusted, disk
  <2>2. Carried(hook', hook) /\ hook'.defers = hook.defers /\ GoesOn
    BY <1>6, StartImportIs DEF GoesOn, Importings
  <2> QED  BY <2>1, <2>2 DEF Carried
<1>7. CASE ImportCertificate
  <2>1. chain' = chain  BY <1>7 DEF ImportCertificate
  <2>2. hook.pc = "import" /\ store # None /\ store' # None
        /\ \A q \in Prefixes \ {hook.prefix} : store'.aliases[q] = store.aliases[q]
    BY <1>7, ImportCertificateIs
  <2>3. \A q \in Prefixes \ {hook.prefix} : Trusted'[q] = Trusted[q]  BY <2>2 DEF Trusted
  <2>4. PICK k \in 0..MaxChain :
          \/ /\ k + 1 = Len(hook.certs) /\ hook' = Imported(hook, TRUE)
             /\ store'.aliases[hook.prefix] = hook.certs
          \/ k + 1 # Len(hook.certs) /\ hook' = hook
    BY <1>7, ImportCertificateIs
  <2>5. hook.certs # <<>> /\ chain[hook.prefix] = hook.certs
    BY <1>0, <2>2 DEF WellFormed, Control, Position
  <2>6. CASE hook' = hook  BY <1>0, <2>1, <2>3, <2>6 DEF GoesOn
  <2>7. CASE hook' = Imported(hook, TRUE) /\ store'.aliases[hook.prefix] = hook.certs
    <3>1. TRUE \in BOOLEAN  OBVIOUS
    <3>2. Carried(hook', hook) /\ hook'.defers = hook.defers /\ hook'.pc \in {"run", "update"}
      BY <1>0, <2>7, <3>1, ImportedIs
    <3>3. Finishes  BY <2>1, <2>2, <2>5, <2>7, <3>2 DEF Finishes, Trusted
    <3> QED  BY <2>1, <2>3, <3>2, <3>3 DEF Carried
  <2> QED  BY <2>4, <2>6, <2>7
<1> QED  BY <1>1, <1>2, <1>3, <1>4, <1>5, <1>6, <1>7 DEF ImportStep

\* Whoever imports or withdraws a chain, and which events make it run.
LEMMA DutyIs ==
  ASSUME WellFormed, NEW p \in Prefixes
  PROVE  /\ Duty(p) = "certs" <=> p = "additional-ca"
         /\ Duty(p) = "s3" <=> p = "object-storage-ca" /\ storage # None
         /\ Duty(p) = "gone" <=> p = "object-storage-ca" /\ storage = None
         /\ Duty(p) \in Handlers
BY DEF Duty, Prefixes, Handlers

\* Aliases that a step does not touch stay those of the chain file.
LEMMA FaithfulKept ==
  ASSUME NEW p \in Prefixes, Faithful(p), faults \subseteq faults',
         Trusted'[p] = Trusted[p], chain'[p] = chain[p],
         ~(hook.pc = "delete" /\ hook.prefix = p)
           \/ (hook'.pc = "delete" /\ hook'.prefix = p)
  PROVE  Faithful(p)'
<1>1. NoHookFailed' => NoHookFailed  BY DEF NoHookFailed
<1> QED  BY <1>1 DEF Faithful

LEMMA ImportStepFaithful ==
  ASSUME WellFormed, ImportStep, NEW p \in Prefixes, Faithful(p)
  PROVE  Faithful(p)'
<1>0. /\ hook.pc \in Importings /\ reach /\ hook.prefix \in Prefixes
      /\ hook.certs \in Chains /\ faults' = faults
  BY ImportStepAt
<1>1. CASE p # hook.prefix
  <2>1. Trusted'[p] = Trusted[p] /\ chain'[p] = chain[p]  BY <1>1, ImportStepIs
  <2> QED  BY <1>0, <1>1, <2>1, FaithfulKept
<1>2. CASE p = hook.prefix /\ Finishes
  <2>1. CASE hook.certs = <<>>  BY <1>2, <2>1 DEF Finishes, Faithful
  <2>2. CASE Trusted'[p] = hook.certs /\ chain'[p] = hook.certs
    BY <2>2 DEF Faithful
  <2>3. CASE UNCHANGED <<Trusted, chain>> /\ hook.pc = "open"
    BY <1>0, <2>3, FaithfulKept
  <2> QED  BY <1>2, <2>1, <2>2, <2>3 DEF Finishes
<1>3. CASE p = hook.prefix /\ GoesOn
  <2>1. CASE CreateStore \/ SetStorePassword
    <3>1. Trusted' = Trusted /\ chain' = chain /\ hook.pc # "delete"
      BY <2>1, CreateStoreIs, SetStorePasswordIs DEF CreateStore, SetStorePassword
    <3> QED  BY <1>0, <3>1, FaithfulKept
  <2>2. CASE OpenStore
    <3>1. hook.pc = "open" /\ (chain' = chain \/ hook'.pc = "delete")
      BY <2>2, OpenStoreIs
    <3>2. Trusted' = Trusted  BY <2>2 DEF OpenStore, Trusted
    <3>3. CASE hook'.pc = "delete"  BY <1>3, <3>3 DEF GoesOn, Faithful
    <3>4. CASE chain' = chain  BY <1>0, <3>1, <3>2, <3>4, FaithfulKept
    <3> QED  BY <3>1, <3>3, <3>4
  <2>3. CASE DeleteAlias
    <3>1. hook'.pc = hook.pc /\ hook.pc \in {"clear", "delete"} /\ hook'.prefix = hook.prefix
          /\ store # None /\ store \in Keystores
      BY <2>3, DeleteAliasIs DEF WellFormed, TypeOK
    <3>2. CASE hook.pc = "delete"  BY <1>3, <3>1, <3>2 DEF Faithful
    <3>3. CASE hook.pc = "clear"
      <4>1. chain' = chain  BY <2>3 DEF DeleteAlias
      <4>2. CurrentAliases = Trusted[p] /\ CurrentAliases \in Aliases
        BY <1>0, <1>3, <3>1 DEF CurrentAliases, Trusted, Keystores
      <4>3. PICK i \in DOMAIN CurrentAliases : store' = Filed(store, p, Without(CurrentAliases, i))
        BY <1>3, <2>3 DEF DeleteAlias, CurrentAliases, Filed
      <4>4. /\ Without(CurrentAliases, i) \in Aliases
            /\ DOMAIN Without(CurrentAliases, i) = DOMAIN CurrentAliases \ {i}
            /\ \A j \in DOMAIN CurrentAliases \ {i} :
                 Without(CurrentAliases, i)[j] = CurrentAliases[j]
        BY <4>2, WithoutIs
      <4>5. Trusted'[p] = Without(CurrentAliases, i)
        <5>1. store' # None /\ store'.aliases[p] = Without(CurrentAliases, i)
          BY <3>1, <4>3, <4>4, FiledIs
        <5> QED  BY <5>1 DEF Trusted
      <4>6. \A j \in DOMAIN Trusted'[p] : j \in DOMAIN Trusted[p] /\ Trusted'[p][j] = Trusted[p][j]
        BY <4>2, <4>4, <4>5
      <4>7. NoHookFailed' => NoHookFailed  BY <1>0 DEF NoHookFailed
      <4> QED  BY <3>3, <4>1, <4>6, <4>7 DEF Faithful
    <3> QED  BY <3>1, <3>2, <3>3
  <2>4. CASE ClearChain
    <3>1. hook'.pc \in {"run", "update"}  BY <2>4, ClearChainIs
    <3> QED  BY <1>3, <3>1 DEF GoesOn, Importings
  <2>5. CASE StartImport
    <3>1. CurrentAliases = <<>> /\ store # None  BY <2>5, StartImportIs
    <3>2. Trusted'[p] = <<>>  BY <1>3, <2>5, <3>1 DEF StartImport, CurrentAliases, Trusted, disk
    <3> QED  BY <3>2 DEF Faithful
  <2>6. CASE ImportCertificate
    <3>1. PICK k \in 0..MaxChain :
            /\ k < Len(hook.certs) /\ k + 1 \in 0..MaxChain
            /\ store'.aliases[hook.prefix] = [j \in 1..(k + 1) |-> hook.certs[j]]
      BY <2>6, ImportCertificateIs
    <3>2. store' # None /\ hook.pc = "import"  BY <2>6, ImportCertificateIs
    <3>3. Trusted'[p] = [j \in 1..(k + 1) |-> hook.certs[j]]
      BY <1>3, <3>1, <3>2 DEF Trusted
    <3>4. chain'[p] = hook.certs
      BY <1>0, <1>3, <2>6, <3>2 DEF WellFormed, Control, Position, ImportCertificate
    <3>5. 1..(k + 1) \subseteq DOMAIN hook.certs
      BY <1>0, <3>1, ChainIsSequence, TruststoreAssumption
    <3> QED  BY <3>3, <3>4, <3>5 DEF Faithful
  <2> QED  BY <2>1, <2>2, <2>3, <2>4, <2>5, <2>6 DEF ImportStep
<1> QED  BY <1>1, <1>2, <1>3, ImportStepIs

\* The steps of a hook that import nothing, with what is the same for them.
LEMMA QuietDisk ==
  ASSUME WellFormed, [Next]_vars, ~ImportStep, ~ContainerRestart
  PROVE  UNCHANGED <<Trusted, store, chain>> /\ faults \subseteq faults'
<1>1. UNCHANGED <<store, chain>> /\ faults \subseteq faults'
  <2>1. CASE Failing  BY <2>1, FailingIs DEF disk
  <2>2. CASE AnyEdit
    BY <2>2 DEF AnyEdit, ChangeCertificates, ChangeStorageCertificates, ChangeSettings,
                RemoveStorage, RelateStorage, Edit, disk
  <2>3. CASE UNCHANGED vars  BY <2>3 DEF vars
  <2> QED
    BY <2>1, <2>2, <2>3, StepsAre DEF ImportStep, Begin, Update, Commit, Retry, Dispatch,
       PebbleUp, disk
<1> QED  BY <1>1 DEF Trusted

LEMMA NextFaithful ==
  ASSUME WellFormed, Openable, [Next]_vars, NEW p \in Prefixes, Faithful(p)
  PROVE  Faithful(p)'
<1>1. CASE ImportStep  BY <1>1, ImportStepFaithful
<1>2. CASE ContainerRestart
  <2>1. chain'[p] = None  BY <1>2 DEF ContainerRestart, NoFiles
  <2> QED  BY <2>1 DEF Faithful
<1>3. CASE ~ImportStep /\ ~ContainerRestart
  <2>1. UNCHANGED <<Trusted, store, chain>> /\ faults \subseteq faults'
    BY <1>3, QuietDisk
  <2>2. CASE hook.pc # "delete" \/ hook' = hook
    BY <2>1, <2>2, FaithfulKept
  <2>3. CASE hook.pc = "delete" /\ hook' # hook
    <3>1. Failing
      BY <1>3, <2>3, StepsAre DEF ImportStep, Begin, Update, Commit, Retry, Dispatch,
         PebbleUp, AnyEdit, ChangeCertificates, ChangeStorageCertificates, ChangeSettings,
         RemoveStorage, RelateStorage, Edit, vars
    <3>2. CASE PebbleLost
      <4>1. store = None  BY <3>2 DEF PebbleLost, WellFormed, Apart
      <4>2. Trusted'[p] = <<>>  BY <2>1, <4>1 DEF Trusted, NoAliases
      <4> QED  BY <4>2 DEF Faithful
    <3>3. CASE Abort  BY <3>3 DEF Abort, Fault, NoHookFailed, Faithful
    <3> QED  BY <2>3, <3>1, <3>2, <3>3 DEF Failing, OpenStoreFails, ImportFails
  <2> QED  BY <2>2, <2>3
<1> QED  BY <1>1, <1>2, <1>3

\* Nothing that concerns the chain of p changed, unless it is noticed.
Same(p) == Duty(p)' = Duty(p) /\ offered'[p] = offered[p] /\ notices \subseteq notices'

LEMMA SameWhenKept ==
  ASSUME WellFormed, UNCHANGED <<relations, notices>>, NEW p \in Prefixes
  PROVE  Same(p)
BY DEF Same, Duty, relations

\* What agrees goes on agreeing while chain file, aliases and offer stay.
LEMMA AgreesKept ==
  ASSUME NEW p \in Prefixes, Agrees(p), Trusted'[p] = Trusted[p], chain'[p] = chain[p],
         offered'[p] = offered[p], faults \subseteq faults'
  PROVE  Agrees(p)'
<1>1. NoHookFailed' => NoHookFailed  BY DEF NoHookFailed
<1> QED  BY <1>1 DEF Agrees

\* A notice stays until it is taken.
LEMMA NoticedKept ==
  ASSUME NEW p \in Prefixes, Noticed(p), Same(p)
  PROVE  Noticed(p)'
BY DEF Noticed, Same

\* What the rest of the hook owes stays owed.
LEMMA OwedKept ==
  ASSUME NEW p \in Prefixes, Owed(p), ~Underway(p), Same(p), InHook, InHook',
         hook.again \cup Range(hook.todo) \cup hook.defers
           \subseteq hook'.again \cup Range(hook'.todo) \cup hook'.defers,
         UNCHANGED reach
  PROVE  Owed(p)'
<1>1. CASE ~reach  BY <1>1 DEF Owed
<1>2. CASE Noticed(p)  BY <1>2, NoticedKept DEF Owed
<1>3. CASE Duty(p) \in hook.again \cup Range(hook.todo) \cup hook.defers
  BY <1>3 DEF Owed, Same
<1> QED  BY <1>1, <1>2, <1>3 DEF Owed

LEMMA ImportStepFollows ==
  ASSUME WellFormed, Due, ImportStep, NEW p \in Prefixes
  PROVE  Agrees(p)' \/ Owed(p)'
<1>0. /\ hook.pc \in Importings /\ reach /\ InHook /\ hook.prefix \in Prefixes
      /\ hook.certs \in Chains /\ faults' = faults
      /\ UNCHANGED <<relations, notices, reach>>
  BY ImportStepAt
<1>1. /\ GoesOn \/ Finishes
      /\ \A q \in Prefixes \ {hook.prefix} : Trusted'[q] = Trusted[q] /\ chain'[q] = chain[q]
      /\ hook'.again = hook.again /\ hook'.todo = hook.todo /\ hook'.defers = hook.defers
  BY ImportStepIs
<1>2. Same(p) /\ offered' = offered  BY <1>0, SameWhenKept DEF relations
<1>3. InHook'  BY <1>1 DEF GoesOn, Finishes, InHook, Importings
<1>4. CASE p # hook.prefix
  <2>1. Trusted'[p] = Trusted[p] /\ chain'[p] = chain[p]  BY <1>1, <1>4
  <2>2. ~Underway(p)  BY <1>4 DEF Underway
  <2>3. CASE Agrees(p)  BY <1>0, <1>2, <2>1, <2>3, AgreesKept
  <2>4. CASE Owed(p)  BY <1>0, <1>1, <1>2, <1>3, <2>2, <2>4, OwedKept
  <2> QED  BY <2>3, <2>4 DEF Due
<1>5. CASE p = hook.prefix
  <2>1. Underway(p) \/ Noticed(p)  BY <1>0, <1>5 DEF Due, Current
  <2>2. CASE Noticed(p)  BY <1>2, <2>2, NoticedKept DEF Owed
  <2>3. CASE Underway(p) /\ GoesOn
    <3>1. Underway(p)'  BY <1>2, <2>3 DEF Underway, GoesOn, Same
    <3> QED  BY <1>3, <3>1 DEF Owed
  <2>4. CASE Underway(p) /\ Finishes
    <3>1. hook.certs = offered[p]  BY <2>4 DEF Underway
    <3>2. offered'[p] = offered[p]  BY <1>2
    <3>3. DOMAIN hook.certs = 1..Len(hook.certs) /\ None # hook.certs
          /\ (hook.certs = <<>> => Len(hook.certs) = 0)
      BY <1>0, ChainIsSequence, AbsentAssumption
    <3>4. CASE hook.certs = <<>> /\ Trusted'[p] = <<>> /\ chain'[p] = None
      BY <3>1, <3>2, <3>3, <3>4 DEF Agrees
    <3>5. CASE hook.certs # <<>> /\ Trusted'[p] = hook.certs /\ chain'[p] = hook.certs
      BY <3>1, <3>2, <3>3, <3>5 DEF Agrees
    <3>6. CASE /\ hook.certs # <<>> /\ UNCHANGED <<Trusted, chain>> /\ hook.pc = "open"
               /\ chain[p] = hook.certs /\ DOMAIN Trusted[p] = DOMAIN hook.certs
      <4>1. NoHookFailed => Trusted[p] = hook.certs
        <5> SUFFICES ASSUME NoHookFailed  PROVE Trusted[p] = hook.certs  OBVIOUS
        <5>1. Faithful(p)  BY DEF Due
        <5>2. \A j \in DOMAIN Trusted[p] : Trusted[p][j] = hook.certs[j]
          BY <3>3, <3>6, <5>1 DEF Faithful
        <5>3. Trusted[p] \in Aliases  BY TrustedIs DEF WellFormed
        <5> QED  BY <1>0, <3>6, <5>2, <5>3, AliasesAreChain
      <4>2. NoHookFailed' => NoHookFailed  BY <1>0 DEF NoHookFailed
      <4> QED  BY <3>1, <3>2, <3>3, <3>6, <4>1, <4>2 DEF Agrees
    <3> QED  BY <1>5, <2>4, <3>4, <3>5, <3>6 DEF Finishes
  <2> QED  BY <1>1, <2>1, <2>2, <2>3, <2>4
<1> QED  BY <1>4, <1>5

LEMMA ImportStepCurrent ==
  ASSUME WellFormed, Due, ImportStep
  PROVE  Current'
<1> SUFFICES ASSUME hook'.pc \in Importings
             PROVE  Underway(hook.prefix)' \/ Noticed(hook.prefix)'
  BY DEF Current
<1>0. /\ hook.pc \in Importings /\ reach /\ hook.prefix \in Prefixes
      /\ UNCHANGED <<relations, notices, reach>>
  BY ImportStepAt
<1>1. GoesOn  BY ImportStepIs DEF Finishes, Importings
<1>2. PICK p \in Prefixes : p = hook.prefix /\ p = hook'.prefix  BY <1>0, <1>1 DEF GoesOn
<1>3. Same(p)  BY <1>0, SameWhenKept
<1>4. CASE Underway(p)
  <2>1. Underway(p)'  BY <1>1, <1>3, <1>4 DEF Underway, GoesOn, Same
  <2> QED  BY <1>2, <2>1 DEF Underway, Duty
<1>5. CASE Noticed(p)
  <2>1. Noticed(p)'  BY <1>3, <1>5, NoticedKept
  <2> QED  BY <1>2, <2>1 DEF Noticed, Duty
<1>6. Underway(p) \/ Noticed(p)  BY <1>0, <1>2 DEF Due, Current
<1> QED  BY <1>4, <1>5, <1>6

\* Begin takes on what is owed, or leaves it owed.
LEMMA BeginFollows ==
  ASSUME WellFormed, Due, Begin
  PROVE  (\A p \in Prefixes : Agrees(p)' \/ Owed(p)') /\ Current'
<1>1. hook.pc = "run" /\ InHook /\ UNCHANGED <<relations, password, notices, deferred,
                                              reach, disk, running, edits, faults>>
  BY DEF Begin, InHook
<1>2. PICK h \in Handlers, hk \in HookType :
        h \in Charges /\ Taken(hk, h) /\ Entered(hk, h)
  BY BeginIs DEF WellFormed
<1>3. hook'.again = hk.again /\ hook'.todo = hk.todo /\ InHook'
      /\ hook'.pc \in {"run", "password", "update"}
      /\ hook.defers \subseteq hook'.defers
  BY <1>2 DEF Taken, Entered, DefersFirst, Skips, Imports, Updates, Carried, InHook
<1>4. hook.again \cup Range(hook.todo) = {h} \cup hook'.again \cup Range(hook'.todo)
  BY <1>2, <1>3 DEF Taken
<1>5. Trusted' = Trusted /\ chain' = chain  BY <1>1 DEF Trusted, disk
<1>6. hook'.pc = "password" =>
        \E p \in Prefixes : p = hook'.prefix /\ Underway(p)' /\ h = Duty(p)
  <2> SUFFICES ASSUME hook'.pc = "password"
               PROVE  \E p \in Prefixes : p = hook'.prefix /\ Underway(p)' /\ h = Duty(p)
    OBVIOUS
  <2>1. "gone" \in Charges => storage = None /\ offered["object-storage-ca"] = <<>>
    <3>1. hook.event \in Events /\ hook.pc # "idle"
      BY <1>1 DEF WellFormed, Control, Context, InHook
    <3> QED  BY <3>1, RunsOf DEF WellFormed, Apart, Charges
  <2>2. \/ /\ h = "s3" /\ storage # None
           /\ Imports(hk, h, "object-storage-ca", offered["object-storage-ca"], "import")
        \/ h = "gone" /\ Imports(hk, h, "object-storage-ca", <<>>, "withdraw")
        \/ h = "certs" /\ Imports(hk, h, "additional-ca", offered["additional-ca"], "import")
    BY <1>2 DEF Entered, DefersFirst, Skips, Updates
  <2>3. PICK p \in Prefixes : p = hook'.prefix
    BY <2>2 DEF Imports, Prefixes
  <2>4. hook'.certs = offered[p] /\ hook'.cur = h
    BY <1>2, <2>1, <2>2, <2>3 DEF Imports
  <2>5. h = Duty(p)
    BY <1>2, <2>1, <2>2, <2>3 DEF Imports, Duty
  <2>6. storage' = storage /\ offered' = offered  BY <1>1 DEF relations
  <2>7. Underway(p)'  BY <2>3, <2>4, <2>5, <2>6 DEF Underway, Importings, Duty
  <2> QED  BY <2>3, <2>5, <2>7
<1>7. ASSUME NEW p \in Prefixes  PROVE Agrees(p)' \/ Owed(p)'
  <2>1. Same(p) /\ offered' = offered  BY <1>1, SameWhenKept DEF relations
  <2>2. CASE Agrees(p)
    BY <1>1, <1>5, <2>1, <2>2, AgreesKept
  <2>3. CASE Owed(p) /\ Duty(p) # h
    <3>1. ~Underway(p)  BY <1>1 DEF Underway, Importings
    <3>2. CASE ~reach  BY <1>1, <3>2 DEF Owed
    <3>3. CASE Noticed(p)  BY <2>1, <3>3, NoticedKept DEF Owed
    <3>4. CASE Duty(p) \in hook.again \cup Range(hook.todo) \cup hook.defers
      <4>1. Duty(p)' \in hook'.again \cup Range(hook'.todo) \cup hook'.defers
        BY <1>3, <1>4, <2>1, <2>3, <3>4 DEF Same
      <4> QED  BY <1>3, <4>1 DEF Owed
    <3> QED  BY <1>1, <2>3, <3>1, <3>2, <3>3, <3>4 DEF Owed
  <2>4. CASE Duty(p) = h
    <3>1. CASE DefersFirst(hk, h)  BY <1>1, <3>1 DEF DefersFirst, Owed
    <3>2. CASE hook'.pc = "password"
      <4>1. hook'.prefix = p
        <5>1. PICK q \in Prefixes : q = hook'.prefix /\ Duty(q) = Duty(p)
          BY <1>6, <2>4, <3>2
        <5> QED  BY <5>1 DEF Duty, Prefixes
      <4>2. Underway(p)'  BY <1>6, <3>2, <4>1
      <4> QED  BY <1>3, <4>2 DEF Owed
    <3>3. ~Skips(hk, h) /\ ~Updates(hk, h)
      BY <2>4 DEF Skips, Updates, Duty
    <3>4. Entered(hk, h) => DefersFirst(hk, h) \/ hook'.pc = "password"
      BY <3>3 DEF Entered, Imports
    <3> QED  BY <1>2, <3>1, <3>2, <3>4
  <2> QED  BY <2>2, <2>3, <2>4 DEF Due
<1>8. Current'
  <2> SUFFICES ASSUME hook'.pc \in Importings
               PROVE  Underway(hook.prefix)'
    BY DEF Current
  <2>1. PICK p \in Prefixes : p = hook'.prefix /\ Underway(p)'
    BY <1>3, <1>6 DEF Importings
  <2> QED  BY <2>1 DEF Underway, Duty
<1> QED  BY <1>7, <1>8

\* A hook that fails leaves what it owed to the next attempt.
LEMMA FailingFollows ==
  ASSUME WellFormed, Due, Failing
  PROVE  (\A p \in Prefixes : Agrees(p)' \/ Owed(p)') /\ Current'
<1>1. InHook /\ hook' = FailedHook(hook.event) /\ faults \subseteq faults'
      /\ UNCHANGED <<relations, password, notices, deferred, reach, disk, running, edits>>
  BY FailingIs
<1>2. hook.event \in Events  BY <1>1 DEF WellFormed, Control, Context, InHook
<1>3. hook'.pc = "error" /\ hook'.event = hook.event  BY <1>1, <1>2, FailedHookIs
<1>4. Trusted' = Trusted /\ chain' = chain  BY <1>1 DEF Trusted, disk
<1>5. ~InHook' /\ Current'  BY <1>3 DEF InHook, Current, Importings
<1>6. ASSUME NEW p \in Prefixes  PROVE Agrees(p)' \/ Owed(p)'
  <2>1. Same(p) /\ offered' = offered  BY <1>1, SameWhenKept DEF relations
  <2>2. CASE Agrees(p)  BY <1>1, <1>4, <2>1, <2>2, AgreesKept
  <2>3. CASE ~reach  BY <1>1, <2>3 DEF Owed
  <2>4. CASE Noticed(p)  BY <2>1, <2>4, NoticedKept DEF Owed
  <2>5. CASE Underway(p) \/ Duty(p) \in hook.again \cup Range(hook.todo) \cup hook.defers
    <3>1. hook.again \cup Range(hook.todo) \cup hook.defers \subseteq Charges
      BY <1>1 DEF WellFormed, Control, Context, Charges
    <3>2. Underway(p) => Duty(p) \in Charges
      BY <1>1 DEF WellFormed, Control, Context, Underway, Importings
    <3>3. Duty(p) \in deferred \cup Runs(hook.event)  BY <2>5, <3>1, <3>2 DEF Charges
    <3> QED  BY <1>1, <1>3, <1>5, <2>1, <3>3 DEF Owed, Same
  <2> QED  BY <1>1, <2>2, <2>3, <2>4, <2>5 DEF Due, Owed
<1> QED  BY <1>5, <1>6

LEMMA UpdateFollows ==
  ASSUME WellFormed, Due, Update
  PROVE  (\A p \in Prefixes : Agrees(p)' \/ Owed(p)') /\ Current'
<1>1. hook.pc = "update" /\ InHook /\ hook \in HookType /\ hook' = Returned(hook)
      /\ UNCHANGED <<relations, password, notices, deferred, reach, store, chain, edits,
                     faults>>
  BY DEF Update, InHook, WellFormed, TypeOK
<1>2. Carried(hook', hook) /\ hook'.pc = "run" /\ hook'.defers = hook.defers
  BY <1>1, ReturnedIs
<1>3. InHook' /\ Current'  BY <1>2 DEF InHook, Current, Importings
<1>4. Trusted' = Trusted  BY <1>1 DEF Trusted
<1>5. ASSUME NEW p \in Prefixes  PROVE Agrees(p)' \/ Owed(p)'
  <2>1. Same(p) /\ offered' = offered  BY <1>1, SameWhenKept DEF relations
  <2>2. CASE Agrees(p)  BY <1>1, <1>4, <2>1, <2>2, AgreesKept
  <2>3. CASE Owed(p)
    <3>1. ~Underway(p)  BY <1>1 DEF Underway, Importings
    <3>2. hook.again \cup Range(hook.todo) \cup hook.defers
            \subseteq hook'.again \cup Range(hook'.todo) \cup hook'.defers
      BY <1>2 DEF Carried
    <3> QED  BY <1>1, <1>3, <2>1, <2>3, <3>1, <3>2, OwedKept
  <2> QED  BY <2>2, <2>3 DEF Due
<1> QED  BY <1>3, <1>5

LEMMA CommitFollows ==
  ASSUME WellFormed, Due, Commit
  PROVE  (\A p \in Prefixes : Agrees(p)' \/ Owed(p)') /\ Current'
<1>1. hook.pc = "run" /\ InHook /\ hook.again = {} /\ hook.todo = <<>>
      /\ deferred' = hook.defers /\ hook' = IdleHook
      /\ UNCHANGED <<relations, notices, reach, disk, running, edits, faults>>
  BY DEF Commit, InHook
<1>2. hook'.pc = "idle"  BY <1>1, IdleHookIs
<1>3. ~InHook' /\ Current'  BY <1>2 DEF InHook, Current, Importings
<1>4. Trusted' = Trusted /\ chain' = chain  BY <1>1 DEF Trusted, disk
<1>5. Range(hook.todo) = {}  BY <1>1 DEF Range
<1>6. ASSUME NEW p \in Prefixes  PROVE Agrees(p)' \/ Owed(p)'
  <2>1. Same(p) /\ offered' = offered  BY <1>1, SameWhenKept DEF relations
  <2>2. CASE Agrees(p)  BY <1>1, <1>4, <2>1, <2>2, AgreesKept
  <2>3. CASE ~reach  BY <1>1, <2>3 DEF Owed
  <2>4. CASE Noticed(p)  BY <2>1, <2>4, NoticedKept DEF Owed
  <2>5. CASE Duty(p) \in hook.defers  BY <1>1, <1>3, <2>1, <2>5 DEF Owed, Same
  <2>6. ~Underway(p)  BY <1>1 DEF Underway, Importings
  <2> QED  BY <1>1, <1>5, <2>2, <2>3, <2>4, <2>5, <2>6 DEF Due, Owed
<1> QED  BY <1>3, <1>6

\* A hook that starts takes on what its event and the deferred handlers owe.
LEMMA StartFollows ==
  ASSUME WellFormed, Due, ~InHook, NEW event \in Events, hook' = NewHook(event),
         hook.pc = "error" => event = hook.event,
         notices \subseteq notices' \cup {event},
         UNCHANGED <<relations, password, deferred, reach, disk, running, edits, faults>>
  PROVE  (\A p \in Prefixes : Agrees(p)' \/ Owed(p)') /\ Current'
<1>1. hook'.pc = "run" /\ hook'.again = deferred /\ Range(hook'.todo) = Runs(event)
  BY NewHookIs DEF WellFormed
<1>2. InHook' /\ Current'  BY <1>1 DEF InHook, Current, Importings
<1>3. Trusted' = Trusted /\ chain' = chain  BY DEF Trusted, disk
<1>4. ASSUME NEW p \in Prefixes  PROVE Agrees(p)' \/ Owed(p)'
  <2>1. Duty(p)' = Duty(p) /\ offered' = offered  BY DEF Duty, relations
  <2>2. CASE Agrees(p)  BY <1>3, <2>1, <2>2, AgreesKept
  <2>3. CASE ~reach  BY <2>3 DEF Owed
  <2>4. CASE Duty(p) \in deferred \cup Runs(event)  BY <1>1, <1>2, <2>1, <2>4 DEF Owed
  <2>5. CASE Noticed(p)
    <3>1. PICK e \in notices : Duty(p) \in Runs(e)  BY <2>5 DEF Noticed
    <3>2. e \in notices' \/ e = event  OBVIOUS
    <3>3. e \in notices' => Noticed(p)'  BY <2>1, <3>1 DEF Noticed
    <3> QED  BY <2>4, <3>1, <3>2, <3>3 DEF Owed
  <2> QED  BY <2>2, <2>3, <2>4, <2>5 DEF Due, Owed
<1> QED  BY <1>2, <1>4

\* A container that answers again has an empty disk, and an event for all of them.
LEMMA PebbleUpFollows ==
  ASSUME WellFormed, Due, PebbleUp
  PROVE  (\A p \in Prefixes : Agrees(p)' \/ Owed(p)') /\ Current'
<1>1. ~reach /\ ~InHook /\ notices' = notices \cup {"pebble_ready"}
      /\ UNCHANGED <<relations, hook, disk, faults>>
  BY DEF PebbleUp
<1>2. Current'  BY <1>1 DEF Current, InHook, Importings
<1>3. store' = None /\ chain' = NoFiles  BY <1>1 DEF WellFormed, Apart, disk
<1>4. ASSUME NEW p \in Prefixes  PROVE Agrees(p)' \/ Owed(p)'
  <2>1. Duty(p)' = Duty(p) /\ offered' = offered /\ storage' = storage
    BY <1>1 DEF Duty, relations
  <2>2. CASE Duty(p) \in {"s3", "certs"}
    <3>1. Duty(p) \in Runs("pebble_ready")  BY <2>2, RunsOf DEF Events
    <3>2. Noticed(p)'  BY <1>1, <2>1, <3>1 DEF Noticed
    <3> QED  BY <3>2 DEF Owed
  <2>3. CASE Duty(p) = "gone"
    <3>1. storage = None /\ p = "object-storage-ca"  BY <2>3 DEF Duty, Prefixes
    <3>2. offered'[p] = <<>>  BY <2>1, <3>1 DEF WellFormed, Apart
    <3>3. Trusted'[p] = <<>> /\ chain'[p] = None
      BY <1>3 DEF Trusted, NoAliases, NoFiles
    <3> QED  BY <3>2, <3>3 DEF Agrees
  <2> QED  BY <2>2, <2>3 DEF Duty
<1> QED  BY <1>2, <1>4

\* What a change of a relation concerns is noticed.
LEMMA AnyEditIs ==
  ASSUME WellFormed, AnyEdit
  PROVE  /\ UNCHANGED <<password, hook, deferred, reach, disk, running, faults>>
         /\ notices \subseteq notices'
         /\ \A p \in Prefixes :
              Noticed(p)' \/ (Duty(p)' = Duty(p) /\ offered'[p] = offered[p])
<1>0. offered \in [Prefixes -> Chains]  BY DEF WellFormed, TypeOK
<1>1. "s3" \in Runs("s3_changed") /\ "certs" \in Runs("certificates")
      /\ "gone" \in Runs("s3_gone")
  BY RunsOf DEF Events
<1>2. CASE ChangeCertificates
  <2>1. PICK c \in Chains : offered' = [offered EXCEPT !["additional-ca"] = c]
    BY <1>2 DEF ChangeCertificates
  <2>2. storage' = storage /\ notices' = notices \cup {"certificates"}
        /\ UNCHANGED <<password, hook, deferred, reach, disk, running, faults>>
    BY <1>2 DEF ChangeCertificates, Edit
  <2>3. Noticed("additional-ca")'  BY <1>1, <2>2 DEF Noticed, Duty
  <2>4. offered'["object-storage-ca"] = offered["object-storage-ca"]
        /\ Duty("object-storage-ca")' = Duty("object-storage-ca")
    BY <1>0, <2>1, <2>2 DEF Duty, Prefixes
  <2> QED  BY <2>2, <2>3, <2>4 DEF Prefixes
<1>3. CASE ChangeStorageCertificates
  <2>1. PICK c \in Chains : offered' = [offered EXCEPT !["object-storage-ca"] = c]
    BY <1>3 DEF ChangeStorageCertificates
  <2>2. storage' = storage /\ storage # None /\ notices' = notices \cup {"s3_changed"}
        /\ UNCHANGED <<password, hook, deferred, reach, disk, running, faults>>
    BY <1>3 DEF ChangeStorageCertificates, Edit
  <2>3. Noticed("object-storage-ca")'  BY <1>1, <2>2 DEF Noticed, Duty
  <2>4. offered'["additional-ca"] = offered["additional-ca"]
        /\ Duty("additional-ca")' = Duty("additional-ca")
    BY <1>0, <2>1, <2>2 DEF Duty, Prefixes
  <2> QED  BY <2>2, <2>3, <2>4 DEF Prefixes
<1>4. CASE ChangeSettings
  <2>1. storage' \in Settings /\ storage # None /\ offered' = offered
        /\ notices' = notices \cup {"s3_changed"}
        /\ UNCHANGED <<password, hook, deferred, reach, disk, running, faults>>
    BY <1>4 DEF ChangeSettings, Edit
  <2>2. storage' # None  BY <2>1, TruststoreAssumption
  <2> QED  BY <2>1, <2>2 DEF Duty
<1>5. CASE RemoveStorage
  <2>1. storage' = None /\ notices' = notices \cup {"s3_gone"}
        /\ offered' = [offered EXCEPT !["object-storage-ca"] = <<>>]
        /\ UNCHANGED <<password, hook, deferred, reach, disk, running, faults>>
    BY <1>5 DEF RemoveStorage, Edit
  <2>2. Noticed("object-storage-ca")'  BY <1>1, <2>1 DEF Noticed, Duty
  <2>3. offered'["additional-ca"] = offered["additional-ca"]
        /\ Duty("additional-ca")' = Duty("additional-ca")
    BY <1>0, <2>1 DEF Duty, Prefixes
  <2> QED  BY <2>1, <2>2, <2>3 DEF Prefixes
<1>6. CASE RelateStorage
  <2>1. storage' \in Settings /\ offered' = offered /\ notices' = notices \cup {"s3_changed"}
        /\ UNCHANGED <<password, hook, deferred, reach, disk, running, faults>>
    BY <1>6 DEF RelateStorage, Edit
  <2>2. storage' # None  BY <2>1, TruststoreAssumption
  <2>3. Noticed("object-storage-ca")'  BY <1>1, <2>1, <2>2 DEF Noticed, Duty
  <2>4. Duty("additional-ca")' = Duty("additional-ca")  BY DEF Duty
  <2> QED  BY <2>1, <2>3, <2>4 DEF Prefixes
<1> QED  BY <1>2, <1>3, <1>4, <1>5, <1>6 DEF AnyEdit

LEMMA AnyEditFollows ==
  ASSUME WellFormed, Due, AnyEdit
  PROVE  (\A p \in Prefixes : Agrees(p)' \/ Owed(p)') /\ Current'
<1>1. UNCHANGED <<password, hook, deferred, reach, disk, running, faults>>
      /\ notices \subseteq notices'
  BY AnyEditIs
<1>2. Trusted' = Trusted /\ chain' = chain  BY <1>1 DEF Trusted, disk
<1>3. ASSUME NEW p \in Prefixes  PROVE Noticed(p)' \/ Same(p)
  BY <1>1, AnyEditIs DEF Same
<1>4. ASSUME NEW p \in Prefixes  PROVE Agrees(p)' \/ Owed(p)'
  <2>1. CASE Noticed(p)'  BY <2>1 DEF Owed
  <2>2. CASE Same(p)
    <3>1. CASE Agrees(p)  BY <1>1, <1>2, <2>2, <3>1, AgreesKept DEF Same
    <3>2. CASE Noticed(p)  BY <2>2, <3>2, NoticedKept DEF Owed
    <3>3. Underway(p) => Underway(p)'  BY <1>1, <2>2 DEF Underway, Same
    <3>4. CASE Owed(p) /\ ~Noticed(p)
      BY <1>1, <2>2, <3>3, <3>4 DEF Owed, Same, InHook
    <3> QED  BY <3>1, <3>2, <3>4 DEF Due
  <2> QED  BY <1>3, <2>1, <2>2
<1>5. Current'
  <2> SUFFICES ASSUME hook.pc \in Importings, reach
               PROVE  Underway(hook.prefix)' \/ Noticed(hook.prefix)'
    BY <1>1 DEF Current
  <2>1. PICK p \in Prefixes : p = hook.prefix  BY DEF WellFormed, Control, Call
  <2>2. Underway(p) \/ Noticed(p)  BY <2>1 DEF Due, Current
  <2>3. Underway(p)' \/ Noticed(p)'
    <3>1. CASE Same(p) /\ Noticed(p)  BY <3>1, NoticedKept
    <3>2. CASE Same(p) /\ Underway(p)  BY <1>1, <3>2 DEF Underway, Same
    <3> QED  BY <1>3, <2>2, <3>1, <3>2
  <2> QED  BY <1>1, <2>1, <2>3 DEF Underway, Noticed, Duty
<1> QED  BY <1>4, <1>5

LEMMA NextDue == WellFormed /\ Openable /\ Due /\ [Next]_vars => Due'
<1> SUFFICES ASSUME WellFormed, Openable, Due, [Next]_vars  PROVE Due'  OBVIOUS
<1>1. \A p \in Prefixes : Faithful(p)'  BY NextFaithful DEF Due
<1>2. (\A p \in Prefixes : Agrees(p)' \/ Owed(p)') /\ Current'
  <2>1. CASE ImportStep  BY <2>1, ImportStepFollows, ImportStepCurrent
  <2>2. CASE Commit  BY <2>2, CommitFollows
  <2>3. CASE Retry
    <3>1. hook.event \in Events /\ ~InHook /\ hook' = NewHook(hook.event)
          /\ notices \subseteq notices' \cup {hook.event}
          /\ UNCHANGED <<relations, password, deferred, reach, disk, running, edits, faults>>
      BY <2>3 DEF Retry, InHook, WellFormed, Control, Context
    <3> QED  BY <3>1, StartFollows
  <2>4. CASE \E event \in Events : Dispatch(event)
    <3>1. PICK event \in Events : Dispatch(event)  BY <2>4
    <3>2. hook.pc = "idle" /\ ~InHook /\ hook' = NewHook(event)
          /\ notices \subseteq notices' \cup {event}
          /\ UNCHANGED <<relations, password, deferred, reach, disk, running, edits, faults>>
      BY <3>1 DEF Dispatch, InHook
    <3> QED  BY <3>2, StartFollows
  <2>5. CASE ContainerRestart  BY <2>5 DEF ContainerRestart, Owed, Current
  <2>6. CASE UNCHANGED vars
    <3>1. UNCHANGED <<relations, hook, notices, deferred, reach, store, chain, faults>>
      BY <2>6 DEF vars, relations
    <3>2. ASSUME NEW p \in Prefixes  PROVE Agrees(p)' \/ Owed(p)'
      BY <3>1 DEF Due, Agrees, Owed, Trusted, NoHookFailed, InHook, Underway, Noticed,
                  Duty, relations
    <3>3. Current'
      BY <3>1 DEF Due, Current, Underway, Noticed, Duty, relations
    <3> QED  BY <3>2, <3>3
  <2> QED
    BY <2>1, <2>2, <2>3, <2>4, <2>5, <2>6, StepsAre, BeginFollows, FailingFollows,
       UpdateFollows, PebbleUpFollows, AnyEditFollows DEF ImportStep
<1> QED  BY <1>1, <1>2 DEF Due

LEMMA InitDue == Init => Due
BY DEF Init, Due, Faithful, NoFiles, Owed, Current

LEMMA DueAlways == Spec => [](WellFormed /\ Openable /\ Due)
<1>1. Init => WellFormed /\ Openable /\ Due
  BY InitWellFormed, InitDue DEF Init, Openable
<1>2. WellFormed /\ Openable /\ Due /\ [Next]_vars => (WellFormed /\ Openable /\ Due)'
  BY NextWellFormed, NextOpenable, NextDue
<1> QED  BY <1>1, <1>2, PTL DEF Spec

\* With nothing left to handle, no chain is still owed.
LEMMA QuietAgrees ==
  ASSUME Due, Quiet, NEW p \in Prefixes  PROVE Agrees(p)
BY DEF Due, Quiet, Owed, Noticed, InHook

\* Once nothing is left to handle, the keystore holds the chains the relations offer, and
\* no other certificate, unless a hook failed in the middle of an import.
THEOREM StoreIsCurrent == Spec => []StoreFollowsRelations
<1>1. ASSUME WellFormed, Due  PROVE StoreFollowsRelations
  <2> SUFFICES ASSUME Quiet, store # None, NoHookFailed  PROVE store.aliases = offered
    BY DEF StoreFollowsRelations
  <2>1. store.aliases \in [Prefixes -> Aliases] /\ offered \in [Prefixes -> Chains]
    BY <1>1 DEF WellFormed, TypeOK, Keystores
  <2>2. \A p \in Prefixes : store.aliases[p] = offered[p]
    BY <1>1, QuietAgrees DEF Agrees, Trusted
  <2> QED  BY <2>1, <2>2
<1> QED  BY <1>1, DueAlways, PTL

\* Whatever hooks failed before, at any step, the keystore then has an alias for each
\* certificate the relations offer and none besides.
THEOREM StoreIsComplete == Spec => []StoreComplete
<1>1. ASSUME Due  PROVE StoreComplete
  <2> SUFFICES ASSUME Quiet, store # None, NEW p \in Prefixes
               PROVE  DOMAIN store.aliases[p] = 1..Len(offered[p])
    BY DEF StoreComplete
  <2> QED  BY <1>1, QuietAgrees DEF Agrees, Trusted
<1> QED  BY <1>1, DueAlways, PTL

-------------------------------------------------------------------------------
(* The service trusts what is in the keystore                               *)

\* What failed or was withdrawn stays so.
LEMMA TimesPass ==
  ASSUME WellFormed, [Next]_vars
  PROVE  (NoHookFailed' => NoHookFailed) /\ (StorageStays' => StorageStays)
<1>1. faults \subseteq faults' /\ (edits' = edits \/ AnyEdit)
  <2>1. CASE Failing  BY <2>1, FailingIs
  <2>2. CASE AnyEdit
    BY <2>2, AnyEditIs
  <2>3. CASE ImportStep  BY <2>3, ImportStepAt
  <2>4. CASE ContainerRestart  BY <2>4 DEF ContainerRestart, Fault
  <2>5. CASE UNCHANGED vars  BY <2>5 DEF vars
  <2> QED
    BY <2>1, <2>2, <2>3, <2>4, <2>5, StepsAre DEF ImportStep, Begin, Update, Commit, Retry,
       Dispatch, PebbleUp
<1>2. AnyEdit => Range(edits) \subseteq Range(edits')
  <2> SUFFICES ASSUME AnyEdit  PROVE Range(edits) \subseteq Range(edits')  OBVIOUS
  <2>1. PICK kind \in EditKinds, event \in Events : Edit(kind, event)
    BY DEF AnyEdit, ChangeCertificates, ChangeStorageCertificates, ChangeSettings,
           RemoveStorage, RelateStorage, EditKinds, Events
  <2> QED  BY <2>1, EditIs DEF WellFormed
<1> QED  BY <1>1, <1>2 DEF NoHookFailed, StorageStays

\* While the storage stays, no hook withdraws its chain.
LEMMA NoneWithdraws ==
  ASSUME WellFormed, Unbroken, InHook
  PROVE  "gone" \notin Charges /\ hook.event # "s3_gone"
<1>1. hook.event \in Events /\ hook.pc # "idle"
  BY DEF WellFormed, Control, Context, InHook
<1> QED  BY <1>1, RunsOf DEF Unbroken, Charges

\* The same aliases, the same chain file, and no restart that is forgotten.
LEMMA KeepsKept ==
  ASSUME NEW p \in Prefixes, Keeps(p), Bound(p) => Bound(p)',
         Trusted'[p] = Trusted[p], chain'[p] = chain[p], running' = running
  PROVE  Keeps(p)'
BY DEF Keeps, Torn

LEMMA ImportStepKeeps ==
  ASSUME WellFormed, ImportStep, Unbroken, running # None,
         \A p \in Prefixes : Keeps(p)
  PROVE  \A p \in Prefixes : Keeps(p)'
<1>0. /\ hook.pc \in Importings /\ reach /\ InHook /\ hook.prefix \in Prefixes
      /\ running' = running /\ faults' = faults
  BY ImportStepAt
<1>c. chain \in [Prefixes -> Chains \cup {None}]  BY DEF WellFormed, TypeOK
<1>1. hook.cur # "gone"
  <2>1. hook.cur \in Charges  BY <1>0 DEF WellFormed, Control, Context, Importings
  <2> QED  BY <1>0, <2>1, NoneWithdraws
<1>2. \A q \in Prefixes \ {hook.prefix} : Trusted'[q] = Trusted[q] /\ chain'[q] = chain[q]
  BY ImportStepIs
<1>3. \A q \in Prefixes \ {hook.prefix} : ~Bound(q)
  BY <1>0 DEF Bound, Importings
<1>4. \A q \in Prefixes \ {hook.prefix} : Keeps(q)'
  BY <1>0, <1>2, <1>3, KeepsKept
<1> SUFFICES ASSUME NEW p \in Prefixes, p = hook.prefix  PROVE Keeps(p)'  BY <1>4
<1>5. CASE CreateStore \/ SetStorePassword
  <2>1. Trusted' = Trusted /\ chain' = chain  BY <1>5, CreateStoreIs, SetStorePasswordIs
  <2>2. ~Bound(p)  BY <1>5 DEF CreateStore, SetStorePassword, Bound
  <2> QED  BY <1>0, <2>1, <2>2, KeepsKept
<1>6. CASE OpenStore
  <2>1. hook.pc = "open" /\ ~Bound(p)  BY <1>6, OpenStoreIs DEF Bound
  <2>2. Trusted' = Trusted  BY <1>6 DEF OpenStore, Trusted
  <2>3. chain' = chain \/ (hook'.pc = "delete" /\ hook'.prefix = p)  BY <1>6, OpenStoreIs
  <2>4. CASE chain' = chain  BY <1>0, <2>1, <2>2, <2>4, KeepsKept
  <2>5. CASE hook'.pc = "delete" /\ hook'.prefix = p  BY <2>5 DEF Keeps, Bound
  <2> QED  BY <2>3, <2>4, <2>5
<1>7. CASE DeleteAlias
  <2>1. hook'.pc \in {"clear", "delete"} /\ hook'.prefix = p /\ hook'.force
    BY <1>7, DeleteAliasIs
  <2> QED  BY <2>1 DEF Keeps, Bound
<1>8. CASE ClearChain
  <2>1. hook.pc = "clear" /\ store # None /\ CurrentAliases = <<>>
        /\ chain' = [chain EXCEPT ![hook.prefix] = None]
        /\ hook'.pc = "update" /\ hook'.force = (hook.force \/ chain[hook.prefix] # None)
    BY <1>1, <1>8, ClearChainIs
  <2>2. CASE hook.force \/ chain[hook.prefix] # None
    BY <2>1, <2>2 DEF Keeps, Bound
  <2>3. CASE ~hook.force /\ chain[hook.prefix] = None
    <3>1. ~Bound(p)  BY <2>1, <2>3 DEF Bound
    <3>2. chain'[p] = chain[p]  BY <1>c, <2>1, <2>3
    <3>3. Trusted' = Trusted  BY <1>8 DEF ClearChain, Trusted
    <3> QED  BY <1>0, <3>1, <3>2, <3>3, KeepsKept
  <2> QED  BY <2>2, <2>3
<1>9. CASE StartImport
  <2>1. hook'.pc = "import" /\ hook'.prefix = p  BY <1>9, StartImportIs
  <2> QED  BY <2>1 DEF Keeps, Bound
<1>10. CASE ImportCertificate
  <2>1. hook' = hook \/ hook' = Imported(hook, TRUE)  BY <1>10, ImportCertificateIs
  <2>2. CASE hook' = hook
    <3>1. hook'.pc = "import" /\ hook'.prefix = p  BY <1>10, <2>2 DEF ImportCertificate
    <3> QED  BY <3>1 DEF Keeps, Bound
  <2>3. CASE hook' = Imported(hook, TRUE)
    <3>1. TRUE \in BOOLEAN  OBVIOUS
    <3>2. hook'.pc = "update" /\ hook'.force = TRUE
      BY <1>0, <1>1, <2>3, <3>1, ImportedIs
    <3> QED  BY <3>2 DEF Keeps, Bound
  <2> QED  BY <2>1, <2>2, <2>3
<1> QED  BY <1>5, <1>6, <1>7, <1>8, <1>9, <1>10 DEF ImportStep

\* An import that keytool refuses leaves aliases missing.
LEMMA FailingKeeps ==
  ASSUME WellFormed, Openable, Failing, NoHookFailed', running # None,
         \A p \in Prefixes : Keeps(p)
  PROVE  \A p \in Prefixes : Keeps(p)'
<1>1. InHook /\ faults \subseteq faults' /\ UNCHANGED <<disk, running>>
  BY FailingIs
<1>2. NoHookFailed /\ "raise" \notin faults'  BY <1>1 DEF NoHookFailed
<1>3. ~PebbleLost  BY DEF PebbleLost, WellFormed, Apart
<1>4. ~Abort  BY <1>2 DEF Abort, Fault
<1>5. ~OpenStoreFails
  <2> SUFFICES ASSUME OpenStoreFails  PROVE FALSE  OBVIOUS
  <2>1. hook.pc = "open" /\ reach /\ store.password # hook.password  BY DEF OpenStoreFails
  <2>2. store # None  BY <2>1 DEF WellFormed, Control, Position, Importings
  <2> QED  BY <1>1, <1>2, <2>1, <2>2 DEF Openable
<1>6. ImportFails  BY <1>3, <1>4, <1>5 DEF Failing
<1>7. hook.pc = "import" /\ reach  BY <1>6 DEF ImportFails
<1>8. Trusted' = Trusted /\ chain' = chain  BY <1>1 DEF Trusted, disk
<1>9. hook.prefix \in Prefixes /\ Torn(hook.prefix)
  <2>1. hook.prefix \in Prefixes /\ hook.certs \in Chains /\ store # None
        /\ chain[hook.prefix] = hook.certs
    BY <1>7 DEF WellFormed, Control, Call, Position, Importings, TypeOK, HookType
  <2>2. PICK k \in 0..MaxChain : /\ k < Len(hook.certs)
                                 /\ CurrentAliases = [j \in 1..k |-> hook.certs[j]]
    BY <1>7 DEF WellFormed, Control, Position
  <2>3. Trusted[hook.prefix] = CurrentAliases  BY <2>1 DEF Trusted, CurrentAliases
  <2>4. DOMAIN Trusted[hook.prefix] = 1..k  BY <2>2, <2>3
  <2>5. Len(hook.certs) \in 0..MaxChain /\ MaxChain \in Nat
    BY <2>1, ChainIsSequence, TruststoreAssumption
  <2>6. Len(hook.certs) \notin 1..k /\ Len(hook.certs) \in 1..Len(hook.certs)
    BY <2>2, <2>5
  <2> QED  BY <2>1, <2>4, <2>6, AbsentAssumption DEF Torn
<1>10. ASSUME NEW p \in Prefixes  PROVE Keeps(p)'
  <2>1. CASE p = hook.prefix
    <3>1. Torn(p)  BY <1>9, <2>1
    <3>2. Torn(p)'  BY <1>8, <3>1 DEF Torn
    <3> QED  BY <3>2 DEF Keeps
  <2>2. CASE p # hook.prefix
    <3>1. ~Bound(p)  BY <1>7, <2>2 DEF Bound
    <3> QED  BY <1>1, <1>8, <3>1, KeepsKept
  <2> QED  BY <2>1, <2>2
<1> QED  BY <1>10

\* PolarisManager.update restarts the service if it was told to.
LEMMA UpdateKeeps ==
  ASSUME WellFormed, Openable, NoHookFailed, Update, running' # None,
         running # None => storage # None /\ \A p \in Prefixes : Keeps(p)
  PROVE  storage # None /\ \A p \in Prefixes : Keeps(p)'
<1>1. hook.pc = "update" /\ InHook /\ UNCHANGED <<store, chain>>
  BY DEF Update, InHook
<1>2. Trusted' = Trusted /\ chain' = chain  BY <1>1 DEF Trusted
<1>3. storage # None
  BY DEF Update
<1>4. running' = IF hook.force \/ file # storage \/ running = None
                 THEN StartedService ELSE running
  BY <1>3 DEF Update
<1>5. CASE hook.force \/ file # storage \/ running = None
  <2>1. hook.password = None => store = None
    <3> SUFFICES ASSUME hook.password = None, store # None  PROVE FALSE  OBVIOUS
    <3>1. store.password = hook.password  BY <1>1 DEF Openable
    <3>2. store.password # None  BY TruststoreAssumption DEF WellFormed, TypeOK, Keystores
    <3> QED  BY <3>1, <3>2
  <2>2. running'.trust = Trusted  BY <1>4, <1>5, <2>1 DEF StartedService, Trusted
  <2> QED  BY <1>2, <1>3, <2>2 DEF Keeps
<1>6. CASE ~(hook.force \/ file # storage \/ running = None)
  <2>1. running' = running /\ running # None  BY <1>4, <1>6
  <2>2. \A p \in Prefixes : ~Bound(p)  BY <1>1, <1>6 DEF Bound
  <2> QED  BY <1>2, <1>3, <2>1, <2>2, KeepsKept
<1> QED  BY <1>5, <1>6

\* Outside an import and an update no restart is due, so none is forgotten.
LEMMA IdleKeeps ==
  ASSUME hook.pc \in {"idle", "error", "run"} \/ hook' = hook,
         UNCHANGED <<Trusted, chain, running>>,
         \A p \in Prefixes : Keeps(p)
  PROVE  \A p \in Prefixes : Keeps(p)'
<1> SUFFICES ASSUME NEW p \in Prefixes  PROVE Keeps(p)'  OBVIOUS
<1>1. Bound(p) => Bound(p)'  BY DEF Bound
<1> QED  BY <1>1, KeepsKept

\* Which event the hook is for, and what is noticed and deferred, while the storage stays.
LEMMA StaysUnbroken ==
  ASSUME WellFormed, [Next]_vars, Unbroken, StorageStays'
  PROVE  Unbroken'
<1>1. CASE AnyEdit
  <2>1. UNCHANGED <<hook, deferred>>  BY <1>1, AnyEditIs
  <2>2. PICK kind \in EditKinds, event \in Events \ {"s3_gone"} :
          Edit(kind, event) \/ (kind = "storage" /\ Edit(kind, "s3_gone"))
    BY <1>1 DEF AnyEdit, ChangeCertificates, ChangeStorageCertificates, ChangeSettings,
                RemoveStorage, RelateStorage, EditKinds, Events
  <2>3. ~(kind = "storage" /\ Edit(kind, "s3_gone"))
    BY EditIs DEF StorageStays, WellFormed, Events
  <2>4. notices' = notices \cup {event}  BY <2>2, <2>3 DEF Edit
  <2> QED  BY <2>1, <2>4 DEF Unbroken
<1>2. CASE Begin \/ Update \/ ImportStep
  <2>1. UNCHANGED <<notices, deferred>> /\ InHook
    BY <1>2, ImportStepAt DEF Begin, Update, InHook
  <2>2. hook'.event = hook.event
    <3>1. CASE ImportStep  BY <3>1, ImportStepIs
    <3>2. CASE Begin
      <4>1. PICK h \in Handlers, hk \in HookType : Taken(hk, h) /\ Entered(hk, h)
        BY <3>2, BeginIs DEF WellFormed
      <4> QED
        BY <4>1 DEF Taken, Entered, DefersFirst, Skips, Imports, Updates, Carried
    <3>3. CASE Update
      <4>1. hook \in HookType /\ hook' = Returned(hook)
        BY <3>3 DEF Update, WellFormed, TypeOK
      <4> QED  BY <4>1, ReturnedIs DEF Carried
    <3> QED  BY <1>2, <3>1, <3>2, <3>3
  <2> QED  BY <2>1, <2>2, NoneWithdraws DEF Unbroken
<1>3. CASE Failing
  <2>1. InHook /\ hook' = FailedHook(hook.event) /\ UNCHANGED <<notices, deferred>>
    BY <1>3, FailingIs
  <2>2. hook.event \in Events  BY <2>1 DEF WellFormed, Control, Context, InHook
  <2>3. hook'.event = hook.event  BY <2>1, <2>2, FailedHookIs
  <2> QED  BY <2>1, <2>3, NoneWithdraws DEF Unbroken
<1>4. CASE Commit
  <2>1. InHook /\ deferred' = hook.defers /\ hook' = IdleHook /\ UNCHANGED notices
    BY <1>4 DEF Commit, InHook
  <2>2. hook.defers \subseteq Charges  BY <2>1 DEF WellFormed, Control, Context
  <2> QED  BY <2>1, <2>2, NoneWithdraws, IdleHookIs DEF Unbroken
<1>5. CASE Retry
  <2>1. hook.event \in Events /\ hook' = NewHook(hook.event) /\ UNCHANGED <<notices, deferred>>
        /\ hook.pc # "idle"
    BY <1>5 DEF Retry, WellFormed, Control, Context
  <2>2. hook'.event = hook.event  BY <2>1, NewHookIs DEF WellFormed
  <2> QED  BY <2>1, <2>2 DEF Unbroken
<1>6. CASE \E event \in Events : Dispatch(event)
  <2>1. PICK event \in Events : Dispatch(event)  BY <1>6
  <2>2. event # "s3_gone" /\ hook' = NewHook(event) /\ notices' \subseteq notices
        /\ UNCHANGED deferred
    BY <2>1 DEF Dispatch, Unbroken
  <2>3. hook'.event = event  BY <2>2, NewHookIs DEF WellFormed
  <2> QED  BY <2>2, <2>3 DEF Unbroken
<1>7. CASE ContainerRestart \/ UNCHANGED vars
  BY <1>7 DEF ContainerRestart, vars, Unbroken
<1>8. CASE PebbleUp  BY <1>8 DEF PebbleUp, Unbroken
<1> QED
  BY <1>1, <1>2, <1>3, <1>4, <1>5, <1>6, <1>7, <1>8, StepsAre DEF ImportStep

LEMMA NextAbreast == WellFormed /\ Openable /\ Abreast /\ [Next]_vars => Abreast'
<1> SUFFICES ASSUME WellFormed, Openable, Abreast, [Next]_vars, NoHookFailed', StorageStays'
             PROVE  /\ Unbroken'
                    /\ running' # None => storage' # None /\ \A p \in Prefixes : Keeps(p)'
  BY DEF Abreast
<1>1. NoHookFailed /\ StorageStays  BY TimesPass
<1>2. Unbroken /\ (running # None => storage # None /\ \A p \in Prefixes : Keeps(p))
  BY <1>1 DEF Abreast
<1>3. Unbroken'  BY <1>2, StaysUnbroken
<1> SUFFICES ASSUME running' # None
             PROVE  storage' # None /\ \A p \in Prefixes : Keeps(p)'
  BY <1>3
<1>4. CASE Update
  BY <1>1, <1>2, <1>4, UpdateKeeps DEF Update, relations
<1>5. running' = running \/ Update
  <2>1. CASE Failing  BY <2>1, FailingIs
  <2>2. CASE AnyEdit  BY <2>2, AnyEditIs
  <2>3. CASE ImportStep  BY <2>3, ImportStepAt
  <2>4. CASE UNCHANGED vars  BY <2>4 DEF vars
  <2> QED
    BY <2>1, <2>2, <2>3, <2>4, StepsAre DEF ImportStep, Begin, Commit, Retry, Dispatch,
       PebbleUp, ContainerRestart
<1>6. CASE ~Update
  <2>1. running' = running /\ storage # None /\ \A p \in Prefixes : Keeps(p)
    BY <1>2, <1>5, <1>6
  <2>2. storage' # None
    <3>1. CASE AnyEdit
      <4>1. ~RemoveStorage
        BY EditIs DEF RemoveStorage, StorageStays, WellFormed, Events
      <4>2. storage' \in Settings \/ storage' = storage
        BY <3>1, <4>1 DEF AnyEdit, ChangeCertificates, ChangeStorageCertificates,
                          ChangeSettings, RelateStorage
      <4> QED  BY <2>1, <4>2, TruststoreAssumption
    <3>2. CASE Failing  BY <2>1, <3>2, FailingIs DEF relations
    <3>3. CASE ImportStep  BY <2>1, <3>3, ImportStepAt DEF relations
    <3>4. CASE UNCHANGED vars  BY <2>1, <3>4 DEF vars, relations
    <3> QED
      BY <1>6, <2>1, <3>1, <3>2, <3>3, <3>4, StepsAre DEF ImportStep, Begin, Commit, Retry,
         Dispatch, PebbleUp, ContainerRestart, relations
  <2>3. CASE ImportStep  BY <1>2, <2>1, <2>2, <2>3, ImportStepKeeps
  <2>4. CASE Failing  BY <2>1, <2>2, <2>4, FailingKeeps
  <2>5. CASE ~ImportStep /\ ~Failing
    <3>1. ~ContainerRestart  BY <2>1 DEF ContainerRestart
    <3>2. UNCHANGED <<Trusted, chain>>  BY <2>5, <3>1, QuietDisk
    <3>3. hook.pc \in {"idle", "error", "run"} \/ hook' = hook
      BY <1>6, <2>5, <3>1, StepsAre, AnyEditIs DEF ImportStep, Begin, Commit, Retry,
         Dispatch, PebbleUp, vars
    <3> QED  BY <2>1, <2>2, <3>2, <3>3, IdleKeeps
  <2> QED  BY <2>3, <2>4, <2>5
<1> QED  BY <1>4, <1>6

LEMMA InitAbreast == Init => Abreast
BY IdleHookIs DEF Init, Abreast, Unbroken

LEMMA InvAlways == Spec => []IInv
<1>1. Init => IInv
  BY InitWellFormed, InitDue, InitAbreast DEF Init, Openable, IInv
<1>2. IInv /\ [Next]_vars => IInv'
  BY NextWellFormed, NextOpenable, NextDue, NextAbreast DEF IInv
<1> QED  BY <1>1, <1>2, PTL DEF Spec

\* Once nothing is left to handle, the service that runs trusts what is in the keystore:
\* every change of the keystore was followed by a restart, as long as the object storage
\* stayed and no hook failed in between.
THEOREM ServiceTrustsStore == Spec => []RunningTrustsStore
<1>1. ASSUME IInv  PROVE RunningTrustsStore
  <2> SUFFICES ASSUME Quiet, running # None, NoHookFailed, StorageStays
               PROVE  running.trust = Trusted
    BY DEF RunningTrustsStore, StorageStays
  <2>1. running.trust \in [Prefixes -> Aliases] /\ Trusted \in [Prefixes -> Aliases]
    BY <1>1, TrustedIs DEF IInv, WellFormed, TypeOK
  <2>2. ASSUME NEW p \in Prefixes  PROVE running.trust[p] = Trusted[p]
    <3>1. Keeps(p)  BY <1>1 DEF IInv, Abreast
    <3>2. ~Bound(p)  BY DEF Quiet, Bound
    <3>3. Agrees(p)  BY <1>1, QuietAgrees DEF IInv
    <3>4. ~Torn(p)  BY <3>3 DEF Agrees, Torn
    <3> QED  BY <3>1, <3>2, <3>4 DEF Keeps
  <2> QED  BY <2>1, <2>2
<1> QED  BY <1>1, InvAlways, PTL

===============================================================================
