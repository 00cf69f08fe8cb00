---------------------------- MODULE Database_proofs ----------------------------
(***************************************************************************)
(* What the relation to the database keeps, for any number of units,       *)
(* publications and faults: credentials are never published in clear,      *)
(* units are told of the statuses that are raised, requests arrive, and    *)
(* Polaris runs on the address that is published.                          *)
(***************************************************************************)
EXTENDS Database, TLAPS

\* The fields of a databag that was written over.
LEMMA DomainOver == \A f, g : DOMAIN Over(f, g) = DOMAIN f \cup DOMAIN g
  BY DEF Over

\* The fields of a part of a databag.
LEMMA DomainPart == \A b, fields : DOMAIN Part(b, fields) = DOMAIN b \cap fields
  BY DEF Part, Restrict

\* The fields that have to be secret.
LEMMA SecretFieldsAre == SecretFields = {"username", "password", "tls", "tls-ca"}
  BY DEF SecretFields, GroupOf

\* Only references to secrets are published for what goes into secrets.
LEMMA DomainUris ==
  \A fields \in SUBSET SecretFields : DOMAIN Uris(fields) \subseteq {"secret-user", "secret-tls"}
<1> SUFFICES ASSUME NEW fields \in SUBSET SecretFields
             PROVE  DOMAIN Uris(fields) \subseteq {"secret-user", "secret-tls"}
  OBVIOUS
<1> DEFINE added == {g \in {GroupOf[f] : f \in fields} : ~Exists(g)}
<1>1. DOMAIN Uris(fields) = {SecretField[g] : g \in added}
  BY DEF Uris
<1>2. added \subseteq {"user", "tls"}
  BY SecretFieldsAre DEF GroupOf
<1>3. SecretField["user"] = "secret-user" /\ SecretField["tls"] = "secret-tls"
  BY DEF SecretField
<1> HIDE DEF added
<1> QED
  BY <1>1, <1>2, <1>3

\* Who asks for a database asks for secrets with it, and no credential is in clear.
CredentialsInv ==
  /\ "database" \in request => "requested-secrets" \in request
  /\ CredentialsStaySecret

\* A write of any fields puts no credential in clear.
LEMMA WriteStaysSecret ==
  ASSUME CredentialsInv, NEW data, UpdateRelationData(data)
  PROVE  CredentialsStaySecret'
<1> DEFINE secret == SecretPart(DOMAIN data)
           clear  == DOMAIN data \ secret
<1>0. secret \subseteq SecretFields
  BY DEF SecretPart, RequestedSecrets
<1>1. DOMAIN bag' = DOMAIN bag \cup DOMAIN Uris(secret) \cup clear
  <2>1. bag' = Over(Over(Uris(secret), Part(data, clear)), bag)
    BY DEF UpdateRelationData, BagWith
  <2>2. DOMAIN Part(data, clear) = clear
    BY DomainPart
  <2>3. DOMAIN Over(Uris(secret), Part(data, clear)) = DOMAIN Uris(secret) \cup DOMAIN Part(data, clear)
    BY DomainOver
  <2>4. DOMAIN bag' = DOMAIN Over(Uris(secret), Part(data, clear)) \cup DOMAIN bag
    BY <2>1, DomainOver
  <2> HIDE DEF secret, clear
  <2> QED
    BY <2>2, <2>3, <2>4
<1>2. SecretFields \cap clear = {}
  <2>1. CASE "database" \in request
    <3>1. RequestedSecrets = SecretFields
      BY <2>1 DEF CredentialsInv, RequestedSecrets
    <3> QED
      BY <3>1 DEF SecretPart, CredentialsInv, CredentialsStaySecret
  <2>2. CASE "database" \notin request
    BY <2>2, SecretFieldsAre DEF UpdateRelationData, Premature
  <2> QED
    BY <2>1, <2>2
<1> QED
  BY <1>0, <1>1, <1>2, DomainUris, SecretFieldsAre DEF CredentialsInv, CredentialsStaySecret

\* Neither does taking fields away.
LEMMA DeletionStaysSecret ==
  ASSUME CredentialsInv, NEW fields, DeleteRelationData(fields)
  PROVE  CredentialsStaySecret'
<1>1. DOMAIN bag' \subseteq DOMAIN bag
  BY DomainPart DEF DeleteRelationData
<1> QED
  BY <1>1 DEF CredentialsInv, CredentialsStaySecret

LEMMA InitCredentials == Init => CredentialsInv
  BY DEF Init, CredentialsInv, CredentialsStaySecret, EmptyBag

LEMMA StepCredentials == CredentialsInv /\ [Next]_vars => CredentialsInv'
<1> SUFFICES ASSUME CredentialsInv, [Next]_vars
             PROVE  CredentialsInv'
  OBVIOUS
<1>1. CASE UNCHANGED vars
  BY <1>1 DEF vars, CredentialsInv, CredentialsStaySecret
<1>2. ASSUME NEW u \in Units, NEW kind \in Kinds, Hook(u, kind)
      PROVE  CredentialsInv'
  <2>1. request' \in {request, {"requested-secrets", "database"}}
    BY <1>2 DEF Hook, Kinds, LibraryKinds, Created, Request, RelationChanged, SecretChanged
  <2>2. bag' = bag
    BY <1>2 DEF Hook, provider
  <2> QED
    BY <2>1, <2>2 DEF CredentialsInv, CredentialsStaySecret
<1>3. ASSUME NEW u \in Units, NEW kind \in Kinds, HookRaises(u, kind)
      PROVE  CredentialsInv'
  BY <1>3 DEF HookRaises, provider, CredentialsInv, CredentialsStaySecret
<1>4. ASSUME NEW u \in Units, NEW v \in Units, HookDeposed(u, v)
      PROVE  CredentialsInv'
  BY <1>4 DEF HookDeposed, provider, CredentialsInv, CredentialsStaySecret
<1>5. ASSUME NEW u \in Units, Elect(u) \/ ContainerRestart(u) \/ PebbleUp(u)
      PROVE  CredentialsInv'
  BY <1>5 DEF Elect, ContainerRestart, PebbleUp, provider, CredentialsInv, CredentialsStaySecret
<1>6. ASSUME NEW s \in Servers, Serve(s) \/ FailOver(s)
      PROVE  CredentialsInv'
  BY <1>6 DEF Serve, FailOver, provider, CredentialsInv, CredentialsStaySecret
<1>7. ASSUME NEW data, Publish(data)
      PROVE  CredentialsInv'
  BY <1>7, WriteStaysSecret DEF Publish, CredentialsInv
<1>8. ASSUME NEW fields, Delete(fields)
      PROVE  CredentialsInv'
  BY <1>8, DeletionStaysSecret DEF Delete, CredentialsInv
<1>9. CASE BecomeReady
  BY <1>9 DEF BecomeReady, CredentialsInv, CredentialsStaySecret
<1> QED
  BY <1>1, <1>2, <1>3, <1>4, <1>5, <1>6, <1>7, <1>8, <1>9
  DEF Next, SetCredentials, SetEndpoints, SetReadOnlyEndpoints, SetTls, SetTlsCa, RaiseStatus,
      ResolveStatus, ClearStatuses, DeleteEndpoints, DeleteCredentials, DeleteTls,
      SetSubordinated

\* The credentials of a requirer that asks for secrets are never published in clear
\* (ProviderData._update_relation_data, Data._process_secret_fields).
THEOREM CredentialsAlwaysSecret == Spec => []CredentialsStaySecret
<1>1. CredentialsInv => CredentialsStaySecret
  BY DEF CredentialsInv
<1> QED
  BY InitCredentials, StepCredentials, <1>1, PTL DEF Spec

-------------------------------------------------------------------------------
(* What a write or a deletion makes of the secrets                          *)

\* The fields of the secret of a group.
FieldsOf(g) == {f \in SecretFields : GroupOf[f] = g}

\* A secret as it is kept: its URI counts the publications, its fields are those of its
\* group, and the user's are there together.
SecretsKept ==
  /\ DOMAIN secrets = Groups
  /\ \A g \in Groups :
       /\ DOMAIN secrets[g] = {"uri", "content"}
       /\ secrets[g].uri \in Nat /\ secrets[g].uri + edits <= MaxEdits
       /\ DOMAIN secrets[g].content \subseteq FieldsOf(g)

LEMMA GroupsAre ==
  /\ Groups = {"user", "tls"}
  /\ FieldsOf("user") = {"username", "password"} /\ FieldsOf("tls") = {"tls", "tls-ca"}
  /\ SecretField["user"] = "secret-user" /\ SecretField["tls"] = "secret-tls"
  /\ \A f \in SecretFields : GroupOf[f] \in Groups /\ f \in FieldsOf(GroupOf[f])
<1>1. DOMAIN GroupOf = {"username", "password", "tls", "tls-ca"}
  BY DEF GroupOf
<1>2. /\ GroupOf["username"] = "user" /\ GroupOf["password"] = "user"
      /\ GroupOf["tls"] = "tls" /\ GroupOf["tls-ca"] = "tls"
  BY DEF GroupOf
<1>3. SecretField["user"] = "secret-user" /\ SecretField["tls"] = "secret-tls"
  BY DEF SecretField
<1>4. Groups = {"user", "tls"}
  BY <1>1, <1>2 DEF Groups, Range
<1> QED
  BY <1>1, <1>2, <1>3, <1>4 DEF FieldsOf, SecretFields

\* Each group is found by the name of its field.
LEMMA GroupNamed ==
  \A g \in Groups : /\ SecretField[g] \in Range(SecretField)
                    /\ AntiFunction(SecretField)[SecretField[g]] = g
<1> SUFFICES ASSUME NEW g \in Groups
             PROVE  /\ SecretField[g] \in Range(SecretField)
                    /\ AntiFunction(SecretField)[SecretField[g]] = g
  OBVIOUS
<1>1. DOMAIN SecretField = {"user", "tls"}
  BY DEF SecretField
<1>2. SecretField[g] \in Range(SecretField)
  BY <1>1, GroupsAre DEF Range
<1>3. AntiFunction(SecretField)[SecretField[g]]
        = CHOOSE s \in DOMAIN SecretField :
            SecretField[g] \in Range(SecretField) => SecretField[s] = SecretField[g]
  BY <1>2 DEF AntiFunction, Inverse
<1>4. \A s \in DOMAIN SecretField : SecretField[s] = SecretField[g] => s = g
  BY <1>1, GroupsAre
<1>5. g \in DOMAIN SecretField
  BY <1>1, GroupsAre
<1> QED
  BY <1>2, <1>3, <1>4, <1>5

\* Every field that has to be secret goes into a secret.
LEMMA SecretPartIs ==
  ASSUME CredentialsInv, NEW data, UpdateRelationData(data)
  PROVE  SecretPart(DOMAIN data) = DOMAIN data \cap SecretFields
<1>1. CASE "database" \in request
  BY <1>1 DEF CredentialsInv, CredentialsStaySecret, RequestedSecrets, SecretPart
<1>2. CASE "database" \notin request
  BY <1>2, SecretFieldsAre DEF UpdateRelationData, Premature, SecretPart, RequestedSecrets
<1> QED
  BY <1>1, <1>2

\* A databag refers to the secret of g as the one before it did.
SameReference(g) ==
  /\ SecretField[g] \in DOMAIN bag' <=> SecretField[g] \in DOMAIN bag
  /\ SecretField[g] \in DOMAIN bag => bag'[SecretField[g]] = bag[SecretField[g]]

\* What a databag has at the name of a secret after a write.
LEMMA ReferenceWritten ==
  ASSUME CredentialsInv, NEW data, UpdateRelationData(data), NEW g \in Groups,
         SecretField[g] \notin DOMAIN data
  PROVE  /\ DOMAIN data \cap FieldsOf(g) # {} /\ ~Exists(g)
              => SecretField[g] \in DOMAIN bag' /\ bag'[SecretField[g]] = secrets[g].uri + 1
         /\ DOMAIN data \cap FieldsOf(g) = {} \/ Exists(g) => SameReference(g)
<1> DEFINE secret == SecretPart(DOMAIN data)
           added  == {h \in {GroupOf[f] : f \in secret} : ~Exists(h)}
           clear  == Part(data, DOMAIN data \ secret)
           new    == Over(Uris(secret), clear)
<1>1. secret = DOMAIN data \cap SecretFields
  BY SecretPartIs
<1>2. g \in added <=> DOMAIN data \cap FieldsOf(g) # {} /\ ~Exists(g)
  <2> HIDE DEF secret
  <2> QED  BY <1>1 DEF FieldsOf
<1>3. added \subseteq Groups
  <2> HIDE DEF secret
  <2> QED  BY <1>1, GroupsAre
<1>4. Uris(secret) = [f \in {SecretField[h] : h \in added} |->
                        secrets[AntiFunction(SecretField)[f]].uri + 1]
  BY DEF Uris
<1>5. DOMAIN clear = DOMAIN data \ secret
  BY DomainPart
<1>6. bag' = Over(new, bag)
  BY DEF UpdateRelationData, BagWith
<1> HIDE DEF added, clear, secret
<1>7. SecretField[g] \in DOMAIN Uris(secret) <=> g \in added
  BY <1>3, <1>4, GroupsAre
<1>8. g \in added => Uris(secret)[SecretField[g]] = secrets[g].uri + 1
  BY <1>4, <1>7, GroupNamed
<1>9. /\ DOMAIN new = DOMAIN Uris(secret) \cup DOMAIN clear
      /\ SecretField[g] \in DOMAIN Uris(secret) => new[SecretField[g]] = Uris(secret)[SecretField[g]]
  BY DomainOver DEF Over
<1> HIDE DEF new
<1>10. /\ DOMAIN bag' = DOMAIN new \cup DOMAIN bag
       /\ SecretField[g] \in DOMAIN new => bag'[SecretField[g]] = new[SecretField[g]]
       /\ SecretField[g] \in DOMAIN bag \ DOMAIN new => bag'[SecretField[g]] = bag[SecretField[g]]
  BY <1>6, DomainOver DEF Over
<1>11. SecretField[g] \in DOMAIN new <=> g \in added
  BY <1>5, <1>7, <1>9
<1>12. CASE g \in added
  BY <1>2, <1>7, <1>8, <1>9, <1>10, <1>11, <1>12
<1>13. CASE g \notin added
  BY <1>2, <1>10, <1>11, <1>13 DEF SameReference
<1> QED
  BY <1>12, <1>13

\* What a write makes of the secret of g.
LEMMA SecretWritten ==
  ASSUME CredentialsInv, NEW data, UpdateRelationData(data), NEW g \in Groups
  PROVE  /\ DOMAIN secrets' = Groups
         /\ DOMAIN data \cap FieldsOf(g) = {} => secrets'[g] = secrets[g]
         /\ DOMAIN data \cap FieldsOf(g) # {} /\ Exists(g) =>
              secrets'[g] = [secrets[g] EXCEPT !.content = Over(Part(data, FieldsOf(g)), @)]
         /\ DOMAIN data \cap FieldsOf(g) # {} /\ ~Exists(g) =>
              secrets'[g] = [uri |-> secrets[g].uri + 1, content |-> Part(data, FieldsOf(g))]
<1> DEFINE secret == SecretPart(DOMAIN data)
<1>1. secret = DOMAIN data \cap SecretFields
  BY SecretPartIs
<1>2. secrets' = SecretsWith(data, secret)
  BY DEF UpdateRelationData
<1> HIDE DEF secret
<1>3. ForGroup(data, secret, g) = Part(data, FieldsOf(g))
  <2>1. DOMAIN data \cap {f \in secret : GroupOf[f] = g} = DOMAIN data \cap FieldsOf(g)
    BY <1>1 DEF FieldsOf
  <2> QED
    BY <2>1 DEF ForGroup, Part
<1>4. DOMAIN Part(data, FieldsOf(g)) = DOMAIN data \cap FieldsOf(g)
  BY DomainPart
<1>5. DOMAIN secrets' = Groups
  BY <1>2 DEF SecretsWith
<1>6. secrets'[g] = IF DOMAIN ForGroup(data, secret, g) = {} THEN secrets[g]
                    ELSE IF Exists(g) THEN UpdatedSecret(data, secret, g)
                    ELSE AddedSecret(data, secret, g)
  BY <1>2 DEF SecretsWith
<1> QED
  BY <1>3, <1>4, <1>5, <1>6 DEF UpdatedSecret, AddedSecret

\* What a deletion leaves of the secret of g and of its reference.
LEMMA SecretDeleted ==
  ASSUME DOMAIN secrets = Groups, NEW fields, DeleteRelationData(fields),
         fields \cap {"secret-user", "secret-tls"} = {}, NEW g \in Groups
  PROVE  /\ DOMAIN secrets' = Groups
         /\ \/ secrets'[g] = secrets[g] /\ SameReference(g)
            \/ /\ Exists(g) /\ fields \subseteq DOMAIN secrets[g].content
               /\ secrets'[g] = [secrets[g] EXCEPT !.content = Part(@, SecretFields \ fields)]
               /\ IF DOMAIN secrets[g].content \cap (SecretFields \ fields) = {}
                  THEN SecretField[g] \notin DOMAIN bag' ELSE SameReference(g)
<1> DEFINE losing == {h \in Groups : (\E f \in SecretPart(fields) : GroupOf[f] = h) /\ Loses(h, fields)}
           left(h) == Part(Content(h), SecretFields \ fields)
           gone   == {SecretField[h] : h \in {h \in losing : DOMAIN left(h) = {}}}
           normal == {f \in fields : f \notin SecretPart(fields) \/ GroupOf[f] \notin losing}
           kept   == DOMAIN bag \ (gone \cup normal)
<1>1. /\ bag' = Part(bag, kept)
      /\ secrets' = [h \in Groups |-> IF h \in losing THEN [secrets[h] EXCEPT !.content = left(h)]
                                      ELSE secrets[h]]
  BY DEF DeleteRelationData
<1>2. SecretField[g] \notin normal
  BY GroupsAre
<1>3. SecretField[g] \in gone <=> g \in losing /\ DOMAIN left(g) = {}
  <2>1. \A h \in losing : SecretField[h] = SecretField[g] => h = g  BY GroupsAre
  <2> HIDE DEF losing, left
  <2> QED  BY <2>1
<1>4. g \in losing => /\ Exists(g) /\ Content(g) = secrets[g].content
                      /\ fields \subseteq DOMAIN secrets[g].content
  BY DEF Loses, Content
<1>5. DOMAIN left(g) = DOMAIN Content(g) \cap (SecretFields \ fields)
  BY DomainPart
<1>6. left(g) = Part(Content(g), SecretFields \ fields)
  OBVIOUS
<1> HIDE DEF gone, normal
<1>7. SecretField[g] \in kept <=> SecretField[g] \in DOMAIN bag \ gone
  BY <1>2
<1> HIDE DEF kept
<1>8. /\ DOMAIN bag' = DOMAIN bag \cap kept
      /\ SecretField[g] \in DOMAIN bag' => bag'[SecretField[g]] = bag[SecretField[g]]
  BY <1>1, DomainPart DEF Part, Restrict
<1> HIDE DEF losing, left
<1>9. DOMAIN secrets' = Groups
  BY <1>1
<1>10. CASE g \notin losing
  <2>1. secrets'[g] = secrets[g]  BY <1>1, <1>10
  <2> QED  BY <2>1, <1>3, <1>7, <1>8, <1>9, <1>10 DEF SameReference
<1>11. CASE g \in losing
  <2>1. secrets'[g] = [secrets[g] EXCEPT !.content = left(g)]  BY <1>1, <1>11
  <2>2. secrets'[g] = [secrets[g] EXCEPT !.content = Part(@, SecretFields \ fields)]
    BY <2>1, <1>4, <1>6, <1>11
  <2> QED  BY <2>2, <1>3, <1>4, <1>5, <1>7, <1>8, <1>9, <1>11 DEF SameReference
<1> QED
  BY <1>10, <1>11

\* A deletion takes away the fields, of the others at most references.
LEMMA DeletionOutcome ==
  ASSUME NEW fields, DeleteRelationData(fields)
  PROVE  /\ DOMAIN bag' \subseteq DOMAIN bag
         /\ \A f \in DOMAIN bag' : bag'[f] = bag[f]
         /\ \A f \in DOMAIN bag \ (fields \cup {"secret-user", "secret-tls"}) : f \in DOMAIN bag'
<1> DEFINE losing == {g \in Groups : (\E f \in SecretPart(fields) : GroupOf[f] = g) /\ Loses(g, fields)}
           left(g) == Part(Content(g), SecretFields \ fields)
           gone   == {SecretField[g] : g \in {h \in losing : DOMAIN left(h) = {}}}
           normal == {f \in fields : f \notin SecretPart(fields) \/ GroupOf[f] \notin losing}
           kept   == DOMAIN bag \ (gone \cup normal)
<1>1. bag' = Part(bag, kept)
  BY DEF DeleteRelationData
<1>2. gone \subseteq {"secret-user", "secret-tls"}
  BY GroupsAre
<1>3. normal \subseteq fields
  OBVIOUS
<1> HIDE DEF gone, normal
<1>4. DOMAIN bag' = DOMAIN bag \cap kept /\ \A f \in DOMAIN bag' : bag'[f] = bag[f]
  <2> HIDE DEF kept
  <2> QED  BY <1>1, DomainPart DEF Part, Restrict
<1> QED
  BY <1>2, <1>3, <1>4

\* A write adds its fields, and references.
LEMMA WriteDomain ==
  ASSUME NEW data, UpdateRelationData(data)
  PROVE  DOMAIN bag' \subseteq DOMAIN bag \cup DOMAIN data \cup {"secret-user", "secret-tls"}
<1> DEFINE secret == SecretPart(DOMAIN data)
           clear  == Part(data, DOMAIN data \ secret)
<1>1. DOMAIN Uris(secret) \subseteq {"secret-user", "secret-tls"}
  BY DomainUris DEF SecretPart, RequestedSecrets
<1>2. bag' = Over(Over(Uris(secret), clear), bag)
  BY DEF UpdateRelationData, BagWith
<1>3. DOMAIN clear \subseteq DOMAIN data
  BY DomainPart
<1>4. DOMAIN Over(Uris(secret), clear) = DOMAIN Uris(secret) \cup DOMAIN clear
  BY DomainOver
<1>5. DOMAIN bag' = DOMAIN Over(Uris(secret), clear) \cup DOMAIN bag
  BY <1>2, DomainOver
<1> HIDE DEF secret, clear
<1> QED
  BY <1>1, <1>3, <1>4, <1>5

-------------------------------------------------------------------------------
(* The statuses the requirer is told of *)

\* The codes that are published.
CodesPublished ==
  "status" \in DOMAIN bag => bag["status"] \in SUBSET Codes

\* What was saved on u is what is published, or u will compare them.
WillCompare(u) ==
  snapshot[u] = bag \/ "changed" \in notices[u] \/ failed[u] = "changed"

\* As long as the provider is no subordinate, each unit was told of the statuses it
\* saw, and saw those that are published or has still to look.
StatusesInv ==
  /\ DOMAIN snapshot = Units /\ DOMAIN told = Units
  /\ DOMAIN notices = Units /\ DOMAIN failed = Units
  /\ CodesPublished
  /\ "subordinated" \notin DOMAIN bag =>
       \A u \in Units : told[u] = StatusCodes(snapshot[u]) /\ WillCompare(u)

\* What a unit finds published.
LEMMA CurrentCodesAre ==
  ASSUME CodesPublished
  PROVE  CurrentCodes = StatusCodes(bag) /\ CurrentCodes \in SUBSET Codes
<1>1. Fetched("status") = Published("status")
  BY SecretFieldsAre DEF Fetched
<1> QED
  BY <1>1, ConstantsAssumption DEF CodesPublished, CurrentCodes, StatusCodes, Published

\* A field that goes into no secret is published as it is, and the others stay.
LEMMA WriteOutcome ==
  ASSUME NEW data, UpdateRelationData(data), NEW f,
         f \notin SecretFields \cup {"secret-user", "secret-tls"}
  PROVE  /\ f \in DOMAIN bag' <=> f \in DOMAIN bag \cup DOMAIN data
         /\ f \in DOMAIN data => bag'[f] = data[f]
         /\ f \in DOMAIN bag \ DOMAIN data => bag'[f] = bag[f]
<1> DEFINE secret == SecretPart(DOMAIN data)
           clear  == Part(data, DOMAIN data \ secret)
           new    == Over(Uris(secret), clear)
<1>1. secret \subseteq SecretFields
  BY DEF SecretPart, RequestedSecrets
<1>2. f \notin DOMAIN Uris(secret)
  BY <1>1, DomainUris
<1>3. f \notin secret
  BY <1>1
<1>4. bag' = Over(new, bag)
  BY DEF UpdateRelationData, BagWith
<1>5. DOMAIN clear = DOMAIN data \ secret
  BY DomainPart
<1>6. f \in DOMAIN clear => clear[f] = data[f]
  BY <1>5 DEF Part, Restrict
<1> HIDE DEF secret, clear
<1>7. DOMAIN new = DOMAIN Uris(secret) \cup DOMAIN clear
  BY DomainOver
<1>8. f \in DOMAIN clear => new[f] = clear[f]
  BY <1>2 DEF Over
<1> HIDE DEF new
<1>9. DOMAIN bag' = DOMAIN new \cup DOMAIN bag
  BY <1>4, DomainOver
<1>10. f \in DOMAIN new => bag'[f] = new[f]
  BY <1>4 DEF Over
<1>11. f \in DOMAIN bag \ DOMAIN new => bag'[f] = bag[f]
  BY <1>4 DEF Over
<1>12. f \in DOMAIN new <=> f \in DOMAIN data
  BY <1>2, <1>3, <1>5, <1>7
<1> QED
  BY <1>2, <1>3, <1>5, <1>6, <1>7, <1>8, <1>9, <1>10, <1>11, <1>12

\* Whoever changes the databag has every unit compare.
LEMMA AnnouncedToAll ==
  ASSUME StatusesInv, NotifyAll(Announced), UNCHANGED <<snapshot, told, failed>>,
         "subordinated" \in DOMAIN bag => "subordinated" \in DOMAIN bag', CodesPublished'
  PROVE  StatusesInv'
<1>1. \A u \in Units : notices'[u] = notices[u] \cup Announced
  BY DEF NotifyAll
<1>2. DOMAIN notices' = Units
  BY DEF NotifyAll
<1>3. ASSUME NEW u \in Units, WillCompare(u)
      PROVE  WillCompare(u)'
  <2>1. CASE bag' = bag
    BY <2>1, <1>1, <1>3 DEF WillCompare
  <2>2. CASE bag' # bag
    BY <2>2, <1>1 DEF WillCompare, Announced
  <2> QED
    BY <2>1, <2>2
<1> QED
  BY <1>2, <1>3 DEF StatusesInv, StatusCodes

\* A publication of codes, or of other fields.
LEMMA PublishStatuses ==
  ASSUME StatusesInv, NEW data, Publish(data),
         "status" \in DOMAIN data => data["status"] \in SUBSET Codes
  PROVE  StatusesInv'
<1>1. UpdateRelationData(data)
  BY DEF Publish
<1>2. CodesPublished'
  BY <1>1, WriteOutcome, SecretFieldsAre DEF StatusesInv, CodesPublished
<1>3. "subordinated" \in DOMAIN bag => "subordinated" \in DOMAIN bag'
  BY <1>1, WriteOutcome, SecretFieldsAre
<1> QED
  BY <1>2, <1>3, AnnouncedToAll DEF Publish, requirer

\* A deletion of fields.
LEMMA DeleteStatuses ==
  ASSUME StatusesInv, NEW fields, Delete(fields), "subordinated" \notin fields
  PROVE  StatusesInv'
<1>1. DeleteRelationData(fields)
  BY DEF Delete
<1>2. CodesPublished'
  BY <1>1, DeletionOutcome DEF StatusesInv, CodesPublished
<1>3. "subordinated" \in DOMAIN bag => "subordinated" \in DOMAIN bag'
  BY <1>1, DeletionOutcome
<1> QED
  BY <1>2, <1>3, AnnouncedToAll DEF Delete, requirer

\* What a hook that is over, or failed, leaves of the comparison of u.
LEMMA BeginsKeeps ==
  ASSUME StatusesInv, NEW u \in Units, NEW kind, Begins(u, kind), NEW v \in Units,
         WillCompare(v), u # v \/ kind # "changed", UNCHANGED <<bag, snapshot>>,
         NEW k, failed' = [failed EXCEPT ![u] = k]
  PROVE  WillCompare(v)'
<1>1. notices'[v] = IF v = u THEN notices[v] \ {kind} ELSE notices[v]
  BY DEF Begins, StatusesInv
<1>2. failed'[v] = IF v = u THEN k ELSE failed[v]
  BY DEF StatusesInv
<1>3. u = v => failed[u] # "changed"
  BY ConstantsAssumption DEF Begins
<1> QED
  BY <1>1, <1>2, <1>3 DEF WillCompare

\* A hook that does not compare.
LEMMA OtherHookStatuses ==
  ASSUME StatusesInv, NEW u \in Units, NEW kind, Begins(u, kind), kind # "changed",
         UNCHANGED <<bag, snapshot, told>>, NEW k, failed' = [failed EXCEPT ![u] = k]
  PROVE  StatusesInv'
<1>1. \A v \in Units : WillCompare(v) => WillCompare(v)'
  BY BeginsKeeps
<1>2. DOMAIN notices' = Units /\ DOMAIN failed' = Units
  BY DEF Begins, StatusesInv
<1> QED
  BY <1>1, <1>2 DEF StatusesInv, CodesPublished, StatusCodes

\* A hook that does: the unit is told of the difference, and saves what it saw.
LEMMA ComparisonStatuses ==
  ASSUME StatusesInv, NEW u \in Units, Begins(u, "changed"), RelationChanged(u),
         UNCHANGED bag, failed' = [failed EXCEPT ![u] = None]
  PROVE  StatusesInv'
<1>1. /\ DOMAIN snapshot' = Units /\ DOMAIN told' = Units
      /\ DOMAIN notices' = Units /\ DOMAIN failed' = Units
  BY DEF Begins, RelationChanged, StatusesInv
<1>2. CodesPublished'
  BY DEF StatusesInv, CodesPublished
<1>3. ASSUME "subordinated" \notin DOMAIN bag, NEW v \in Units
      PROVE  told'[v] = StatusCodes(snapshot'[v]) /\ WillCompare(v)'
  <2>1. CASE v = u
    <3>1. snapshot'[u] = bag
      BY <1>3 DEF RelationChanged, Saved, Withheld, StatusesInv
    <3>2. CurrentCodes = StatusCodes(bag)
      BY CurrentCodesAre DEF StatusesInv
    <3>3. told'[u] = (told[u] \cup Raised(snapshot[u])) \ Resolved(snapshot[u])
      BY DEF RelationChanged, StatusesInv
    <3>4. told[u] = StatusCodes(snapshot[u])
      BY <1>3 DEF StatusesInv
    <3>5. told'[u] = CurrentCodes
      BY <3>3, <3>4 DEF Raised, Resolved
    <3> QED
      BY <2>1, <3>1, <3>2, <3>5 DEF WillCompare
  <2>2. CASE v # u
    <3>1. told'[v] = told[v] /\ snapshot'[v] = snapshot[v]
      BY <2>2 DEF RelationChanged, StatusesInv
    <3>2. failed'[v] = failed[v] /\ notices'[v] = notices[v]
      BY <2>2 DEF Begins, StatusesInv
    <3>3. told[v] = StatusCodes(snapshot[v]) /\ WillCompare(v)
      BY <1>3 DEF StatusesInv
    <3> QED
      BY <3>1, <3>2, <3>3 DEF WillCompare
  <2> QED
    BY <2>1, <2>2
<1>4. \A v \in Units : StatusCodes(snapshot[v])' = StatusCodes(snapshot'[v])
  BY DEF StatusCodes
<1> QED
  BY <1>1, <1>2, <1>3, <1>4 DEF StatusesInv

\* A hook that fails in the comparison makes it again.
LEMMA FailedHookStatuses ==
  ASSUME StatusesInv, NEW u \in Units, NEW kind, Begins(u, kind),
         UNCHANGED <<bag, snapshot, told>>, failed' = [failed EXCEPT ![u] = kind]
  PROVE  StatusesInv'
<1>1. CASE kind # "changed"
  BY <1>1, OtherHookStatuses
<1>2. CASE kind = "changed"
  <2>1. DOMAIN notices' = Units /\ DOMAIN failed' = Units
    BY DEF Begins, StatusesInv
  <2>2. \A v \in Units : WillCompare(v) => WillCompare(v)'
    BY <1>2 DEF Begins, StatusesInv, WillCompare
  <2> QED
    BY <2>1, <2>2 DEF StatusesInv, CodesPublished, StatusCodes
<1> QED
  BY <1>1, <1>2

\* What tells units of more, or changes nothing they compare.
LEMMA QuietStatuses ==
  ASSUME StatusesInv, UNCHANGED <<bag, snapshot, told, failed>>,
         DOMAIN notices' = Units, \A u \in Units : notices[u] \subseteq notices'[u]
  PROVE  StatusesInv'
<1>1. \A v \in Units : WillCompare(v) => WillCompare(v)'
  BY DEF WillCompare
<1> QED
  BY <1>1 DEF StatusesInv, CodesPublished, StatusCodes

LEMMA InitStatuses == Init => StatusesInv
  BY DEF Init, StatusesInv, EmptyBag, CodesPublished, WillCompare, StatusCodes

LEMMA StepStatuses == StatusesInv /\ [Next]_vars => StatusesInv'
<1> SUFFICES ASSUME StatusesInv, [Next]_vars
             PROVE  StatusesInv'
  OBVIOUS
<1>1. CASE UNCHANGED vars
  BY <1>1, QuietStatuses DEF vars, StatusesInv
<1>2. ASSUME NEW u \in Units, NEW kind \in Kinds, Hook(u, kind)
      PROVE  StatusesInv'
  <2>1. Begins(u, kind) /\ bag' = bag /\ failed' = [failed EXCEPT ![u] = None]
    BY <1>2 DEF Hook, provider
  <2>2. CASE kind = "changed"
    <3>1. RelationChanged(u)
      BY <1>2, <2>2 DEF Hook
    <3> QED
      BY <2>1, <2>2, <3>1, ComparisonStatuses
  <2>3. CASE kind # "changed"
    <3>1. snapshot' = snapshot /\ told' = told
      BY <1>2, <2>3 DEF Hook, Kinds, LibraryKinds, Created, SecretChanged
    <3> QED
      BY <2>1, <2>3, <3>1, OtherHookStatuses
  <2> QED
    BY <2>2, <2>3
<1>3. ASSUME NEW u \in Units, NEW kind \in Kinds, HookRaises(u, kind)
      PROVE  StatusesInv'
  BY <1>3, FailedHookStatuses DEF HookRaises, provider
<1>4. ASSUME NEW u \in Units, NEW v \in Units, HookDeposed(u, v)
      PROVE  StatusesInv'
  BY <1>4, FailedHookStatuses DEF HookDeposed, provider
<1>5. ASSUME NEW u \in Units, Elect(u) \/ ContainerRestart(u) \/ PebbleUp(u)
      PROVE  StatusesInv'
  BY <1>5, QuietStatuses DEF Elect, ContainerRestart, PebbleUp, Notify, provider, requirer, StatusesInv
<1>6. ASSUME NEW s \in Servers, Serve(s) \/ FailOver(s)
      PROVE  StatusesInv'
  BY <1>6, QuietStatuses DEF Serve, FailOver, Notify, provider, requirer, StatusesInv
<1>7. ASSUME NEW c \in Codes, RaiseStatus(c) \/ ResolveStatus(c)
      PROVE  StatusesInv'
  <2>1. CurrentCodes \in SUBSET Codes
    BY CurrentCodesAre DEF StatusesInv
  <2>2. PICK codes \in SUBSET Codes : Publish([status |-> codes])
    BY <1>7, <2>1 DEF RaiseStatus, ResolveStatus
  <2> QED
    BY <2>2, PublishStatuses
<1>8. ASSUME NEW data, Publish(data), "status" \notin DOMAIN data
      PROVE  StatusesInv'
  BY <1>8, PublishStatuses
<1>9. ASSUME NEW fields, Delete(fields), "subordinated" \notin fields
      PROVE  StatusesInv'
  BY <1>9, DeleteStatuses
<1>10. CASE BecomeReady
  BY <1>10, QuietStatuses DEF BecomeReady, Notify, requirer, StatusesInv
<1> QED
  BY <1>1, <1>2, <1>3, <1>4, <1>5, <1>6, <1>7, <1>8, <1>9, <1>10
  DEF Next, SetCredentials, SetEndpoints, SetReadOnlyEndpoints, Only, SetTls, SetTlsCa,
      ClearStatuses, DeleteEndpoints, DeleteCredentials, DeleteTls, SetSubordinated

\* A unit with nothing left to handle was told of exactly the statuses that are raised,
\* whatever was raised, resolved or cleared before it looked, and whatever failed on
\* the way (RequirerEventHandlers._on_relation_changed_event, EventHandlers._diff).
THEOREM StatusesAlwaysTold == Spec => []StatusesTold
<1>1. StatusesInv => StatusesTold
  BY ConstantsAssumption DEF StatusesInv, StatusesTold, Quiet, WillCompare
<1> QED
  BY InitStatuses, StepStatuses, <1>1, PTL DEF Spec

-------------------------------------------------------------------------------
(* Types                                                                    *)

\* The user of the relation is published with its password or not at all, in a secret
\* that the databag refers to.
Granted ==
  IF Exists("user")
  THEN LET content == secrets["user"].content
       IN  /\ DOMAIN content = {"username", "password"}
           /\ content["username"] = User /\ content["password"] \in Passwords
           /\ "secret-user" \in DOMAIN bag /\ bag["secret-user"] = secrets["user"].uri
  ELSE "secret-user" \notin DOMAIN bag

\* The settings that Polaris may be given.
SettingsType == [endpoint: Addresses, user: {User}, password: Passwords]

BagKept ==
  /\ DOMAIN bag \subseteq Fields
  /\ CodesPublished
  /\ "endpoints" \in DOMAIN bag => bag["endpoints"] \in Addresses

\* Who asks for a database asks for secrets with it, and the provider saw the request or not.
Asked ==
  /\ request \in {{}, {"requested-secrets", "database"}}
  /\ seen \in {{}, request}

RequirerKept ==
  /\ DOMAIN snapshot = Units /\ \A u \in Units : DOMAIN snapshot[u] \subseteq Fields
  /\ told \in [Units -> SUBSET Codes]
  /\ conf \in [Units -> SettingsType \cup {None}]
  /\ reach \in [Units -> BOOLEAN] /\ deferred \in [Units -> BOOLEAN]
  /\ notices \in [Units -> SUBSET Kinds] /\ failed \in [Units -> Kinds \cup {None}]

TypedInv ==
  /\ leader \in Units /\ primary \in Servers /\ pending \subseteq Servers
  /\ requested \in BOOLEAN /\ ready \in BOOLEAN
  /\ mishaps \subseteq {"request_missed", "change_undone"} /\ edits \in Nat
  /\ CredentialsInv /\ SecretsKept /\ Granted /\ BagKept /\ Asked /\ RequirerKept

\* What the provider publishes.
Proper(data) ==
  /\ DOMAIN data \subseteq Fields \ {"secret-user", "secret-tls"}
  /\ "endpoints" \in DOMAIN data => data["endpoints"] \in Addresses
  /\ "status" \in DOMAIN data => data["status"] \in SUBSET Codes
  /\ DOMAIN data \cap {"username", "password"} # {} =>
       /\ {"username", "password"} \subseteq DOMAIN data
       /\ data["username"] = User /\ data["password"] \in Passwords

\* What it takes away.
Deletable == {{"status"}, {"endpoints"}, {"username", "password"}, {"tls"}, {"tls", "tls-ca"}}

Spend == edits > 0 /\ edits' = edits - 1

\* The steps, with what the provider writes.
LEMMA StepShape ==
  ASSUME TypedInv, Next
  PROVE  \/ \E u \in Units, kind \in Kinds : Hook(u, kind) \/ HookRaises(u, kind)
         \/ \E u, v \in Units : HookDeposed(u, v)
         \/ \E u \in Units : Elect(u) \/ ContainerRestart(u) \/ PebbleUp(u)
         \/ \E s \in Servers : Serve(s) \/ FailOver(s)
         \/ \E data : Proper(data) /\ Spend /\ Publish(data)
         \/ \E fields \in Deletable : Spend /\ Delete(fields)
         \/ BecomeReady
<1>1. ASSUME NEW p \in Passwords, SetCredentials(p)
      PROVE  \E data : Proper(data) /\ Spend /\ Publish(data)
  <2> DEFINE data == [username |-> User, password |-> p]
  <2>1. Proper(data)  BY DEF Proper, Fields
  <2> QED  BY <1>1, <2>1 DEF SetCredentials, Edit, Spend
<1>2. ASSUME NEW a \in Addresses, SetEndpoints(a)
      PROVE  \E data : Proper(data) /\ Spend /\ Publish(data)
  <2> DEFINE data == [endpoints |-> a]
  <2>1. Proper(data)  BY DEF Proper, Fields
  <2> QED  BY <1>2, <2>1 DEF SetEndpoints, Edit, Spend
<1>3. ASSUME NEW a \in Addresses, SetReadOnlyEndpoints(a) \/ SetTlsCa(a)
      PROVE  \E data : Proper(data) /\ Spend /\ Publish(data)
  <2>1. Proper(Only("read-only-endpoints", a)) /\ Proper(Only("tls-ca", a))
    BY DEF Proper, Fields, Only
  <2> QED  BY <1>3, <2>1 DEF SetReadOnlyEndpoints, SetTlsCa, Edit, Spend
<1>4. ASSUME NEW c \in Codes, RaiseStatus(c) \/ ResolveStatus(c)
      PROVE  \E data : Proper(data) /\ Spend /\ Publish(data)
  <2>1. CurrentCodes \in SUBSET Codes
    BY CurrentCodesAre DEF TypedInv, BagKept
  <2>2. PICK codes \in SUBSET Codes : Spend /\ Publish([status |-> codes])
    BY <1>4, <2>1 DEF RaiseStatus, ResolveStatus, Edit, Spend
  <2>3. Proper([status |-> codes])  BY DEF Proper, Fields
  <2> QED  BY <2>2, <2>3
<1>5. ASSUME SetTls \/ SetSubordinated
      PROVE  \E data : Proper(data) /\ Spend /\ Publish(data)
  <2>1. Proper([tls |-> "true"]) /\ Proper([subordinated |-> "true"])  BY DEF Proper, Fields
  <2> QED  BY <1>5, <2>1 DEF SetTls, SetSubordinated, Edit, Spend
<1>6. ASSUME \/ \E fields \in {{"tls"}, {"tls", "tls-ca"}} : DeleteTls(fields)
             \/ ClearStatuses \/ DeleteEndpoints \/ DeleteCredentials
      PROVE  \E fields \in Deletable : Spend /\ Delete(fields)
  BY <1>6 DEF Deletable, DeleteTls, ClearStatuses, DeleteEndpoints, DeleteCredentials, Edit, Spend
<1> QED
  BY <1>1, <1>2, <1>3, <1>4, <1>5, <1>6 DEF Next

\* What the provider publishes is kept as it should be.
LEMMA PublishKept ==
  ASSUME TypedInv, NEW data, Proper(data), Spend, UpdateRelationData(data)
  PROVE  SecretsKept' /\ Granted' /\ BagKept' /\ CredentialsStaySecret'
<1>1. CredentialsInv /\ SecretsKept /\ Granted /\ BagKept /\ edits \in Nat
  BY DEF TypedInv
<1>2. SecretField["user"] \notin DOMAIN data /\ SecretField["tls"] \notin DOMAIN data
  BY GroupsAre DEF Proper
<1>3. ASSUME NEW g \in Groups
      PROVE  /\ DOMAIN secrets'[g] = {"uri", "content"} /\ secrets'[g].uri \in Nat
             /\ secrets'[g].uri + edits' <= MaxEdits
             /\ DOMAIN secrets'[g].content \subseteq FieldsOf(g)
  <2>1. /\ DOMAIN secrets[g] = {"uri", "content"} /\ secrets[g].uri \in Nat
        /\ secrets[g].uri + edits <= MaxEdits
        /\ DOMAIN secrets[g].content \subseteq FieldsOf(g)
    BY <1>1 DEF SecretsKept
  <2>2. edits' \in Nat /\ edits = edits' + 1
    BY <1>1 DEF Spend
  <2>3. DOMAIN Part(data, FieldsOf(g)) = DOMAIN data \cap FieldsOf(g)
    BY DomainPart
  <2>4. DOMAIN Over(Part(data, FieldsOf(g)), secrets[g].content)
          = DOMAIN Part(data, FieldsOf(g)) \cup DOMAIN secrets[g].content
    BY DomainOver
  <2>5. CASE secrets'[g] = secrets[g]
    BY <2>1, <2>2, <2>5, ConstantsAssumption
  <2>6. CASE secrets'[g] = [secrets[g] EXCEPT !.content = Over(Part(data, FieldsOf(g)), @)]
    <3>1. /\ DOMAIN secrets'[g] = {"uri", "content"} /\ secrets'[g].uri = secrets[g].uri
          /\ secrets'[g].content = Over(Part(data, FieldsOf(g)), secrets[g].content)
      BY <2>1, <2>6
    <3> QED  BY <2>1, <2>2, <2>3, <2>4, <3>1, ConstantsAssumption
  <2>7. CASE secrets'[g] = [uri |-> secrets[g].uri + 1, content |-> Part(data, FieldsOf(g))]
    <3>1. /\ DOMAIN secrets'[g] = {"uri", "content"} /\ secrets'[g].uri = secrets[g].uri + 1
          /\ secrets'[g].content = Part(data, FieldsOf(g))
      BY <2>7
    <3> QED  BY <2>1, <2>2, <2>3, <3>1, ConstantsAssumption
  <2> QED
    BY <1>1, <2>5, <2>6, <2>7, SecretWritten
<1>4. SecretsKept'
  BY <1>1, <1>3, SecretWritten, GroupsAre DEF SecretsKept
<1>5. Granted'
  <2> DEFINE given == Part(data, FieldsOf("user"))
  <2>0. /\ "user" \in Groups /\ FieldsOf("user") = {"username", "password"}
        /\ SecretField["user"] = "secret-user"
        /\ DOMAIN secrets["user"] = {"uri", "content"}
    BY <1>1, GroupsAre DEF SecretsKept
  <2>1. CASE DOMAIN data \cap FieldsOf("user") = {}
    <3>1. secrets'["user"] = secrets["user"] /\ SameReference("user")
      BY <1>1, <1>2, <2>0, <2>1, SecretWritten, ReferenceWritten
    <3> QED
      BY <1>1, <2>0, <3>1 DEF Granted, Exists, SameReference
  <2>2. CASE DOMAIN data \cap FieldsOf("user") # {}
    <3>1. /\ DOMAIN given = {"username", "password"}
          /\ given["username"] = User /\ given["password"] \in Passwords
      BY <2>0, <2>2, DomainPart DEF Proper, Part, Restrict
    <3> HIDE DEF given
    <3>2. CASE Exists("user")
      <4>1. secrets'["user"] = [secrets["user"] EXCEPT !.content = Over(given, @)]
        BY <1>1, <2>0, <2>2, <3>2, SecretWritten DEF given
      <4>2. /\ secrets'["user"].content = Over(given, secrets["user"].content)
            /\ secrets'["user"].uri = secrets["user"].uri
        BY <2>0, <4>1
      <4>3. DOMAIN secrets["user"].content = {"username", "password"}
        BY <1>1, <3>2 DEF Granted
      <4>4. /\ DOMAIN secrets'["user"].content = {"username", "password"}
            /\ secrets'["user"].content["username"] = User
            /\ secrets'["user"].content["password"] \in Passwords
        BY <3>1, <4>2, <4>3 DEF Over
      <4>5. SameReference("user")
        BY <1>1, <1>2, <2>0, <3>2, ReferenceWritten
      <4> QED
        BY <1>1, <2>0, <3>2, <4>2, <4>4, <4>5 DEF Granted, Exists, SameReference
    <3>3. CASE ~Exists("user")
      <4>1. secrets'["user"] = [uri |-> secrets["user"].uri + 1, content |-> given]
        BY <1>1, <2>0, <2>2, <3>3, SecretWritten DEF given
      <4>2. "secret-user" \in DOMAIN bag' /\ bag'["secret-user"] = secrets["user"].uri + 1
        BY <1>1, <1>2, <2>0, <2>2, <3>3, ReferenceWritten
      <4> QED
        BY <3>1, <4>1, <4>2 DEF Granted, Exists
    <3> QED
      BY <3>2, <3>3
  <2> QED
    BY <2>1, <2>2
<1>6. BagKept'
  <2>1. DOMAIN bag' \subseteq Fields
    BY <1>1, WriteDomain DEF BagKept, Proper, Fields
  <2>2. \A f \in {"endpoints", "status"} :
          /\ f \in DOMAIN bag' <=> f \in DOMAIN bag \cup DOMAIN data
          /\ f \in DOMAIN data => bag'[f] = data[f]
          /\ f \in DOMAIN bag \ DOMAIN data => bag'[f] = bag[f]
    BY WriteOutcome, SecretFieldsAre
  <2> QED
    BY <1>1, <2>1, <2>2 DEF BagKept, CodesPublished, Proper
<1> QED
  BY <1>1, <1>4, <1>5, <1>6, WriteStaysSecret

\* So is what it takes away.
LEMMA DeleteKept ==
  ASSUME TypedInv, NEW fields \in Deletable, Spend, DeleteRelationData(fields)
  PROVE  SecretsKept' /\ Granted' /\ BagKept' /\ CredentialsStaySecret'
<1>1. CredentialsInv /\ SecretsKept /\ Granted /\ BagKept /\ edits \in Nat
  BY DEF TypedInv
<1>2. fields \cap {"secret-user", "secret-tls"} = {} /\ DOMAIN secrets = Groups
  BY <1>1 DEF Deletable, SecretsKept
<1>3. ASSUME NEW g \in Groups
      PROVE  /\ DOMAIN secrets'[g] = {"uri", "content"} /\ secrets'[g].uri \in Nat
             /\ secrets'[g].uri + edits' <= MaxEdits
             /\ DOMAIN secrets'[g].content \subseteq FieldsOf(g)
  <2>1. /\ DOMAIN secrets[g] = {"uri", "content"} /\ secrets[g].uri \in Nat
        /\ secrets[g].uri + edits <= MaxEdits
        /\ DOMAIN secrets[g].content \subseteq FieldsOf(g)
    BY <1>1 DEF SecretsKept
  <2>2. edits' \in Nat /\ edits = edits' + 1
    BY <1>1 DEF Spend
  <2>3. DOMAIN Part(secrets[g].content, SecretFields \ fields)
          = DOMAIN secrets[g].content \cap (SecretFields \ fields)
    BY DomainPart
  <2>4. CASE secrets'[g] = secrets[g]
    BY <2>1, <2>2, <2>4, ConstantsAssumption
  <2>5. CASE secrets'[g] = [secrets[g] EXCEPT !.content = Part(@, SecretFields \ fields)]
    <3>1. /\ DOMAIN secrets'[g] = {"uri", "content"} /\ secrets'[g].uri = secrets[g].uri
          /\ secrets'[g].content = Part(secrets[g].content, SecretFields \ fields)
      BY <2>1, <2>5
    <3> QED  BY <2>1, <2>2, <2>3, <3>1, ConstantsAssumption
  <2> QED
    BY <1>2, <2>4, <2>5, SecretDeleted
<1>4. SecretsKept'
  BY <1>2, <1>3, SecretDeleted, GroupsAre DEF SecretsKept
<1>5. Granted'
  <2>0. /\ "user" \in Groups /\ FieldsOf("user") = {"username", "password"}
        /\ SecretField["user"] = "secret-user"
        /\ DOMAIN secrets["user"] = {"uri", "content"}
    BY <1>1, GroupsAre DEF SecretsKept
  <2>1. CASE secrets'["user"] = secrets["user"] /\ SameReference("user")
    BY <1>1, <2>0, <2>1 DEF Granted, Exists, SameReference
  <2>2. CASE /\ Exists("user") /\ fields \subseteq DOMAIN secrets["user"].content
             /\ secrets'["user"] = [secrets["user"] EXCEPT !.content = Part(@, SecretFields \ fields)]
             /\ DOMAIN secrets["user"].content \cap (SecretFields \ fields) = {} =>
                  "secret-user" \notin DOMAIN bag'
    <3>1. DOMAIN secrets["user"].content = {"username", "password"}
      BY <1>1, <2>2 DEF Granted
    <3>2. fields = {"username", "password"}
      BY <2>2, <3>1 DEF Deletable
    <3>3. DOMAIN secrets["user"].content \cap (SecretFields \ fields) = {}
      BY <3>1, <3>2
    <3>4. secrets'["user"].content = Part(secrets["user"].content, SecretFields \ fields)
      BY <2>0, <2>2
    <3>5. DOMAIN secrets'["user"].content = {}
      BY <3>3, <3>4, DomainPart
    <3> QED
      BY <2>2, <3>3, <3>5 DEF Granted, Exists
  <2> QED
    BY <1>2, <2>0, <2>1, <2>2, SecretDeleted
<1>6. BagKept'
  BY <1>1, DeletionOutcome DEF BagKept, CodesPublished
<1> QED
  BY <1>1, <1>4, <1>5, <1>6, DeletionStaysSecret

\* What Polaris needs is published if an address and the user are.
LEMMA SettingsAre ==
  ASSUME SecretsKept, Granted, BagKept, CredentialsStaySecret
  PROVE  /\ Settings \in SettingsType \cup {None}
         /\ Settings # None <=> {"endpoints", "secret-user"} \subseteq DOMAIN bag
         /\ Settings # None => Settings.endpoint = bag["endpoints"]
<1> DEFINE s == [endpoint |-> Published("endpoints"), user |-> MetastoreField("username"),
                 password |-> MetastoreField("password")]
<1>1. Settings = IF None \in Range(s) THEN None ELSE s
  BY DEF Settings
<1>2. None \in Range(s) <=>
        None \in {Published("endpoints"), MetastoreField("username"), MetastoreField("password")}
  BY DEF Range
<1>3. /\ "endpoints" \in DOMAIN bag => Published("endpoints") = bag["endpoints"]
                                       /\ Published("endpoints") \in Addresses
      /\ "endpoints" \notin DOMAIN bag => Published("endpoints") = None
  BY DEF Published, BagKept
<1>4. CASE Exists("user")
  <2>1. UserSecretContent = secrets["user"].content
    BY <1>4 DEF UserSecretContent, Granted, Published, Content
  <2>2. MetastoreField("username") = User /\ MetastoreField("password") \in Passwords
    BY <1>4, <2>1 DEF MetastoreField, Granted
  <2>3. "endpoints" \in DOMAIN bag => s \in SettingsType
    BY <1>3, <2>2 DEF SettingsType
  <2>4. "secret-user" \in DOMAIN bag
    BY <1>4 DEF Granted
  <2>5. None \in Range(s) <=> "endpoints" \notin DOMAIN bag
    BY <1>2, <1>3, <2>2, ConstantsAssumption
  <2>6. s \in SettingsType => s # None
    BY ConstantsAssumption DEF SettingsType
  <2>7. s.endpoint = Published("endpoints")
    OBVIOUS
  <2> HIDE DEF s
  <2> QED
    BY <1>1, <1>3, <2>3, <2>4, <2>5, <2>6, <2>7
<1>5. CASE ~Exists("user")
  <2>1. UserSecretContent = EmptyBag
    BY <1>5 DEF UserSecretContent, Content
  <2>2. MetastoreField("username") = None
    BY <2>1, SecretFieldsAre DEF MetastoreField, EmptyBag, Published, CredentialsStaySecret
  <2>3. Settings = None
    BY <1>1, <1>2, <2>2
  <2> QED
    BY <1>5, <2>3 DEF Granted
<1> QED
  BY <1>4, <1>5

\* A hook that ends, or fails.
LEMMA HookKept ==
  ASSUME TypedInv, NEW u \in Units, NEW kind \in Kinds, Begins(u, kind),
         NEW k \in Kinds \cup {None}, failed' = [failed EXCEPT ![u] = k],
         snapshot' = snapshot \/ snapshot' = [snapshot EXCEPT ![u] = Saved(u)],
         told' = told \/ told' = [told EXCEPT ![u] = (@ \cup Raised(snapshot[u])) \ Resolved(snapshot[u])],
         conf' = conf \/ conf' = [conf EXCEPT ![u] = Reconciled(u, kind)],
         NEW b \in BOOLEAN, deferred' = deferred \/ deferred' = [deferred EXCEPT ![u] = b],
         reach' = reach
  PROVE  RequirerKept'
<1>1. RequirerKept /\ BagKept
  BY DEF TypedInv
<1>2. DOMAIN snapshot' = Units /\ \A v \in Units : DOMAIN snapshot'[v] \subseteq Fields
  BY <1>1 DEF RequirerKept, BagKept, Saved
<1>3. told' \in [Units -> SUBSET Codes]
  <2>1. Raised(snapshot[u]) \subseteq Codes
    BY <1>1, CurrentCodesAre DEF BagKept, Raised
  <2>2. (told[u] \cup Raised(snapshot[u])) \ Resolved(snapshot[u]) \in SUBSET Codes
    BY <1>1, <2>1 DEF RequirerKept
  <2> QED
    BY <1>1, <2>2 DEF RequirerKept
<1>4. conf' \in [Units -> SettingsType \cup {None}]
  <2>1. Settings \in SettingsType \cup {None}
    BY SettingsAre DEF TypedInv, CredentialsInv
  <2>2. Reconciled(u, kind) \in SettingsType \cup {None}
    BY <1>1, <2>1 DEF RequirerKept, Reconciled
  <2> QED
    BY <1>1, <2>2 DEF RequirerKept
<1>5. notices' \in [Units -> SUBSET Kinds]
  BY <1>1 DEF RequirerKept, Begins
<1> QED
  BY <1>1, <1>2, <1>3, <1>4, <1>5 DEF RequirerKept

\* What stays as it is.
LEMMA ProviderAlone ==
  ASSUME SecretsKept, Granted, BagKept, UNCHANGED <<bag, secrets>>, edits' = edits
  PROVE  SecretsKept' /\ Granted' /\ BagKept'
BY DEF SecretsKept, Granted, BagKept, CodesPublished, Exists

LEMMA InitTyped == Init => TypedInv
<1> SUFFICES ASSUME Init PROVE TypedInv
  OBVIOUS
<1>1. CredentialsInv
  BY InitCredentials
<1>2. \A g \in Groups : secrets[g] = [uri |-> 0, content |-> EmptyBag]
  BY DEF Init
<1>3. DOMAIN EmptyBag = {}
  BY DEF EmptyBag
<1>4. \A g \in Groups : /\ DOMAIN secrets[g] = {"uri", "content"}
                        /\ secrets[g].uri = 0 /\ DOMAIN secrets[g].content = {}
  BY <1>2, <1>3
<1>5. SecretsKept
  BY <1>4, ConstantsAssumption DEF SecretsKept, Init
<1>6. Granted /\ BagKept
  BY <1>3, <1>4, GroupsAre DEF Granted, BagKept, CodesPublished, Exists, Init
<1>7. RequirerKept
  BY <1>3 DEF Init, RequirerKept, Kinds, LibraryKinds
<1>8. Asked
  BY DEF Init, Asked
<1> QED
  BY <1>1, <1>5, <1>6, <1>7, <1>8, ConstantsAssumption DEF Init, TypedInv

LEMMA StepTyped == TypedInv /\ [Next]_vars => TypedInv'
<1> SUFFICES ASSUME TypedInv, [Next]_vars
             PROVE  TypedInv'
  OBVIOUS
<1>0. CredentialsInv' /\ SecretsKept /\ Granted /\ BagKept /\ Asked /\ RequirerKept
  BY StepCredentials DEF TypedInv
<1>1. CASE UNCHANGED vars
  <2>1. RequirerKept' /\ Asked'
    BY <1>0, <1>1 DEF vars, RequirerKept, Asked
  <2> QED
    BY <1>0, <1>1, <2>1, ProviderAlone DEF vars, TypedInv
<1>2. ASSUME NEW u \in Units, NEW kind \in Kinds, Hook(u, kind) \/ HookRaises(u, kind)
      PROVE  TypedInv'
  <2>1. /\ Begins(u, kind) /\ UNCHANGED <<leader, primary, bag, secrets, ready, seen, requested,
                                          reach, mishaps, edits>>
        /\ request' \in {request, {"requested-secrets", "database"}}
        /\ pending' \in {pending, Servers}
    BY <1>2 DEF Hook, HookRaises, leases, provider, Kinds, LibraryKinds, Created, Request, Tell,
                RelationChanged, SecretChanged
  <2>2. RequirerKept'
    <3>1. \E k \in Kinds \cup {None}, b \in BOOLEAN :
            /\ failed' = [failed EXCEPT ![u] = k]
            /\ deferred' = deferred \/ deferred' = [deferred EXCEPT ![u] = b]
      <4>1. (Updates(u, kind) /\ ~reach[u]) \in BOOLEAN
        BY <1>0 DEF RequirerKept
      <4> QED
        BY <1>2, <4>1 DEF Hook, HookRaises
    <3>2. /\ snapshot' = snapshot \/ snapshot' = [snapshot EXCEPT ![u] = Saved(u)]
          /\ told' = told \/ told' = [told EXCEPT ![u] = (@ \cup Raised(snapshot[u])) \ Resolved(snapshot[u])]
      BY <1>2 DEF Hook, HookRaises, Kinds, LibraryKinds, Created, RelationChanged, SecretChanged
    <3>3. conf' = conf \/ conf' = [conf EXCEPT ![u] = Reconciled(u, kind)]
      BY <1>2 DEF Hook, HookRaises
    <3> QED
      BY <2>1, <3>1, <3>2, <3>3, HookKept
  <2>3. Asked'
    BY <1>0, <2>1 DEF Asked
  <2>4. SecretsKept' /\ Granted' /\ BagKept'
    BY <1>0, <2>1, ProviderAlone
  <2> QED
    BY <1>0, <2>1, <2>2, <2>3, <2>4 DEF TypedInv
<1>3. ASSUME NEW u \in Units, NEW v \in Units, HookDeposed(u, v)
      PROVE  TypedInv'
  <2>1. RequirerKept'
    <3>1. "created" \in Kinds
      BY DEF Kinds, LibraryKinds
    <3> QED
      BY <1>3, <3>1, HookKept DEF HookDeposed
  <2>2. SecretsKept' /\ Granted' /\ BagKept'
    BY <1>0, <1>3, ProviderAlone DEF HookDeposed, provider
  <2>3. Asked'
    BY <1>0, <1>3 DEF HookDeposed, Asked
  <2> QED
    BY <1>0, <1>3, <2>1, <2>2, <2>3 DEF HookDeposed, MissedIf, provider, TypedInv
<1>4. ASSUME NEW u \in Units, Elect(u) \/ ContainerRestart(u) \/ PebbleUp(u)
      PROVE  TypedInv'
  <2>1. RequirerKept'
    BY <1>0, <1>4 DEF Elect, ContainerRestart, PebbleUp, Notify, requirer, RequirerKept, Kinds
  <2>2. SecretsKept' /\ Granted' /\ BagKept'
    BY <1>0, <1>4, ProviderAlone DEF Elect, ContainerRestart, PebbleUp, provider
  <2>3. Asked'
    BY <1>0, <1>4 DEF Elect, ContainerRestart, PebbleUp, Asked
  <2> QED
    BY <1>0, <1>4, <2>1, <2>2, <2>3
    DEF Elect, ContainerRestart, PebbleUp, MissedIf, leases, provider, TypedInv
<1>5. ASSUME NEW s \in Servers, Serve(s) \/ FailOver(s)
      PROVE  TypedInv'
  <2>1. RequirerKept'
    BY <1>0, <1>5 DEF Serve, FailOver, Notify, requirer, RequirerKept, Kinds, LibraryKinds
  <2>2. SecretsKept' /\ Granted' /\ BagKept'
    BY <1>0, <1>5, ProviderAlone DEF Serve, FailOver, provider
  <2>3. Asked'
    BY <1>0, <1>5 DEF Serve, FailOver, Asked
  <2> QED
    BY <1>0, <1>5, <2>1, <2>2, <2>3 DEF Serve, FailOver, MissedIf, leases, provider, TypedInv
<1>6. ASSUME NEW data, Proper(data), Spend, Publish(data)
      PROVE  TypedInv'
  <2>1. SecretsKept' /\ Granted' /\ BagKept'
    BY <1>6, PublishKept DEF Publish
  <2>2. RequirerKept' /\ Asked'
    BY <1>0, <1>6 DEF Publish, NotifyAll, Announced, requirer, RequirerKept, Asked, Kinds, LibraryKinds
  <2> QED
    BY <1>0, <1>6, <2>1, <2>2 DEF Publish, Spend, leases, TypedInv
<1>7. ASSUME NEW fields \in Deletable, Spend, Delete(fields)
      PROVE  TypedInv'
  <2>1. SecretsKept' /\ Granted' /\ BagKept'
    BY <1>7, DeleteKept DEF Delete
  <2>2. RequirerKept' /\ Asked'
    BY <1>0, <1>7 DEF Delete, NotifyAll, Announced, requirer, RequirerKept, Asked, Kinds, LibraryKinds
  <2> QED
    BY <1>0, <1>7, <2>1, <2>2 DEF Delete, Spend, leases, TypedInv
<1>8. CASE BecomeReady
  <2>1. RequirerKept' /\ Asked'
    BY <1>0, <1>8 DEF BecomeReady, Notify, requirer, RequirerKept, Asked, Kinds, LibraryKinds
  <2>2. SecretsKept' /\ Granted' /\ BagKept'
    BY <1>0, <1>8, ProviderAlone DEF BecomeReady
  <2> QED
    BY <1>0, <1>8, <2>1, <2>2 DEF BecomeReady, leases, TypedInv
<1> QED
  BY <1>1, <1>2, <1>3, <1>4, <1>5, <1>6, <1>7, <1>8, StepShape

LEMMA TypedAlways == Spec => []TypedInv
BY InitTyped, StepTyped, PTL DEF Spec

\* Whatever is published, deleted and retried, a secret never gets a field of another
\* group, and Polaris only ever runs with complete settings.
THEOREM TypesKept == Spec => []TypeOK
<1>1. TypedInv => TypeOK
  <2> SUFFICES ASSUME TypedInv PROVE TypeOK
    OBVIOUS
  <2>1. StatusCodes(bag) \subseteq Codes
    BY DEF TypedInv, BagKept, CodesPublished, StatusCodes
  <2>2. \A g \in Groups : /\ secrets[g].uri \in 0..MaxEdits
                          /\ \A f \in DOMAIN secrets[g].content : GroupOf[f] = g
    BY ConstantsAssumption DEF TypedInv, SecretsKept, FieldsOf
  <2>3. request \subseteq {"requested-secrets", "database"} /\ seen \subseteq request
    BY DEF TypedInv, Asked
  <2> QED
    BY <2>1, <2>2, <2>3 DEF TypedInv, BagKept, RequirerKept, SettingsType, TypeOK
<1> QED
  BY <1>1, TypedAlways, PTL

-------------------------------------------------------------------------------
(* The request                                                              *)

\* The leader has still to ask.
ToAsk == "created" \in notices[leader] \/ failed[leader] = "created"

\* The provider emitted its event if it saw the request.  As long as no lease passed to a
\* unit whose turn had gone by, whoever leads the charm has still to ask, or the request is
\* made; and whoever leads the provider has still to look, or it was seen.
RequestInv ==
  /\ TypedInv
  /\ requested <=> "database" \in seen
  /\ "request_missed" \notin mishaps =>
       /\ request = {} => ToAsk
       /\ seen # request => primary \in pending

\* A hook of u leaves the leader with its request to make, or makes it.
LEMMA HookAsks ==
  ASSUME TypedInv, NEW u \in Units, NEW kind \in Kinds, Begins(u, kind), ToAsk,
         leader' = leader, NEW k, failed' = [failed EXCEPT ![u] = k],
         k = kind \/ ~(u = leader /\ kind = "created")
  PROVE  ToAsk'
<1>1. /\ notices'[leader] = IF u = leader THEN notices[leader] \ {kind} ELSE notices[leader]
      /\ failed'[leader] = IF u = leader THEN k ELSE failed[leader]
  BY DEF TypedInv, RequirerKept, Begins
<1>2. u = leader /\ failed[leader] = "created" => kind = "created"
  BY ConstantsAssumption DEF Begins
<1> QED
  BY <1>1, <1>2 DEF ToAsk

LEMMA StepRequest == RequestInv /\ [Next]_vars => RequestInv'
<1> SUFFICES ASSUME RequestInv, [Next]_vars
             PROVE  RequestInv'
  OBVIOUS
<1>0. TypedInv /\ TypedInv' /\ RequirerKept /\ Asked
  BY StepTyped DEF RequestInv, TypedInv
<1>1. ASSUME UNCHANGED <<leader, primary, request, seen, requested, pending, failed>>,
             mishaps \subseteq mishaps', notices[leader] \subseteq notices'[leader]
      PROVE  RequestInv'
  BY <1>0, <1>1 DEF RequestInv, ToAsk
<1>2. CASE UNCHANGED vars
  BY <1>1, <1>2 DEF vars
<1>3. ASSUME NEW u \in Units, NEW kind \in Kinds, Hook(u, kind)
      PROVE  RequestInv'
  <2>1. Begins(u, kind) /\ failed' = [failed EXCEPT ![u] = None]
        /\ UNCHANGED <<leader, primary, seen, requested, mishaps>>
    BY <1>3 DEF Hook, leases
  <2>2. CASE kind = "created" /\ u = leader
    <3>1. request' = {"requested-secrets", "database"} /\ pending' = Servers
      BY <1>3, <2>2 DEF Hook, Created, Request, Tell
    <3> QED
      BY <1>0, <2>1, <3>1 DEF RequestInv, TypedInv
  <2>3. CASE ~(kind = "created" /\ u = leader)
    <3>1. request' = request /\ pending' \in {pending, Servers}
      BY <1>3, <2>3 DEF Hook, Kinds, LibraryKinds, Created, Request, Tell, RelationChanged,
                        SecretChanged
    <3>2. ToAsk => ToAsk'
      BY <1>0, <2>1, <2>3, HookAsks
    <3> QED
      BY <1>0, <2>1, <3>1, <3>2 DEF RequestInv, TypedInv
  <2> QED
    BY <2>2, <2>3
<1>4. ASSUME NEW u \in Units, NEW kind \in Kinds, HookRaises(u, kind)
      PROVE  RequestInv'
  <2>1. Begins(u, kind) /\ failed' = [failed EXCEPT ![u] = kind]
        /\ UNCHANGED <<leader, primary, request, seen, requested, pending, mishaps>>
    BY <1>4 DEF HookRaises, leases
  <2>2. ToAsk => ToAsk'
    BY <1>0, <2>1, HookAsks
  <2> QED
    BY <1>0, <2>1, <2>2 DEF RequestInv
<1>5. ASSUME NEW u \in Units, NEW v \in Units, HookDeposed(u, v)
      PROVE  RequestInv'
  <2>1. /\ UNCHANGED <<primary, request, seen, requested, pending>> /\ leader' = v
        /\ notices'[v] = notices[v] /\ failed'[v] = failed[v]
    BY <1>0, <1>5 DEF HookDeposed, Begins, TypedInv, RequirerKept
  <2>2. request = {} /\ "request_missed" \notin mishaps' => ToAsk'
    BY <1>5, <2>1 DEF HookDeposed, MissedIf, MissesCreated, ToAsk
  <2>3. mishaps \subseteq mishaps'
    BY <1>5 DEF HookDeposed, MissedIf
  <2> QED
    BY <1>0, <2>1, <2>2, <2>3 DEF RequestInv
<1>6. ASSUME NEW u \in Units, Elect(u)
      PROVE  RequestInv'
  <2>1. /\ UNCHANGED <<primary, request, seen, requested, pending, notices, failed>>
        /\ leader' = u
    BY <1>6 DEF Elect, requirer
  <2>2. request = {} /\ "request_missed" \notin mishaps' => ToAsk'
    BY <1>6, <2>1 DEF Elect, MissedIf, MissesCreated, ToAsk
  <2>3. mishaps \subseteq mishaps'
    BY <1>6 DEF Elect, MissedIf
  <2> QED
    BY <1>0, <2>1, <2>2, <2>3 DEF RequestInv
<1>7. ASSUME NEW u \in Units, ContainerRestart(u) \/ PebbleUp(u)
      PROVE  RequestInv'
  <2>1. notices[leader] \subseteq notices'[leader]
    BY <1>0, <1>7 DEF ContainerRestart, PebbleUp, Notify, TypedInv
  <2> QED
    BY <1>1, <1>7, <2>1 DEF ContainerRestart, PebbleUp, leases
<1>8. ASSUME NEW s \in Servers, Serve(s)
      PROVE  RequestInv'
  <2>1. /\ UNCHANGED <<leader, primary, request, failed, mishaps>> /\ pending' = pending \ {s}
        /\ notices[leader] \subseteq notices'[leader]
    BY <1>0, <1>8 DEF Serve, Notify, requirer, leases, TypedInv
  <2>2. ToAsk => ToAsk'
    BY <2>1 DEF ToAsk
  <2>3. CASE s = primary /\ request # seen
    <3>1. seen' = request /\ requested' = (requested \/ "database" \in request \ seen)
      BY <1>8, <2>3 DEF Serve
    <3>2. requested' <=> "database" \in seen'
      BY <1>0, <3>1 DEF RequestInv, Asked
    <3> QED
      BY <1>0, <2>1, <2>2, <3>1, <3>2 DEF RequestInv
  <2>4. CASE ~(s = primary /\ request # seen)
    <3>1. seen' = seen /\ requested' = requested
      BY <1>8, <2>4 DEF Serve
    <3> QED
      BY <1>0, <2>1, <2>2, <2>4, <3>1 DEF RequestInv
  <2> QED
    BY <2>3, <2>4
<1>9. ASSUME NEW s \in Servers, FailOver(s)
      PROVE  RequestInv'
  <2>1. /\ UNCHANGED <<leader, request, seen, requested, pending, notices, failed>>
        /\ primary' = s
    BY <1>9 DEF FailOver, requirer
  <2>2. seen # request /\ "request_missed" \notin mishaps' => primary' \in pending
    BY <1>9, <2>1 DEF FailOver, MissedIf, MissesRequest
  <2>3. mishaps \subseteq mishaps'
    BY <1>9 DEF FailOver, MissedIf
  <2>4. ToAsk => ToAsk'
    BY <2>1 DEF ToAsk
  <2> QED
    BY <1>0, <2>1, <2>2, <2>3, <2>4 DEF RequestInv
<1>10. ASSUME NEW data, Publish(data)
       PROVE  RequestInv'
  <2>1. notices[leader] \subseteq notices'[leader] /\ mishaps \subseteq mishaps'
    BY <1>0, <1>10 DEF Publish, NotifyAll, TypedInv
  <2> QED
    BY <1>1, <1>10, <2>1 DEF Publish, requirer, leases
<1>11. ASSUME NEW fields, Delete(fields)
       PROVE  RequestInv'
  <2>1. notices[leader] \subseteq notices'[leader]
    BY <1>0, <1>11 DEF Delete, NotifyAll, TypedInv
  <2> QED
    BY <1>1, <1>11, <2>1 DEF Delete, requirer, leases
<1>12. CASE BecomeReady
  <2>1. notices[leader] \subseteq notices'[leader]
    BY <1>0, <1>12 DEF BecomeReady, Notify, TypedInv
  <2> QED
    BY <1>1, <1>12, <2>1 DEF BecomeReady, requirer, leases
<1> QED
  BY <1>0, <1>2, <1>3, <1>4, <1>5, <1>6, <1>7, <1>8, <1>9, <1>10, <1>11, <1>12, StepShape

\* When everything was handled, the database was asked for and the provider knows, however
\* often either lease moved, unless one passed to a unit that had already looked
\* (DatabaseRequirerEventHandlers._on_relation_created_event,
\* DatabaseProviderEventHandlers._on_relation_changed_event).
THEOREM RequestArrives == Spec => []RequestReachesProvider
<1>1. Init => RequestInv
  BY InitTyped DEF Init, RequestInv, ToAsk
<1>2. RequestInv => RequestReachesProvider
  <2> SUFFICES ASSUME RequestInv, \A u \in Units : Quiet(u), pending = {},
                      "request_missed" \notin mishaps
               PROVE  requested
    BY DEF RequestReachesProvider
  <2>1. ~ToAsk
    BY ConstantsAssumption DEF RequestInv, TypedInv, Quiet, ToAsk
  <2> QED
    BY <2>1 DEF RequestInv, TypedInv, Asked
<1> QED
  BY <1>1, <1>2, StepRequest, PTL DEF Spec

-------------------------------------------------------------------------------
(* The settings Polaris runs with                                           *)

\* Polaris runs on the address that is published.
OnAddress(u) == conf[u] # None /\ conf[u].endpoint = bag["endpoints"]

\* The workload of u is updated before u is quiet, or its container has to come back.
WillUpdate(u) == ~reach[u] \/ deferred[u] \/ "update" \in notices[u] \/ failed[u] = "update"

\* Comparing has u update it.
WillHear(u) == EventOf(snapshot[u], bag) \in {"database_created", "endpoints_changed"}

\* As long as no change was taken back before a unit compared, what Polaris does not run
\* on makes a difference, or an update is due.
Follows(u) ==
  Settings # None /\ "change_undone" \notin mishaps =>
    OnAddress(u) \/ WillUpdate(u) \/ WillHear(u)

\* A unit that is not to wait for its provider saw what is published or will compare.
Listens(u) == WillCompare(u) \/ Withheld

SettingsInv == TypedInv /\ \A u \in Units : Follows(u) /\ Listens(u)

\* What has the workload updated, where credentials are secret: the difference between what
\* was saved and what is published.
LEMMA HearsOf ==
  ASSUME NEW old, NEW new, SecretFields \cap DOMAIN new = {}
  PROVE  EventOf(old, new) \in {"database_created", "endpoints_changed"}
           <=> \/ "secret-user" \in DOMAIN new \ DOMAIN old
               \/ "endpoints" \in DOMAIN new \ DOMAIN old
               \/ "endpoints" \in DOMAIN new \cap DOMAIN old /\ new["endpoints"] # old["endpoints"]
<1> DEFINE main == MainCredentialsShared(Added(old, new))
           moved == "endpoints" \in Added(old, new) \cup Changed(old, new)
<1>1. main <=> "secret-user" \in DOMAIN new \ DOMAIN old
  BY SecretFieldsAre DEF MainCredentialsShared, Added
<1>2. moved <=> \/ "endpoints" \in DOMAIN new \ DOMAIN old
                \/ "endpoints" \in DOMAIN new \cap DOMAIN old /\ new["endpoints"] # old["endpoints"]
  BY DEF Added, Changed
<1>3. main => EventOf(old, new) = "database_created"
  BY DEF EventOf
<1>4. ~main /\ moved => EventOf(old, new) = "endpoints_changed"
  BY DEF EventOf
<1>5. ~main /\ ~moved => EventOf(old, new) \in {"read_only_endpoints_changed", None}
  BY DEF EventOf
<1> HIDE DEF main, moved
<1> QED
  BY <1>1, <1>2, <1>3, <1>4, <1>5, ConstantsAssumption

\* An address or a user that becomes published is one every unit will hear of, unless the
\* unit saw it before it was taken away.
LEMMA NewsHeard ==
  ASSUME TypedInv, TypedInv', NEW u \in Units, Follows(u),
         snapshot' = snapshot, conf' = conf, reach' = reach, deferred' = deferred,
         failed' = failed, notices[u] \subseteq notices'[u], mishaps \subseteq mishaps',
         Undone("endpoints") \/ Undone("secret-user") => "change_undone" \in mishaps'
  PROVE  Follows(u)'
<1> SUFFICES ASSUME Settings' # None, "change_undone" \notin mishaps'
             PROVE  (OnAddress(u) \/ WillUpdate(u) \/ WillHear(u))'
  BY DEF Follows
<1>1. /\ CredentialsStaySecret /\ CredentialsStaySecret'
      /\ Settings # None <=> {"endpoints", "secret-user"} \subseteq DOMAIN bag
      /\ {"endpoints", "secret-user"} \subseteq DOMAIN bag'
  <2>1. Settings # None <=> {"endpoints", "secret-user"} \subseteq DOMAIN bag
    BY SettingsAre DEF TypedInv, CredentialsInv
  <2>2. (Settings # None <=> {"endpoints", "secret-user"} \subseteq DOMAIN bag)'
    <3>1. (SecretsKept /\ Granted /\ BagKept /\ CredentialsStaySecret)'
      BY DEF TypedInv, CredentialsInv
    <3> QED
      BY <3>1, SettingsAre, PTL
  <2> QED
    BY <2>1, <2>2 DEF TypedInv, CredentialsInv
<1>2. ~Undone("endpoints") /\ ~Undone("secret-user")
  OBVIOUS
<1>3. WillHear(u)' <=> \/ "secret-user" \in DOMAIN bag' \ DOMAIN snapshot[u]
                       \/ "endpoints" \in DOMAIN bag' \ DOMAIN snapshot[u]
                       \/ /\ "endpoints" \in DOMAIN bag' \cap DOMAIN snapshot[u]
                          /\ bag'["endpoints"] # snapshot[u]["endpoints"]
  BY <1>1, HearsOf DEF WillHear, CredentialsStaySecret
<1>4. CASE "endpoints" \notin DOMAIN bag \/ bag["endpoints"] # bag'["endpoints"]
  BY <1>1, <1>2, <1>3, <1>4 DEF Undone
<1>5. CASE "secret-user" \notin DOMAIN bag
  BY <1>1, <1>2, <1>3, <1>5 DEF Undone
<1>6. CASE /\ {"endpoints", "secret-user"} \subseteq DOMAIN bag
           /\ bag["endpoints"] = bag'["endpoints"]
  <2>1. OnAddress(u) \/ WillUpdate(u) \/ WillHear(u)
    BY <1>1, <1>6 DEF Follows
  <2>2. OnAddress(u) => OnAddress(u)'
    BY <1>6 DEF OnAddress
  <2>3. WillUpdate(u) => WillUpdate(u)'
    BY DEF WillUpdate
  <2>4. WillHear(u) => WillHear(u)'
    BY <1>1, <1>3, <1>6, HearsOf DEF WillHear, CredentialsStaySecret
  <2> QED
    BY <2>1, <2>2, <2>3, <2>4
<1> QED
  BY <1>4, <1>5, <1>6

\* A unit that does nothing follows as before.
LEMMA FollowsAlone ==
  ASSUME NEW v, Follows(v), UNCHANGED <<bag, secrets>>, mishaps \subseteq mishaps',
         snapshot'[v] = snapshot[v], conf'[v] = conf[v] \/ ~reach'[v],
         reach'[v] = reach[v] \/ ~reach'[v] \/ "update" \in notices'[v],
         deferred[v] => deferred'[v],
         "update" \in notices[v] \/ failed[v] = "update"
           => "update" \in notices'[v] \/ failed'[v] = "update"
  PROVE  Follows(v)'
<1>1. Settings' = Settings
  BY DEF Settings, MetastoreField, UserSecretContent, Published, Content, Exists
<1> QED
  BY <1>1 DEF Follows, OnAddress, WillUpdate, WillHear

\* Where the workload is updated, it runs on the address that is published.
LEMMA UpdateFollows ==
  ASSUME TypedInv, NEW u \in Units, UNCHANGED <<bag, secrets, reach>>, reach[u],
         conf'[u] = IF Settings # None THEN Settings ELSE conf[u]
  PROVE  Follows(u)'
<1>1. Settings' = Settings
  BY DEF Settings, MetastoreField, UserSecretContent, Published, Content, Exists
<1>2. Settings # None => Settings.endpoint = bag["endpoints"]
  BY SettingsAre DEF TypedInv, CredentialsInv
<1> QED
  BY <1>1, <1>2 DEF Follows, OnAddress

\* A hook that ends: its update took place, was deferred or had no reason.
LEMMA HookFollows ==
  ASSUME SettingsInv, NEW u \in Units, NEW kind \in Kinds, Hook(u, kind)
  PROVE  \A v \in Units : Follows(v)' /\ Listens(v)'
<1>1. /\ TypedInv /\ RequirerKept /\ Follows(u) /\ Begins(u, kind)
      /\ UNCHANGED <<bag, secrets, ready, reach, mishaps>>
      /\ conf' = [conf EXCEPT ![u] = Reconciled(u, kind)]
      /\ deferred' = [deferred EXCEPT ![u] = Updates(u, kind) /\ ~reach[u]]
      /\ failed' = [failed EXCEPT ![u] = None]
  BY DEF SettingsInv, TypedInv, Hook, provider
<1>2. IF kind = "changed" THEN snapshot' = [snapshot EXCEPT ![u] = Saved(u)]
                          ELSE snapshot' = snapshot
  BY DEF Hook, Kinds, LibraryKinds, Created, RelationChanged, SecretChanged
<1>3. /\ conf'[u] = Reconciled(u, kind) /\ failed'[u] = None /\ reach'[u] = reach[u]
      /\ deferred'[u] = (Updates(u, kind) /\ ~reach[u])
      /\ notices'[u] = notices[u] \ {kind}
      /\ snapshot'[u] = IF kind = "changed" THEN Saved(u) ELSE snapshot[u]
  BY <1>1, <1>2 DEF RequirerKept, Begins
<1>4. failed[u] = "update" => kind = "update"
  BY <1>1, ConstantsAssumption DEF Begins
<1>5. Follows(u)'
  <2>1. CASE Updates(u, kind) /\ reach[u]
    BY <1>1, <1>3, <2>1, UpdateFollows DEF Reconciled
  <2>2. CASE Updates(u, kind) /\ ~reach[u]
    BY <1>3, <2>2 DEF Follows, WillUpdate
  <2>3. CASE ~Updates(u, kind)
    <3>1. kind # "update" /\ ~deferred[u] /\ conf'[u] = conf[u]
      BY <1>3, <2>3 DEF Updates, Reconciled
    <3>2. CASE snapshot'[u] = snapshot[u]
      BY <1>1, <1>3, <1>4, <3>1, <3>2, FollowsAlone
    <3>3. CASE kind = "changed" /\ ~Withheld
      <4>1. ~WillHear(u)
        BY <2>3, <3>3 DEF Updates, Heard, WillHear
      <4>2. Settings' = Settings
        BY <1>1 DEF Settings, MetastoreField, UserSecretContent, Published, Content, Exists
      <4>3. OnAddress(u) => OnAddress(u)'
        BY <1>1, <3>1 DEF OnAddress
      <4>4. WillUpdate(u) => WillUpdate(u)'
        BY <1>3, <1>4, <3>1 DEF WillUpdate
      <4> QED
        BY <1>1, <4>1, <4>2, <4>3, <4>4 DEF Follows
    <3> QED
      BY <1>3, <3>2, <3>3 DEF Saved
  <2> QED
    BY <2>1, <2>2, <2>3
<1>6. ASSUME NEW v \in Units, v # u
      PROVE  Follows(v)' /\ Listens(v)'
  <2>1. /\ conf'[v] = conf[v] /\ failed'[v] = failed[v] /\ reach'[v] = reach[v]
        /\ deferred'[v] = deferred[v] /\ notices'[v] = notices[v] /\ snapshot'[v] = snapshot[v]
    BY <1>1, <1>2, <1>6 DEF RequirerKept, Begins
  <2>2. Follows(v) /\ Listens(v)
    BY DEF SettingsInv
  <2>3. Follows(v)'
    BY <1>1, <2>1, <2>2, FollowsAlone
  <2> QED
    BY <1>1, <2>1, <2>2, <2>3 DEF Listens, WillCompare, Withheld
<1>7. Listens(u)'
  <2>1. Listens(u)
    BY DEF SettingsInv
  <2>2. failed[u] = "changed" => kind = "changed"
    BY <1>1, ConstantsAssumption DEF Begins
  <2>3. CASE kind = "changed" /\ ~Withheld
    BY <1>1, <1>3, <2>3 DEF Saved, Listens, WillCompare
  <2>4. CASE Withheld
    BY <1>1, <2>4 DEF Listens, Withheld
  <2>5. CASE kind # "changed" /\ ~Withheld
    BY <1>1, <1>3, <2>1, <2>2, <2>5 DEF Listens, WillCompare
  <2> QED
    BY <2>3, <2>4, <2>5
<1> QED
  BY <1>5, <1>6, <1>7

\* A hook that fails is run again, also where it updated the workload.
LEMMA FailureFollows ==
  ASSUME SettingsInv, NEW u \in Units, NEW kind \in Kinds, Begins(u, kind),
         UNCHANGED <<bag, secrets, ready, reach, snapshot, deferred>>, mishaps \subseteq mishaps',
         conf' \in {conf, [conf EXCEPT ![u] = Reconciled(u, kind)]},
         failed' = [failed EXCEPT ![u] = kind]
  PROVE  \A v \in Units : Follows(v)' /\ Listens(v)'
<1>1. TypedInv /\ RequirerKept
  BY DEF SettingsInv, TypedInv
<1> SUFFICES ASSUME NEW v \in Units PROVE Follows(v)' /\ Listens(v)'
  OBVIOUS
<1>2. /\ failed'[v] = IF v = u THEN kind ELSE failed[v]
      /\ notices'[v] = IF v = u THEN notices[v] \ {kind} ELSE notices[v]
      /\ conf'[v] = conf[v] \/ (v = u /\ conf'[v] = Reconciled(u, kind))
  BY <1>1 DEF RequirerKept, Begins
<1>3. v = u /\ failed[v] # None => kind = failed[v]
  BY DEF Begins
<1>4. Follows(v) /\ Listens(v)
  BY DEF SettingsInv
<1>5. /\ "update" \in notices[v] \/ failed[v] = "update"
           => "update" \in notices'[v] \/ failed'[v] = "update"
      /\ "changed" \in notices[v] \/ failed[v] = "changed"
           => "changed" \in notices'[v] \/ failed'[v] = "changed"
  BY <1>2, <1>3, ConstantsAssumption
<1>6. Listens(v)'
  BY <1>4, <1>5 DEF Listens, WillCompare, Withheld
<1>7. Follows(v)'
  <2>1. CASE conf'[v] = conf[v]
    BY <1>4, <1>5, <2>1, FollowsAlone
  <2>2. CASE conf'[v] # conf[v]
    BY <1>1, <1>2, <2>2, UpdateFollows DEF Reconciled
  <2> QED
    BY <2>1, <2>2
<1> QED
  BY <1>6, <1>7

\* A databag that changed has every unit compare.
LEMMA WriteFollows ==
  ASSUME SettingsInv, TypedInv', NotifyAll(Announced), UNCHANGED requirer, ready' = ready,
         "subordinated" \in DOMAIN bag => "subordinated" \in DOMAIN bag',
         mishaps \subseteq mishaps',
         Undone("endpoints") \/ Undone("secret-user") => "change_undone" \in mishaps'
  PROVE  \A v \in Units : Follows(v)' /\ Listens(v)'
<1> SUFFICES ASSUME NEW v \in Units PROVE Follows(v)' /\ Listens(v)'
  OBVIOUS
<1>1. TypedInv /\ Follows(v) /\ Listens(v) /\ notices'[v] = notices[v] \cup Announced
  BY DEF SettingsInv, NotifyAll
<1>2. Follows(v)'
  BY <1>1, NewsHeard DEF requirer
<1>3. Listens(v)'
  <2>1. CASE bag' = bag
    BY <1>1, <2>1 DEF Listens, WillCompare, Withheld, requirer
  <2>2. CASE bag' # bag
    BY <1>1, <2>2 DEF Announced, Listens, WillCompare
  <2> QED
    BY <2>1, <2>2
<1> QED
  BY <1>2, <1>3

\* A deletion publishes nothing that was taken away.
LEMMA DeletionUndoesNothing ==
  ASSUME NEW fields, DeleteRelationData(fields), NEW f
  PROVE  ~Undone(f)
BY DeletionOutcome DEF Undone

LEMMA InitSettings == Init => SettingsInv
<1> SUFFICES ASSUME Init PROVE SettingsInv
  OBVIOUS
<1>1. TypedInv
  BY InitTyped
<1>2. Settings = None
  BY <1>1, SettingsAre DEF TypedInv, CredentialsInv, Init, EmptyBag
<1> QED
  BY <1>1, <1>2 DEF Init, SettingsInv, Follows, Listens, WillCompare

LEMMA StepSettings == SettingsInv /\ [Next]_vars => SettingsInv'
<1> SUFFICES ASSUME SettingsInv, [Next]_vars
             PROVE  SettingsInv'
  OBVIOUS
<1>0. TypedInv /\ TypedInv' /\ RequirerKept
  BY StepTyped DEF SettingsInv, TypedInv
<1>1. ASSUME UNCHANGED <<bag, secrets, ready, snapshot, failed, deferred>>, mishaps \subseteq mishaps',
             \A v \in Units : /\ notices[v] \subseteq notices'[v]
                              /\ reach'[v] = reach[v] \/ ~reach'[v] \/ "update" \in notices'[v]
                              /\ conf'[v] = conf[v] \/ ~reach'[v]
      PROVE  SettingsInv'
  <2> SUFFICES ASSUME NEW v \in Units PROVE Follows(v)' /\ Listens(v)'
    BY <1>0 DEF SettingsInv
  <2>1. Follows(v) /\ Listens(v)
    BY DEF SettingsInv
  <2>2. Follows(v)'
    BY <1>1, <2>1, FollowsAlone
  <2>3. Listens(v)'
    BY <1>1, <2>1 DEF Listens, WillCompare, Withheld
  <2> QED
    BY <2>2, <2>3
<1>2. CASE UNCHANGED vars
  BY <1>1, <1>2 DEF vars
<1>3. ASSUME NEW u \in Units, NEW kind \in Kinds, Hook(u, kind)
      PROVE  SettingsInv'
  BY <1>0, <1>3, HookFollows DEF SettingsInv
<1>4. ASSUME NEW u \in Units, NEW kind \in Kinds, HookRaises(u, kind)
      PROVE  SettingsInv'
  BY <1>0, <1>4, FailureFollows DEF HookRaises, provider, SettingsInv
<1>5. ASSUME NEW u \in Units, NEW v \in Units, HookDeposed(u, v)
      PROVE  SettingsInv'
  <2>1. "created" \in Kinds
    BY DEF Kinds, LibraryKinds
  <2> QED
    BY <1>0, <1>5, <2>1, FailureFollows DEF HookDeposed, MissedIf, provider, SettingsInv
<1>6. ASSUME NEW u \in Units, Elect(u)
      PROVE  SettingsInv'
  BY <1>1, <1>6 DEF Elect, MissedIf, requirer, provider
<1>7. ASSUME NEW u \in Units, ContainerRestart(u)
      PROVE  SettingsInv'
  BY <1>0, <1>1, <1>7 DEF ContainerRestart, provider, RequirerKept
<1>8. ASSUME NEW u \in Units, PebbleUp(u)
      PROVE  SettingsInv'
  BY <1>0, <1>1, <1>8 DEF PebbleUp, Notify, provider, RequirerKept
<1>9. ASSUME NEW s \in Servers, Serve(s) \/ FailOver(s)
      PROVE  SettingsInv'
  BY <1>1, <1>9 DEF Serve, FailOver, Notify, MissedIf, requirer, provider
<1>10. ASSUME NEW data, Publish(data)
       PROVE  SettingsInv'
  <2>1. "subordinated" \in DOMAIN bag => "subordinated" \in DOMAIN bag'
    BY <1>10, WriteOutcome, SecretFieldsAre DEF Publish
  <2> QED
    BY <1>0, <1>10, <2>1, WriteFollows DEF Publish, SettingsInv
<1>11. ASSUME NEW fields \in Deletable, Delete(fields)
       PROVE  SettingsInv'
  <2>1. "subordinated" \in DOMAIN bag => "subordinated" \in DOMAIN bag'
    BY <1>11, DeletionOutcome DEF Delete, Deletable
  <2>2. ~Undone("endpoints") /\ ~Undone("secret-user")
    BY <1>11, DeletionUndoesNothing DEF Delete
  <2> QED
    BY <1>0, <1>11, <2>1, <2>2, WriteFollows DEF Delete, SettingsInv
<1>12. CASE BecomeReady
  <2>1. \A v \in Units : "changed" \in notices'[v]
    BY <1>12 DEF BecomeReady, Notify
  <2> SUFFICES ASSUME NEW v \in Units PROVE Follows(v)' /\ Listens(v)'
    BY <1>0 DEF SettingsInv
  <2>2. Follows(v)'
    BY <1>12, FollowsAlone DEF BecomeReady, Notify, requirer, SettingsInv
  <2> QED
    BY <2>1, <2>2 DEF Listens, WillCompare
<1> QED
  BY <1>0, <1>2, <1>3, <1>4, <1>5, <1>6, <1>7, <1>8, <1>9, <1>10, <1>11, <1>12, StepShape

\* A unit with nothing left to handle runs Polaris on the address that is published, unless
\* a change was taken back before it compared (MetastoreEvents.reconcile,
\* DatabaseRequirerEventHandlers._on_relation_changed_event).
THEOREM PolarisFollowsAddress == Spec => []SettingsFollowEndpoints
<1>1. SettingsInv => SettingsFollowEndpoints
  <2> SUFFICES ASSUME SettingsInv, NEW u \in Units, Quiet(u), reach[u], Settings # None,
                      ~Withheld, "change_undone" \notin mishaps
               PROVE  OnAddress(u)
    BY DEF SettingsFollowEndpoints, OnAddress
  <2>1. TypedInv /\ Follows(u) /\ Listens(u)
    BY DEF SettingsInv
  <2>2. ~WillUpdate(u)
    BY ConstantsAssumption DEF Quiet, WillUpdate
  <2>3. snapshot[u] = bag
    BY <2>1, ConstantsAssumption DEF Quiet, Listens, WillCompare
  <2>4. ~WillHear(u)
    BY <2>1, <2>3, HearsOf DEF WillHear, TypedInv, CredentialsInv, CredentialsStaySecret
  <2> QED
    BY <2>1, <2>2, <2>4 DEF Follows
<1> QED
  BY <1>1, InitSettings, StepSettings, PTL DEF Spec

===============================================================================
