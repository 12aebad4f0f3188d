--------------------------- MODULE ConnectionService ---------------------------
(***************************************************************************)
(* The Connection API.  A mutating call is two steps: it reads the         *)
(* Connection and the active catalogue and computes a candidate, and       *)
(* later, other calls in between, it applies the candidate in one          *)
(* transaction.  A call that is refused before its transaction changes     *)
(* nothing and is not a step.                                              *)
(*                                                                         *)
(* An option's value is a record: its text, its length in runes, what it   *)
(* parses as, and its number.                                              *)
(***************************************************************************)
EXTENDS ConnectorCatalog, ConnectionStore

CONSTANTS
    Clients,
    Granted,                \* by actor: its permissions
    MutationsEnabled, TestsEnabled,
    TestDeadline, TestRetention,
    TestPolicy,             \* the tenant's egress policy: the addresses it allows
    ConnectionPage          \* page size of ListConnections

VARIABLES
    calls,                  \* by client: the mutation it is about to apply
    connectionListing       \* a client paging through the Connections

serviceVars == <<calls, connectionListing>>

---------------------------------------------------------------------------
(* Validation against the connector's descriptor.                           *)

matchingPrefixDefinition(d, key) ==
    LET matching == SelectSeq(d.prefixes, LAMBDA p : HasPrefix(key, p) /\ p.owner = "connection")
    IN  IF matching = <<>> THEN {}
        ELSE {[owner |-> "connection", sensitivity |-> Head(matching).sensitivity,
               type |-> "string", pattern |-> "", enum |-> <<>>, minimum |-> {}, maximum |-> {},
               minLength |-> {}, maxLength |-> {Head(matching).maxLength}]}

validateOptionValue(definition, value) ==
    /\ \A low \in definition.minLength : value.length >= low
    /\ \A high \in definition.maxLength : value.length <= high
    /\ CASE definition.type = "string" -> definition.pattern = "jdbc.url" => "jdbc.url" \in value.parses
         [] definition.type = "integer" ->
                /\ "integer" \in value.parses
                /\ \A low \in definition.minimum : value.number >= low
                /\ \A high \in definition.maximum : value.number <= high
         [] definition.type = "enum" -> value.text \in Range(definition.enum)
         [] OTHER -> definition.type \in value.parses

Exact(d, key) == {o \in Range(d.options) : o.key = key}

(* The definition that accepts a setting: an exact one hides the prefixes.  *)
AcceptedDefinition(d, key) ==
    {o \in IF Exact(d, key) # {} THEN Exact(d, key) ELSE matchingPrefixDefinition(d, key) :
        o.owner = "connection" /\ o.sensitivity # "secret"}

validateConnectionSettings(d, requested) ==
    LET keys == {s.key : s \in Range(requested)}
        stored == {[key |-> s.key, value |-> s.value,
                    sensitivity |-> IF \E o \in AcceptedDefinition(d, s.key) : o.sensitivity = "restricted"
                                    THEN "RESTRICTED" ELSE "PUBLIC"] : s \in Range(requested)}
    IN  {settings \in {SortedBy(stored, [s \in stored |-> s.key])} :
            /\ Len(requested) <= MaximumSettings
            /\ Cardinality(keys) = Len(requested)
            /\ \A s \in Range(requested) :
                 \E o \in AcceptedDefinition(d, s.key) : validateOptionValue(o, s.value)
            /\ \A o \in Range(d.options) :
                 o.owner = "connection" /\ o.sensitivity # "secret" /\ o.required /\ o.default = {}
                    => o.key \in keys}

descriptorSecretFields(d) ==
    {o \in Range(d.options) : o.owner = "connection" /\ o.sensitivity = "secret"}

RequiredFields(fields) == {o.key : o \in {f \in fields : f.required}}

(* Accepted fields are records with a key and whether it is required; a     *)
(* binding must name the required ones, and may name no other.              *)
validateKubernetesBinding(binding, accepted) ==
    LET named == {f.field : f \in Range(binding.fields)}
    IN  {l \in {[provider |-> "KUBERNETES_SECRET_V1", secret |-> binding.secret,
                 fields |-> SortedBy(Range(binding.fields), [f \in Range(binding.fields) |-> f.field])]} :
            /\ binding.provider = "KUBERNETES_SECRET_V1" /\ accepted # {}
            /\ named = RequiredFields(accepted) /\ Cardinality(named) = Len(binding.fields)
            /\ LocatorValid(l)}

secretLocatorFromProto(d, binding) ==
    IF binding = {} THEN {l \in {NoLocator} : RequiredFields(descriptorSecretFields(d)) = {}}
    ELSE UNION {validateKubernetesBinding(b, descriptorSecretFields(d)) : b \in binding}

(* A connector that has left the catalogue accepts the fields bound now.    *)
secretLocatorForRotation(descriptor, current, binding) ==
    LET accepted == IF descriptor # {} THEN UNION {descriptorSecretFields(d) : d \in descriptor}
                    ELSE {[key |-> f.field, required |-> TRUE] : f \in Range(current.fields)}
    IN  UNION {validateKubernetesBinding(b, accepted) : b \in binding}

validateSecretPresence(d, locator) ==
    LET fields == descriptorSecretFields(d)
    IN  /\ fields = {} => locator.provider = ""
        /\ RequiredFields(fields) \subseteq {f.field : f \in Range(locator.fields)}

connectionCapable(d) == \E r \in Range(d.requirements) : r.need \in {"optional", "required"}

(* The connector's descriptor in the active inventory, if it has one.       *)
findCurrentDescriptor(connector) ==
    {d \in UNION {Range(i.descriptors) : i \in Current} : d.name = connector}

compatibility(stored, descriptor) ==
    IF descriptor = {} THEN "CONNECTOR_UNAVAILABLE"
    ELSE IF \E d \in descriptor : stored.current.schema \in d.accepted THEN "COMPATIBLE"
    ELSE "REVALIDATION_REQUIRED"

---------------------------------------------------------------------------
(* The handlers up to their transaction: the candidates, at most one.       *)

(* A UUID no row, answer or call in progress holds.                         *)
FreshUid ==
    LET used == {g[1] : g \in generations} \cup tombstones \cup DOMAIN tests
                    \cup {row.result.subject : row \in idempotency}
                    \cup {c.fresh : c \in UNION {calls[k] : k \in Clients}}
    IN  CHOOSE n \in 1 .. (Cardinality(used) + 1) : n \notin used

CreateConnection(q) ==
    UNION {{New(q.name, FreshUid, q.connector, q.display,
                [number |-> 1, descriptor |-> d.revision, schema |-> d.schema,
                 settings |-> settings, locator |-> locator]) :
            settings \in validateConnectionSettings(d, q.settings),
            locator \in {l \in secretLocatorFromProto(d, q.secret) : validateSecretPresence(d, l)}} :
        d \in {x \in findCurrentDescriptor(q.connector) : connectionCapable(x)}}

UpdateConnection(q) ==
    LET c == connections[q.name]
    IN  UNION {UNION {Replace(c, q.display, settings, d.revision, d.schema) :
                        settings \in validateConnectionSettings(d, q.settings)} :
            d \in {x \in findCurrentDescriptor(c.connector) :
                     validateSecretPresence(x, c.current.locator)}}

RotateConnection(q) ==
    LET c == connections[q.name]
    IN  UNION {Rotate(c, locator) :
            locator \in secretLocatorForRotation(findCurrentDescriptor(c.connector),
                                                 c.current.locator, q.secret)}

setConnectionState(q, target) ==
    LET c == connections[q.name]
        descriptor == findCurrentDescriptor(c.connector)
    IN  {n \in SetState(c, target, compatibility(c, descriptor)) :
            target = "ACTIVE" => \E d \in descriptor : validateSecretPresence(d, c.current.locator)}

TestConnection(q) ==
    LET c == connections[q.name]
    IN  {[operation |-> FreshUid, uid |-> c.uid, generation |-> c.current.number, actor |-> q.actor,
          policy |-> TestPolicy, state |-> "QUEUED", phase |-> "", result |-> "", created |-> now,
          deadline |-> now + TestDeadline, expires |-> now + TestRetention,
          executor |-> {}, lease |-> 0, attempt |-> 0] :
            d \in {x \in findCurrentDescriptor(c.connector) : c.current.schema \in x.accepted}}

(* EnableConnection is authorized by the permission to disable.             *)
Permission(kind) == IF kind = "ENABLE" THEN "DISABLE" ELSE kind

loadForMutation(q) == q.expected > 0 /\ connections[q.name] # NoConnection

(* The candidates of a request and the tests it queues.                     *)
Computed(q) ==
    CASE q.kind = "CREATE" -> CreateConnection(q)
      [] q.kind = "UPDATE" -> UpdateConnection(q)
      [] q.kind = "ROTATE" -> RotateConnection(q)
      [] q.kind = "ENABLE" -> setConnectionState(q, "ACTIVE")
      [] q.kind = "DISABLE" -> setConnectionState(q, "DISABLED")
      [] q.kind = "DELETE" -> {NoConnection}
      [] q.kind = "TEST" -> TestConnection(q)

(* The digest is of the request without its key.                            *)
mutation(q, computed) ==
    [kind |-> q.kind, name |-> q.name, expected |-> q.expected,
     candidate |-> IF q.kind \in {"DELETE", "TEST"} THEN {} ELSE {computed},
     test |-> IF q.kind = "TEST" THEN {computed} ELSE {},
     scope |-> [actor |-> q.actor, method |-> q.kind, key |-> q.key],
     digest |-> [q EXCEPT !.key = 0]]

Call(client, q) ==
    /\ calls[client] = {}
    /\ Permission(q.kind) \in Granted[q.actor]
    /\ IF q.kind = "TEST" THEN TestsEnabled ELSE MutationsEnabled
    /\ q.kind # "CREATE" => loadForMutation(q)
    /\ \E computed \in Computed(q) :
         calls' = [calls EXCEPT ![client] = {[mutation |-> mutation(q, computed), fresh |-> FreshUid]}]
    /\ UNCHANGED <<connectionVars, connectionListing>>

(* The transaction commits; or the row of an earlier one answers, it is     *)
(* refused, or the database fails it, and nothing is left behind.           *)
Commit(client) ==
    \E c \in calls[client] :
        /\ Apply(c.mutation)
        /\ calls' = [calls EXCEPT ![client] = {}]
        /\ UNCHANGED connectionListing

Return(client) ==
    /\ calls[client] # {}
    /\ calls' = [calls EXCEPT ![client] = {}]
    /\ UNCHANGED <<connectionVars, connectionListing>>

---------------------------------------------------------------------------
(* Reading.                                                                 *)

NoConnectionListing == [filter |-> <<0, "">>, token |-> {}, seen |-> <<>>]

(* A token stands for the filters, the list revision and the last name.     *)
encodeConnectionToken(filter, revision, last) == [filter |-> filter, revision |-> revision, after |-> last]
decodeConnectionToken(token, filter) == {claims \in {token} : claims.filter = filter}

(* One page of a listing: a token made for other filters is refused, and so *)
(* is one of an earlier list revision.                                      *)
ListConnections(filter, resume) ==
    LET page(after) == List(after, filter[1], filter[2], ConnectionPage)
        Received(before, p) ==
            [filter |-> filter, seen |-> before \o p.names,
             token |-> {encodeConnectionToken(filter, p.revision, last) :
                            last \in IF p.hasMore THEN {p.names[Len(p.names)]} ELSE {}}]
    IN  /\ \/ ~resume /\ connectionListing' = Received(<<>>, page(0))
           \/ /\ resume
              /\ \E token \in connectionListing.token : \E claims \in decodeConnectionToken(token, filter) :
                    /\ claims.revision = page(claims.after).revision
                    /\ connectionListing' = Received(connectionListing.seen, page(claims.after))
        /\ UNCHANGED <<connectionVars, calls>>

===============================================================================
