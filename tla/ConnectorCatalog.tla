--------------------------- MODULE ConnectorCatalog ---------------------------
(***************************************************************************)
(* The connector catalogue: the inventory a deployment carries is          *)
(* validated, stored under its revision and made the active one; the       *)
(* service pages through the active inventory.                             *)
(*                                                                         *)
(* Names and option keys are numbers, in the order of the strings, so the  *)
(* keys that begin with a prefix are an interval.  Enumerations keep their *)
(* protobuf numbers, 0 being UNSPECIFIED.  An optional field is a set of   *)
(* at most one value.                                                      *)
(***************************************************************************)
EXTENDS Orderings

CONSTANTS
    Inventories,     \* the decoded payloads deployments carry, sound or not
    Digest(_, _),    \* SHA-256 of a kind of content: without collisions, never 0
    Servers,         \* API server replicas, which activate on start
    Profile,         \* the execution profile this deployment serves
    RetainedLimit,   \* retainedCatalogLimit
    CatalogPage,     \* page size of the listing
    Filters,         \* the <<roles, capabilities>> clients filter by
    MaxStarts        \* bound on server starts

ASSUME CatalogAssumption ==
    /\ CatalogPage \in Nat
    /\ \A i \in Inventories : /\ i.descriptors \in Seq(Range(i.descriptors))
                              /\ \A d \in Range(i.descriptors) : d.name \in Nat

VARIABLES
    descriptorRows,  \* astrasync_connector_descriptor_snapshots
    inventoryRows,   \* astrasync_connector_inventories, each with its time
    activation,      \* the active inventory's revision, or {}
    server,          \* by server: what it is doing, and the Reconcile it runs
    starts,          \* server starts so far, the clock of activated_at
    catalogAudit,    \* the last activation event, or {}
    listing          \* a client paging through the catalogue

catalogVars == <<descriptorRows, inventoryRows, activation, server, starts,
                 catalogAudit, listing>>

increasing(s) == \A i, j \in DOMAIN s : i < j => s[i] < s[j]
Column(s, field) == [i \in DOMAIN s |-> s[i][field]]
HasPrefix(key, p) == key \in p.first .. p.last

---------------------------------------------------------------------------
(* Validation of an inventory (catalogproto).                               *)

validateOrderedEnumSet(values) == increasing(values) /\ 0 \notin Range(values)
hasBlankOrDuplicate(values) == "" \in Range(values) \/ ~IsInjective(values)

validateOptions(d) ==
    /\ increasing(Column(d.options, "key"))
    /\ \A o \in Range(d.options) :
        /\ validateOrderedEnumSet(o.roles) /\ o.roles # <<>>
        /\ Range(o.roles) \subseteq Range(d.roles)
        /\ "unspecified" \notin {o.owner, o.type, o.sensitivity}
        /\ o.sensitivity # "public" => o.owner = "connection" /\ o.default = {}
        /\ IF o.type = "enum" THEN o.enum # <<>> /\ ~hasBlankOrDuplicate(o.enum)
           ELSE o.enum = <<>>
        /\ \A low \in o.minimum, high \in o.maximum : low <= high
        /\ \A low \in o.minLength, high \in o.maxLength : low <= high
    /\ increasing(Column(d.prefixes, "first"))
    /\ \A p \in Range(d.prefixes) :
        /\ p.dotted /\ p.maxEntries \in 1..256 /\ p.maxLength \in 1..65536
        /\ p.sensitivity # "public" => p.owner = "connection"
        /\ \A o \in Range(d.options) : ~HasPrefix(o.key, p)

validateRequirements(d) ==
    /\ Column(d.requirements, "role") = <<1, 2>>
    /\ \A r \in Range(d.requirements) : r.need # "unspecified"

(* BATCH is 1 and CDC is 2; the capabilities are 1 and 2 BATCH_READ and     *)
(* WRITE, 5 REPLAYABLE_OFFSET, 7 EXACTLY_ONCE_SOURCE, 11 CDC, 13 UPSERT,    *)
(* 14 DELETE, 15 TRANSACTIONAL_COMMIT and 16 IDEMPOTENT_WRITE.              *)
validateDerivedFields(d) ==
    LET caps == Range(d.capabilities)
        modes == {mode \in {1, 2} :
                    IF mode = 1 THEN caps \cap {1, 2} # {}
                    ELSE 11 \in caps \/ {13, 14} \subseteq caps}
        delivery == {1} \cup {c \in 2..5 : <<5, 7, 16, 15>>[c - 1] \in caps}
    IN  /\ d.modes = Ascending(modes)
        /\ d.delivery = Ascending(delivery)

(* The part of a descriptor a Connection's schema revision identifies.      *)
ConnectionSchema(d) ==
    [name |-> d.name,
     options |-> SelectSeq(d.options, LAMBDA o : o.owner = "connection"),
     prefixes |-> SelectSeq(d.prefixes, LAMBDA p : p.owner = "connection"),
     requirements |-> d.requirements]

validateDescriptor(d) ==
    /\ d.known /\ d.schemaVersion = 1 /\ d.identified
    /\ validateOrderedEnumSet(d.roles) /\ d.roles # <<>>
    /\ validateOrderedEnumSet(d.capabilities)
    /\ validateDerivedFields(d)
    /\ validateOptions(d)
    /\ validateRequirements(d)
    /\ d.schema \in d.accepted
    /\ d.schema = Digest("schema", ConnectionSchema(d))
    /\ d.revision = Digest("descriptor", [d EXCEPT !.revision = 0])

Identity(i) ==
    [k \in DOMAIN i.descriptors |->
        LET d == i.descriptors[k] IN <<d.name, d.artifact, d.revision>>]

(* Snapshot.Validate, on what Validate below has not checked already.       *)
SnapshotValid(i) ==
    /\ i.profile # "" /\ Len(i.descriptors) \in 1..256
    /\ increasing(Column(i.descriptors, "name"))
    /\ IsInjective(Column(i.descriptors, "revision"))

Validate(i) ==
    /\ i.canonical /\ i.schemaVersion = 1 /\ i.build # "" /\ i.jobSchema # ""
    /\ \A d \in Range(i.descriptors) : validateDescriptor(d)
    /\ i.revision = Digest("inventory", Identity(i))
    /\ i.compiler = Digest("compiler", <<i.revision, i.jobSchema, i.build, i.profile>>)
    /\ SnapshotValid(i)

---------------------------------------------------------------------------
(* The repository.  A row's payload is the record itself.                   *)

Down == [pc |-> "down", inventory |-> {}, old |-> {}, at |-> 0]
Serving == [Down EXCEPT !.pc = "serving"]

Current == {row.inventory : row \in {r \in inventoryRows : r.inventory.revision \in activation}}

(* ON CONFLICT DO NOTHING, then a comparison with what the row holds; a     *)
(* second revision of one artifact breaks the unique index.                 *)
insertDescriptor(d) ==
    \A row \in descriptorRows :
        /\ row.revision = d.revision => row = d
        /\ <<row.name, row.artifact>> = <<d.name, d.artifact>> => row.revision = d.revision

(* A mistake the properties must notice: a stored payload is not compared.  *)
insertInventoryUncompared(i) == i.revision # 0

insertInventory(i) ==
    \A row \in inventoryRows : row.inventory.revision = i.revision => row.inventory = i

Accepts(i) == insertInventory(i) /\ \A d \in Range(i.descriptors) : insertDescriptor(d)

(* The transaction.  An inventory activated again keeps its first row.      *)
Activate(i, at, event) ==
    /\ Accepts(i)
    /\ descriptorRows' = descriptorRows \cup Range(i.descriptors)
    /\ inventoryRows' = IF \E row \in inventoryRows : row.inventory = i THEN inventoryRows
                        ELSE inventoryRows \cup {[inventory |-> i, at |-> at]}
    /\ activation' = {i.revision}
    /\ catalogAudit' = {event}

(* The newest inventories, by the time of their first activation.           *)
ListRecent ==
    LET Newer(row) == {r \in inventoryRows : r.at > row.at}
    IN  {row.inventory : row \in {r \in inventoryRows : Cardinality(Newer(r)) < RetainedLimit}}

---------------------------------------------------------------------------
(* A server reconciles the catalogue before it serves.                      *)

(* reconcileCompilerCatalog up to Reconcile's read of the active revision,  *)
(* with the inventory i the compiler service and the artifact agree on.     *)
reconcileCompilerCatalog(s, i) ==
    /\ server[s] = Down /\ starts < MaxStarts
    /\ i.profile = Profile /\ Validate(i)
    /\ starts' = starts + 1
    /\ server' = [server EXCEPT ![s] = [pc |-> "reconcile", inventory |-> {i},
                                        old |-> activation, at |-> starts + 1]]
    /\ UNCHANGED <<descriptorRows, inventoryRows, activation, catalogAudit, listing>>

(* The compiler service does not answer: the last inventory is retained.    *)
CompilerUnavailable(s) ==
    /\ server[s] = Down /\ starts < MaxStarts /\ Current # {}
    /\ starts' = starts + 1
    /\ server' = [server EXCEPT ![s] = Serving]
    /\ UNCHANGED <<descriptorRows, inventoryRows, activation, catalogAudit, listing>>

(* The event's outcome is the one of the revision read before.  A refused   *)
(* activation ends the process.                                             *)
Reconcile(s) ==
    /\ server[s].pc = "reconcile"
    /\ \E i \in server[s].inventory :
        \/ /\ Activate(i, server[s].at,
                       [old |-> server[s].old, new |-> i.revision,
                        outcome |-> IF server[s].old = {i.revision} THEN "NO_CHANGE"
                                    ELSE "CHANGED"])
           /\ server' = [server EXCEPT ![s] = Serving]
        \/ /\ ~Accepts(i)
           /\ server' = [server EXCEPT ![s] = Down]
           /\ UNCHANGED <<descriptorRows, inventoryRows, activation, catalogAudit>>
    /\ UNCHANGED <<starts, listing>>

StopServer(s) ==
    /\ server[s] # Down
    /\ server' = [server EXCEPT ![s] = Down]
    /\ UNCHANGED <<descriptorRows, inventoryRows, activation, starts, catalogAudit, listing>>

---------------------------------------------------------------------------
(* The service.  A page token is its claims: it is signed.                  *)

NoListing == [filter |-> <<<<>>, <<>>>>, token |-> {}, seen |-> <<>>, of |-> {}]

catalogFilters(filter) == validateOrderedEnumSet(filter[1]) /\ validateOrderedEnumSet(filter[2])

filterDescriptors(descriptors, filter) ==
    LET kept == Ascending({k \in DOMAIN descriptors :
                    /\ Range(filter[1]) \subseteq Range(descriptors[k].roles)
                    /\ Range(filter[2]) \subseteq Range(descriptors[k].capabilities)})
    IN  [k \in DOMAIN kept |-> descriptors[kept[k]]]

(* A mistake the properties must notice: a page token outlives its          *)
(* inventory.                                                               *)
TokenAcceptedByFilter(token, filter, i) ==
    token.filter = filter /\ token.cursor <= Len(filterDescriptors(i.descriptors, filter))

(* A token is good for its own filters and for the inventory it was made of.*)
TokenAccepted(token, filter, i) ==
    /\ token.filter = filter
    /\ token.inventory = i.revision
    /\ token.cursor <= Len(filterDescriptors(i.descriptors, filter))

(* One page: the first, or the one after the token the client holds.  The   *)
(* descriptors received since the first page are `seen`, the inventories    *)
(* they came from `of`, both by revision.                                   *)
ListConnectorDescriptors(filter, resume) ==
    /\ \E s \in Servers : server[s] = Serving
    /\ catalogFilters(filter)
    /\ resume => listing.token # {}
    /\ \E i \in Current :
        LET filtered == filterDescriptors(i.descriptors, filter)
            Page(cursor, before, of) ==
                LET end == IF cursor + CatalogPage < Len(filtered) THEN cursor + CatalogPage
                           ELSE Len(filtered)
                IN  [filter |-> filter,
                     token |-> {[filter |-> filter, inventory |-> i.revision, cursor |-> c] :
                                    c \in {end} \ {Len(filtered)}},
                     seen |-> before \o SubSeq(Column(filtered, "revision"), cursor + 1, end),
                     of |-> of \cup {i.revision}]
        IN  \/ /\ ~resume
               /\ listing' = Page(0, <<>>, {})
            \/ /\ resume
               /\ \E token \in listing.token :
                    /\ TokenAccepted(token, filter, i)
                    /\ listing' = Page(token.cursor, listing.seen, listing.of)
    /\ UNCHANGED <<descriptorRows, inventoryRows, activation, server, starts, catalogAudit>>

(* What a read by name finds: in the active inventory, or for an exact      *)
(* revision in the retained ones.                                           *)
GetConnectorDescriptor(name, exact) ==
    {d \in UNION {Range(i.descriptors) : i \in IF exact = {} THEN Current ELSE ListRecent} :
        d.name = name /\ (exact # {} => d.revision \in exact)}

---------------------------------------------------------------------------
CatalogInit ==
    /\ descriptorRows = {} /\ inventoryRows = {} /\ activation = {}
    /\ server = [s \in Servers |-> Down]
    /\ starts = 0 /\ catalogAudit = {} /\ listing = NoListing

CatalogNext ==
    \/ \E s \in Servers :
        \/ \E i \in Inventories : reconcileCompilerCatalog(s, i)
        \/ CompilerUnavailable(s) \/ Reconcile(s) \/ StopServer(s)
    \/ \E filter \in Filters, resume \in BOOLEAN : ListConnectorDescriptors(filter, resume)

CatalogSpec == CatalogInit /\ [][CatalogNext]_catalogVars

(* A stored revision names one payload for ever and an artifact version one *)
(* descriptor, whichever replicas activate whichever inventories; a read by *)
(* an exact revision answers nothing but that payload, and a server that    *)
(* serves finds an active inventory.  The pages a client received up to the *)
(* last one are one inventory's filtered descriptors, each exactly once,    *)
(* however many inventories were activated between the pages                *)
(* (ListConnectorDescriptors' token claims).                                *)
CatalogueIsWhole ==
    /\ listing.of # {} /\ listing.token = {} =>
          \E row \in inventoryRows :
            /\ row.inventory.revision \in listing.of
            /\ listing.seen = Column(filterDescriptors(row.inventory.descriptors, listing.filter), "revision")
    /\ IsInjective([d \in descriptorRows |-> d.revision])
    /\ IsInjective([d \in descriptorRows |-> <<d.name, d.artifact>>])
    /\ IsInjective([row \in inventoryRows |-> row.inventory.revision])
    /\ \A row \in inventoryRows : Range(row.inventory.descriptors) \subseteq descriptorRows
    /\ \A d \in descriptorRows : GetConnectorDescriptor(d.name, {d.revision}) \subseteq {d}
    /\ \A s \in Servers : server[s] = Serving => Current # {}

===============================================================================
