------------------------------ MODULE MCCatalogue ------------------------------
(***************************************************************************)
(* A small connector catalogue, its inventories, and the values requests   *)
(* are made of, for the instances that need one.                           *)
(***************************************************************************)
EXTENDS ConnectorCatalog, TLC

---------------------------------------------------------------------------
(* Descriptors and inventories.                                             *)

Option(key, type, sensitivity, required_) ==
    [key |-> key, roles |-> <<1, 2>>, owner |-> "connection", type |-> type,
     sensitivity |-> sensitivity, default |-> {}, enum |-> IF type = "enum" THEN <<"disable", "require">> ELSE <<>>,
     minimum |-> IF type = "integer" THEN {1} ELSE {}, maximum |-> IF type = "integer" THEN {65535} ELSE {},
     minLength |-> {}, maxLength |-> {8}, required |-> required_, pattern |-> IF key = 1 THEN "jdbc.url" ELSE ""]

Url == Option(1, "string", "public", TRUE)
User == Option(2, "string", "restricted", FALSE)
Password == Option(3, "string", "secret", TRUE)
FetchSize == [Option(8, "integer", "public", FALSE) EXCEPT !.owner = "job"]
Host == Option(4, "string", "public", TRUE)
Database == Option(5, "string", "public", TRUE)
PortOption == Option(6, "integer", "public", FALSE)
SslMode == Option(7, "enum", "public", FALSE)
Token == Option(9, "string", "secret", TRUE)
Properties == [first |-> 10, last |-> 19, dotted |-> TRUE, maxEntries |-> 4, maxLength |-> 8,
               roles |-> <<1, 2>>, owner |-> "connection", sensitivity |-> "public"]

Descriptor(name, artifact, options) ==
    [known |-> TRUE, schemaVersion |-> 1, identified |-> TRUE, name |-> name,
     artifact |-> artifact, revision |-> 0, schema |-> 0, accepted |-> {},
     roles |-> <<1, 2>>, capabilities |-> IF name = 1 THEN <<1, 2, 5>> ELSE <<1, 2>>,
     modes |-> <<1>>, delivery |-> IF name = 1 THEN <<1, 2>> ELSE <<1>>, options |-> options,
     prefixes |-> IF name = 1 THEN <<Properties>> ELSE <<>>,
     requirements |-> <<[role |-> 1, need |-> "required"],
                        [role |-> 2, need |-> IF name = 1 THEN "optional" ELSE "none"]>>]

(* Version 2 of the first connector accepts its own settings only and wants *)
(* a second secret; the third content claims the artifact of the first, and *)
(* the fifth has a default for a restricted option.                         *)
Drafts ==
    <<Descriptor(1, "1", <<Url, User, Password, FetchSize>>),
      Descriptor(1, "2", <<Url, User, Password, Token>>),
      Descriptor(1, "1", <<Url, [User EXCEPT !.required = TRUE], Password>>),
      Descriptor(2, "1", <<User, Password, Host, Database, PortOption, SslMode>>),
      Descriptor(1, "3", <<Url, [User EXCEPT !.default = {"u"}], Password>>),
      Descriptor(2, "2", <<User, Password, Host, Database, PortOption, SslMode>>)>>

(* The digest of a known content is its number.                             *)
Numbered(contents, x) ==
    IF x \in {contents[i] : i \in DOMAIN contents} THEN CHOOSE i \in DOMAIN contents : contents[i] = x ELSE 99
Schemas == [i \in DOMAIN Drafts |-> ConnectionSchema(Drafts[i])]
Unsealed ==
    [i \in DOMAIN Drafts |->
        LET schema == Numbered(Schemas, Schemas[i])
        IN  [Drafts[i] EXCEPT !.schema = schema, !.accepted = {schema}]]
Descriptors == [i \in DOMAIN Drafts |-> [Unsealed[i] EXCEPT !.revision = i]]
Contents == << <<1, 4>>, <<2, 6>>, <<3, 4>>, <<4, 1>>, <<5>> >>
Identities ==
    [i \in DOMAIN Contents |-> Identity([descriptors |-> [k \in DOMAIN Contents[i] |-> Descriptors[Contents[i][k]]]])]
Compilers == << <<1, "job", "b1", "batch">>, <<2, "job", "b2", "batch">>, <<3, "job", "b1", "batch">>,
                <<4, "job", "b1", "batch">>, <<5, "job", "b1", "batch">>, <<1, "job", "b3", "batch">> >>

MCDigest(kind, x) ==
    CASE kind = "schema" -> Numbered(Schemas, x)
      [] kind = "descriptor" -> Numbered(Unsealed, x)
      [] kind = "inventory" -> Numbered(Identities, x)
      [] kind = "compiler" -> Numbered(Compilers, x)

Inventory(content, build) ==
    [canonical |-> TRUE, schemaVersion |-> 1, build |-> build, jobSchema |-> "job", profile |-> "batch",
     revision |-> content, compiler |-> Numbered(Compilers, <<content, "job", build, "batch">>),
     descriptors |-> [k \in DOMAIN Contents[content] |-> Descriptors[Contents[content][k]]]]

(* The inventory in use, and the one of the next release.                   *)
Old == Inventory(1, "b1")
Newer == Inventory(2, "b2")

---------------------------------------------------------------------------
(* Values of settings, and bindings of secrets.                             *)

Value(text, parses, number, url) ==
    [text |-> text, length |-> 2, parses |-> parses, number |-> number, url |-> url]
JdbcUrl(scheme, host) ==
    Value(host, {"jdbc.url"}, 0,
          {[scheme |-> scheme, plain |-> TRUE, host |-> host, port |-> 5432, database |-> "d", ssl |-> ""]})
Text(text) == Value(text, {}, 0, {})
Setting(key, value) == [key |-> key, value |-> value]
Secret(name, keys) ==
    {[provider |-> "KUBERNETES_SECRET_V1", secret |-> name,
      fields |-> [i \in DOMAIN keys |-> [field |-> keys[i], key |-> "k"]]]}

(* A request about the first Connection.                                    *)
Request(kind, expected, key) ==
    [kind |-> kind, name |-> 1, expected |-> expected, key |-> key, actor |-> "alice", connector |-> 1,
     display |-> "d1", settings |-> <<Setting(1, JdbcUrl("postgresql", "h1")), Setting(2, Text("u"))>>,
     secret |-> Secret("s1", <<3>>)]
By(actor, q) == [q EXCEPT !.actor = actor]

===============================================================================
