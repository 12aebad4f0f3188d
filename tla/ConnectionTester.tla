---------------------------- MODULE ConnectionTester ----------------------------
(***************************************************************************)
(* The executors of Connection tests: each one claims a batch of queued    *)
(* tests under a lease, probes every Connection in a goroutine of its own  *)
(* and completes the tests; it claims again when all have returned.        *)
(*                                                                         *)
(* An address is a number; a network prefix is the set of addresses   *)
(* in it.  What the network, the database and the Secret provider do is an *)
(* environment: which addresses a host resolves to, which can be dialled,  *)
(* and how a server answers.                                               *)
(***************************************************************************)
EXTENDS ConnectionService

CONSTANTS
    Executors, ClaimBatch, LeaseDuration, ProbeTimeout, CompletionTimeout,
    MaxTime, MaxCrashes, MaxOperation,       \* bounds: the clock, ended processes, identifiers
    Environments,
    Key,                                     \* the keys of the options probes read
    Kinds,                                   \* by connector: the probe registered for it
    HardDenied, Restricted, Protected,       \* sets of addresses
    MaximumDNSAddresses, MaximumConnectionAttempts

VARIABLES
    executor,           \* by executor: what it does, and the work it claimed
    crashes             \* executor processes that ended so far

testerVars == <<executor, crashes>>

---------------------------------------------------------------------------
(* The probe.                                                               *)

SuccessfulProbe == [state |-> "SUCCEEDED", phase |-> "COMPLETE", result |-> "OK"]
FailedProbe(phase, code) == [state |-> "FAILED", phase |-> phase, result |-> code]
TimedOutProbe(phase) == [state |-> "TIMED_OUT", phase |-> phase, result |-> "DEADLINE_EXCEEDED"]
CanceledProbe(phase) == [state |-> "CANCELED", phase |-> phase, result |-> "EXECUTOR_UNAVAILABLE"]

(* The settings and the resolved credential fields, by key; none when a key *)
(* has two values or a credential is empty.                                 *)
NewConfiguration(settings, credentials) ==
    LET keys == {s.key : s \in Range(settings)}
        value(k) == IF k \in keys THEN (CHOOSE s \in Range(settings) : s.key = k).value
                    ELSE credentials[k]
    IN  {c \in {[k \in keys \cup DOMAIN credentials |-> value(k)]} :
            /\ keys \cap DOMAIN credentials = {}
            /\ \A k \in DOMAIN credentials : credentials[k].length > 0}

required(configuration, k) == k \in DOMAIN configuration /\ configuration[k].length > 0

Port(configuration, default) ==
    IF Key.port \notin DOMAIN configuration THEN {default}
    ELSE {configuration[Key.port].number} \cap (1..65535)

targetFromFields(configuration, driver, default) ==
    {[driver |-> driver, host |-> configuration[Key.host].text, port |-> port,
      ssl |-> IF Key.ssl \in DOMAIN configuration THEN configuration[Key.ssl].text ELSE ""] :
        port \in IF \A k \in {Key.host, Key.database, Key.user, Key.password} : required(configuration, k)
                 THEN Port(configuration, default) ELSE {}}

(* A URL parses into its scheme, host, port, database and query options.    *)
parseJDBCURL(configuration) ==
    {[driver |-> u.scheme, host |-> u.host, port |-> u.port, ssl |-> u.ssl] :
        u \in IF required(configuration, Key.url)
              THEN {x \in configuration[Key.url].url :
                      /\ x.scheme \in {"postgresql", "mysql"} /\ x.plain
                      /\ x.port \in 1..65535 /\ x.database # ""}
              ELSE {}}

target(kind, configuration) ==
    CASE kind = "generic" -> parseJDBCURL(configuration)
      [] kind = "mysql" -> targetFromFields(configuration, "mysql", 3306)
      [] kind = "postgresql" -> targetFromFields(configuration, "postgresql", 5432)

requiresExplicitAllow(address) == address \in Restricted \cup Protected

(* A mistake the properties must notice: one allowed address is enough.     *)
ResolveSome(t, policy, env) ==
    IF t.host \notin DOMAIN env.dns THEN "DNS"
    ELSE IF \A a \in env.dns[t.host] : requiresExplicitAllow(a) /\ a \notin policy THEN "POLICY"
    ELSE "PINNED"

(* Whether a test may reach a host: every address of it, or none.           *)
Resolve(t, policy, env) ==
    LET Denied(a) == a \in HardDenied \/ (requiresExplicitAllow(a) /\ a \notin policy)
    IN  IF t.host \notin DOMAIN env.dns THEN "DNS"
        ELSE IF Cardinality(env.dns[t.host]) \notin 1..MaximumDNSAddresses THEN "DNS"
        ELSE IF \E a \in env.dns[t.host] : Denied(a) THEN "POLICY"
        ELSE "PINNED"

(* The first addresses of the pinned ones are tried, in order.              *)
DialContext(addresses, env) ==
    \E a \in addresses :
        /\ a \in env.reachable
        /\ Cardinality({b \in addresses : b < a}) < MaximumConnectionAttempts

(* The modes, in lower case and with dashes.                                *)
postgresSSLMode(value) == value \in {"", "disable", "allow", "prefer", "require", "verify-ca", "verify-full"}
mysqlTLSMode(value) ==
    value \in {"", "preferred", "disabled", "disable", "required", "require", "verify-ca", "verify-identity",
               "verify-full"}

(* What connecting to the server ends in.                                   *)
ProbeDatabase(t, env) ==
    IF ~(IF t.driver = "postgresql" THEN postgresSSLMode(t.ssl) ELSE mysqlTLSMode(t.ssl)) THEN "invalid"
    ELSE IF ~DialContext(env.dns[t.host], env) THEN "dial"
    ELSE env.server

classifyProbeError(error) ==
    CASE error = "policy" -> FailedProbe("POLICY", "POLICY_DENIED")
      [] error = "dial" -> FailedProbe("TRANSPORT", "TRANSPORT_FAILED")
      [] error = "tls" -> FailedProbe("TLS", "TLS_FAILED")
      [] error = "credentials" -> FailedProbe("AUTHENTICATION", "AUTHENTICATION_FAILED")
      [] OTHER -> FailedProbe("HANDSHAKE", "HANDSHAKE_FAILED")

Execute(kind, configuration, policy, env) ==
    IF target(kind, configuration) = {} THEN FailedProbe("HANDSHAKE", "HANDSHAKE_FAILED")
    ELSE LET t == CHOOSE x \in target(kind, configuration) : TRUE
             resolved == Resolve(t, policy, env)
         IN  IF resolved = "DNS" THEN FailedProbe("DNS", "DNS_FAILED")
             ELSE IF resolved = "POLICY" THEN FailedProbe("POLICY", "POLICY_DENIED")
             ELSE IF ProbeDatabase(t, env) = "ok" THEN SuccessfulProbe
             ELSE classifyProbeError(ProbeDatabase(t, env))

RegistryExecute(connector, configuration, policy, env) ==
    IF connector \notin DOMAIN Kinds THEN FailedProbe("HANDSHAKE", "HANDSHAKE_FAILED")
    ELSE Execute(Kinds[connector], configuration, policy, env)

(* The credentials a locator names, when its Secret is there.               *)
probe(connector, generation, policy, env) ==
    LET named == {f.field : f \in Range(generation.locator.fields)}
        credentials == [k \in named |-> env.secret[k]]
    IN  IF ~(named \subseteq DOMAIN env.secret)
            THEN FailedProbe("AUTHENTICATION", "SECRET_UNAVAILABLE")
        ELSE IF NewConfiguration(generation.settings, credentials) = {}
            THEN FailedProbe("HANDSHAKE", "HANDSHAKE_FAILED")
        ELSE RegistryExecute(connector, CHOOSE c \in NewConfiguration(generation.settings, credentials) : TRUE,
                             policy, env)

---------------------------------------------------------------------------
(* The executor.                                                            *)

IdleExecutor == [pc |-> "idle", at |-> 0, work |-> {}]
Earliest(times) == CHOOSE t \in times : \A u \in times : t <= u

(* RunOnce: the time is read once, for the expiry and for the claim.        *)
RunOnce(e) ==
    /\ executor[e] = IdleExecutor
    /\ executor' = [executor EXCEPT ![e] = [pc |-> "expire", at |-> now, work |-> {}]]
    /\ UNCHANGED <<connectionVars, serviceVars, crashes>>

Expire(e) ==
    /\ executor[e].pc = "expire"
    /\ ExpireTests(executor[e].at)
    /\ executor' = [executor EXCEPT ![e].pc = "claim"]
    /\ UNCHANGED <<serviceVars, crashes>>

(* execute's deadline leaves the time to complete before the lease ends.    *)
Work(op, t) ==
    [operation |-> op, attempt |-> tests[op].attempt + 1, result |-> {},
     generation |-> (CHOOSE g \in CapturedGeneration(op) : TRUE)[2],
     connector |-> (CHOOSE c \in {connections[n] : n \in Names} : c.uid = tests[op].uid).connector,
     deadline |-> Earliest({tests[op].deadline, now + ProbeTimeout,
                            t + LeaseDuration - CompletionTimeout})]

Claim(e) ==
    LET t == executor[e].at
        work == {Work(op, t) : op \in Candidates(ClaimBatch, t)}
    IN  /\ executor[e].pc = "claim"
        /\ ClaimTests(e, ClaimBatch, LeaseDuration, t)
        /\ executor' = [executor EXCEPT ![e] = IF work = {} THEN IdleExecutor
                                               ELSE [@ EXCEPT !.pc = "run", !.work = work]]
        /\ UNCHANGED <<serviceVars, crashes>>

(* A goroutine's probe returns, at the latest when its context ends.        *)
ProbeReturns(e, w, env) ==
    LET result == IF now >= w.deadline THEN TimedOutProbe("HANDSHAKE")
                  ELSE probe(w.connector, w.generation, tests[w.operation].policy, env)
    IN  /\ w \in executor[e].work /\ w.result = {}
        /\ executor' = [executor EXCEPT ![e].work = (@ \ {w}) \cup {[w EXCEPT !.result = {result}]}]
        /\ UNCHANGED <<connectionVars, serviceVars, crashes>>

(* A lost lease is not an error: somebody else completes the test.          *)
Complete(e, w) ==
    LET rest == executor[e].work \ {w}
    IN  /\ w \in executor[e].work
        /\ \E result \in w.result :
             \/ CompleteTest(w.operation, e, result)
             \/ ~HoldsLease(w.operation, e) /\ UNCHANGED connectionVars
        /\ executor' = [executor EXCEPT ![e] = IF rest = {} THEN IdleExecutor
                                               ELSE [@ EXCEPT !.work = rest]]
        /\ UNCHANGED <<serviceVars, crashes>>

(* The process is stopped while it probes: the results are CANCELED.        *)
Cancel(e) ==
    /\ executor[e].pc = "run" /\ \E w \in executor[e].work : w.result = {}
    /\ executor' = [executor EXCEPT ![e].work =
            {IF w.result = {} THEN [w EXCEPT !.result = {CanceledProbe("HANDSHAKE")}] ELSE w : w \in @}]
    /\ UNCHANGED <<connectionVars, serviceVars, crashes>>

(* The process ends, its goroutines with it, and is started again.          *)
CrashExecutor(e) ==
    /\ executor[e] # IdleExecutor /\ crashes < MaxCrashes
    /\ crashes' = crashes + 1
    /\ executor' = [executor EXCEPT ![e] = IdleExecutor]
    /\ UNCHANGED <<connectionVars, serviceVars>>

Tick ==
    /\ now < MaxTime
    /\ now' = now + 1
    /\ UNCHANGED <<connections, generations, idempotency, tombstones, listRevision, tests, jobBindings,
                   executionBindings, cleanupObligations, connectionAudit, serviceVars, testerVars>>

---------------------------------------------------------------------------
ConnectionInit ==
    /\ connections = [n \in Names |-> NoConnection]
    /\ generations = {} /\ idempotency = {} /\ tombstones = {} /\ listRevision = 1
    /\ tests = <<>> /\ connectionAudit = {} /\ now = 0
    /\ jobBindings = {} /\ executionBindings = {} /\ cleanupObligations = {}
    /\ calls = [c \in Clients |-> {}] /\ connectionListing = NoConnectionListing
    /\ executor = [e \in Executors |-> IdleExecutor] /\ crashes = 0

ClientStep(client, requests) ==
    /\ (\E q \in requests : Call(client, q)) \/ Commit(client) \/ Return(client)
    /\ UNCHANGED testerVars

ReaderStep ==
    /\ \E filter \in {<<0, "">>, <<0, "ACTIVE">>}, resume \in BOOLEAN : ListConnections(filter, resume)
    /\ UNCHANGED testerVars

ExecutorStep(e) ==
    \/ RunOnce(e) \/ Expire(e) \/ Claim(e) \/ Cancel(e)
    \/ \E w \in executor[e].work : Complete(e, w) \/ \E env \in Environments : ProbeReturns(e, w, env)

---------------------------------------------------------------------------
(* A request key has one effect and one audit event, however often and from *)
(* wherever the request is retried (Apply's idempotency row).               *)
OneEffectPerKey ==
    \A a, b \in connectionAudit : "scope" \in DOMAIN a /\ "scope" \in DOMAIN b /\ a.scope = b.scope => a = b

(* The generation a waiting or running test, a Job or an epoch refers to is *)
(* there, and so is its Connection: no delete overtakes them.  A test whose *)
(* generation is gone would fail every later ClaimTests.                    *)
NothingDangles ==
    LET Stored(uid) == \E n \in Names : connections[n].uid = uid
    IN  /\ \A op \in ActiveTests : Stored(tests[op].uid) /\ CapturedGeneration(op) # {}
        /\ \A b \in jobBindings : Stored(b.uid)
        /\ \A b \in executionBindings :
             Stored(b.uid) /\ \E g \in generations : g[1] = b.uid /\ g[2].number = b.generation

(* Whatever calls overlap, a committed change is the one its request asks   *)
(* for, made to the row it replaces: Enable and Disable keep the generation,*)
(* Rotate keeps everything but the locator, Update keeps the locator and    *)
(* the state, and it changes what an ACTIVE Connection connects with never  *)
(* (the version and generation checks of updateConnection, the transition   *)
(* rules of Replace, Rotate and SetState).  With it go OneEffectPerKey and  *)
(* NothingDangles, for retries and deletes among these calls.               *)
ChangesAreSerial ==
    [][OneEffectPerKey' /\ NothingDangles' /\ \A n \in Names :
        LET old == connections[n]
            new == connections'[n]
        IN  old # new /\ old.uid = new.uid =>
                /\ new.version = old.version + 1
                /\ \/ new = [old EXCEPT !.version = new.version, !.state = new.state]
                   \/ new = [old EXCEPT !.version = new.version,
                                        !.current = [@ EXCEPT !.number = @ + 1,
                                                              !.locator = new.current.locator]]
                   \/ new = [old EXCEPT !.version = new.version, !.display = new.display]
                   \/ /\ old.state = "DISABLED"
                      /\ new = [old EXCEPT !.version = new.version, !.display = new.display,
                                           !.current = [new.current EXCEPT
                                                            !.number = old.current.number + 1,
                                                            !.locator = old.current.locator]]
      ]_connectionVars

(* The pages a client received up to the last are the Connections of one    *)
(* moment, each once: any change between two pages aborts the listing (the  *)
(* list revision in ListConnections' page token).                           *)
ListingIsOneMoment ==
    [][connectionListing' # connectionListing /\ connectionListing'.token = {} =>
         LET filter == connectionListing'.filter
         IN  connectionListing'.seen = List(0, filter[1], filter[2], Cardinality(Names)).names
      ]_<<connectionListing, connections>>

(* A probe of this work succeeds only against a host none of whose          *)
(* addresses the policy the test was queued with denies, and with the       *)
(* credentials the captured generation names, whatever the network answers. *)
ProbeStaysInside(w) ==
    LET policy == tests[w.operation].policy
    IN  \A env \in Environments :
            probe(w.connector, w.generation, policy, env) = SuccessfulProbe =>
                /\ {f.field : f \in Range(w.generation.locator.fields)} \subseteq DOMAIN env.secret
                /\ \E s \in Range(w.generation.settings) : s.value.text \in DOMAIN env.dns /\
                     env.dns[s.value.text] \cap (HardDenied \cup ((Restricted \cup Protected) \ policy)) = {}

(* A result is recorded by the executor that holds the current attempt, and *)
(* is what its own probe measured: an executor whose lease has passed to    *)
(* another one records nothing (CompleteTest's executor and lease).  And    *)
(* the work an executor takes up is probed as the test was queued (see      *)
(* ProbeStaysInside).                                                       *)
ResultsAreFenced ==
    [][/\ \A e \in Executors : \A w \in executor'[e].work \ executor[e].work : ProbeStaysInside(w)
       /\ \A op \in DOMAIN tests :
             tests[op].state = "RUNNING" /\ tests'[op].state \in {"SUCCEEDED", "FAILED", "CANCELED"} =>
                \E e \in Executors : \E w \in executor[e].work :
                    /\ w \notin executor'[e].work
                    /\ w.operation = op /\ w.attempt = tests[op].attempt
                    /\ \E result \in w.result : tests'[op].state = result.state
      ]_<<connectionVars, testerVars>>

(* Every test that was accepted ends: its executor completes it, another    *)
(* one takes it over when the lease has passed, or its deadline passes.     *)
TestsEnd ==
    \A op \in 1 .. MaxOperation : op \in DOMAIN tests ~> (op \in DOMAIN tests /\ tests[op].state \notin TestActive)

===============================================================================
