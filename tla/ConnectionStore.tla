---------------------------- MODULE ConnectionStore ----------------------------
(***************************************************************************)
(* Connections of one tenant and the tables that hold them: identities,    *)
(* immutable generations, the idempotency rows of mutations, tests, and    *)
(* what Jobs and executions refer to.  A transaction is one step: they are *)
(* serializable, and a failed one leaves nothing behind.                   *)
(*                                                                         *)
(* An optional value is a set of at most one.  Names of Connections and    *)
(* connectors, and the keys of settings and secret fields, are positive    *)
(* numbers in the order of the strings.                                    *)
(***************************************************************************)
EXTENDS Orderings

CONSTANTS
    Names,                \* the names of Connections
    Displays,             \* display names and descriptions within their bounds
    SecretNames,          \* DNS labels
    MaximumSettings,
    MaximumTenantActiveTests, MaximumActorActiveTests,
    MaximumConnectionActiveTest, MaximumTenantDailyTests,
    Day                   \* 24 hours, in ticks of the clock

VARIABLES
    connections,          \* by name: the row joined with its generation, or NoConnection
    generations,          \* <<uid, generation>> rows
    idempotency,          \* completed idempotency rows
    tombstones,           \* deleted identities
    listRevision,         \* astrasync_connection_list_revisions
    tests,                \* by operation: its row
    jobBindings,          \* <<job, role, uid>>, while the Job exists
    executionBindings,    \* one per role of every started epoch, never removed
    cleanupObligations,   \* Secrets still to be deleted
    connectionAudit,      \* audit events, by their ids
    now                   \* the clock

connectionVars == <<connections, generations, idempotency, tombstones, listRevision, tests,
                    jobBindings, executionBindings, cleanupObligations, connectionAudit, now>>

---------------------------------------------------------------------------
(* The domain object.                                                       *)

NoLocator == [provider |-> "", secret |-> "", fields |-> <<>>]
NoGeneration == [number |-> 0, descriptor |-> 0, schema |-> 0, settings |-> <<>>,
                 locator |-> NoLocator]
NoConnection == [uid |-> 0, name |-> 0, connector |-> 0, version |-> 0, state |-> "",
                 display |-> "", current |-> NoGeneration]

Ordered(s, field) == \A i, j \in DOMAIN s : i < j => s[i][field] < s[j][field]

LocatorValid(l) ==
    /\ l.provider = "KUBERNETES_SECRET_V1" /\ l.secret \in SecretNames
    /\ l.fields # <<>> /\ Ordered(l.fields, "field")
    /\ \A f \in Range(l.fields) : f.key # ""

GenerationValid(g) ==
    /\ g.number > 0 /\ 0 \notin {g.descriptor, g.schema}
    /\ Len(g.settings) <= MaximumSettings /\ Ordered(g.settings, "key")
    /\ \A s \in Range(g.settings) : s.sensitivity \in {"PUBLIC", "RESTRICTED"}
    /\ g.locator.provider # "" => LocatorValid(g.locator)

ConnectionValid(c) ==
    /\ c.name \in Names /\ c.display \in Displays
    /\ c.version > 0 /\ c.state \in {"DISABLED", "ACTIVE"}
    /\ GenerationValid(c.current)

New(name, uid, connector, display, generation) ==
    [uid |-> uid, name |-> name, connector |-> connector, version |-> 1,
     state |-> "DISABLED", display |-> display, current |-> generation]

(* The next Connection, when the transition is allowed; the same one when   *)
(* nothing would change.                                                    *)
Replace(c, display, settings, descriptor, schema) ==
    LET effective == <<settings, descriptor, schema>>
                        # <<c.current.settings, c.current.descriptor, c.current.schema>>
        generation == [c.current EXCEPT !.number = @ + 1, !.descriptor = descriptor,
                                        !.schema = schema, !.settings = settings]
    IN  IF ~effective /\ display = c.display THEN {c}
        ELSE {n \in {[c EXCEPT !.display = display, !.version = @ + 1,
                               !.current = IF effective THEN generation ELSE @]} :
                (effective => c.state = "DISABLED") /\ ConnectionValid(n)}

Rotate(c, locator) ==
    {n \in {[c EXCEPT !.version = @ + 1, !.current.number = @ + 1, !.current.locator = locator]} :
        LocatorValid(locator) /\ locator # c.current.locator /\ ConnectionValid(n)}

SetState(c, target, compatibility) ==
    IF c.state = target THEN {c}
    ELSE {n \in {[c EXCEPT !.state = target, !.version = @ + 1]} :
            target = "ACTIVE" => compatibility = "COMPATIBLE"}

---------------------------------------------------------------------------
(* Tests.                                                                   *)

TestActive == {"QUEUED", "RUNNING"}
TestTerminal == {"SUCCEEDED", "FAILED", "TIMED_OUT", "CANCELED"}
RunningPhases == {"POLICY", "DNS", "TRANSPORT", "TLS", "AUTHENTICATION", "HANDSHAKE"}

CompletionValid(c) ==
    /\ c.state \in TestTerminal
    /\ c.phase \in RunningPhases \cup {"COMPLETE"}
    /\ c.state = "SUCCEEDED" <=> c.result = "OK"
    /\ c.state = "SUCCEEDED" => c.phase = "COMPLETE"
    /\ c.state = "TIMED_OUT" => c.result = "DEADLINE_EXCEEDED"

TestValid(t) ==
    /\ t.generation > 0 /\ t.deadline > t.created /\ t.expires > t.deadline
    /\ \/ t.state = "QUEUED" /\ t.phase = "" /\ t.result = ""
       \/ t.state = "RUNNING" /\ t.phase \in RunningPhases /\ t.result = ""
       \/ t.state \in TestTerminal /\ CompletionValid(t)
       \/ t.state = "EXPIRED" /\ t.phase = "" /\ t.result = ""

ActiveTests == {op \in DOMAIN tests : tests[op].state \in TestActive}

(* referenceCountsTx: a Connection something still refers to.               *)
Referenced(uid) ==
    \/ \E b \in jobBindings \cup executionBindings : b.uid = uid
    \/ \E op \in ActiveTests : tests[op].uid = uid
    \/ \E o \in cleanupObligations : o.uid = uid /\ o.state = "PENDING"

(* What makes the DELETE itself fail: the foreign keys ON DELETE RESTRICT   *)
(* of rows referenceCountsTx does not count, finished tests and completed   *)
(* obligations.                                                             *)
DeleteRestricted(uid) ==
    \/ \E op \in DOMAIN tests : tests[op].uid = uid
    \/ \E o \in cleanupObligations : o.uid = uid

---------------------------------------------------------------------------
(* Apply.  A mutation carries its scope (actor, method and key) and the     *)
(* digest of its request.                                                   *)

(* A mistake the properties must notice: only a reused key is looked for.   *)
readIdempotencyConflicts(m) == {row \in idempotency : row.scope = m.scope /\ row.digest # m.digest}
readIdempotency(m) == {row \in idempotency : row.scope = m.scope}

insertIdempotency(m, result) ==
    idempotency' = idempotency \cup {[scope |-> m.scope, digest |-> m.digest, result |-> result]}

(* Rows of generations are inserted and never updated.                      *)
insertGeneration(c) == generations' = generations \cup {<<c.uid, c.current>>}

(* A mistake the properties must notice: only a creation bumps the list     *)
(* revision.                                                                *)
RecordedSilently(m, outcome, result) ==
    /\ insertIdempotency(m, result)
    /\ connectionAudit' = connectionAudit \cup
            {[event |-> m.kind, scope |-> m.scope, outcome |-> outcome, result |-> result]}
    /\ listRevision' = IF m.kind = "CREATE" THEN listRevision + 1 ELSE listRevision

(* The rest of the transaction once applyMutation has produced `result`.    *)
Recorded(m, outcome, result) ==
    /\ insertIdempotency(m, result)
    /\ connectionAudit' = connectionAudit \cup
            {[event |-> m.kind, scope |-> m.scope, outcome |-> outcome, result |-> result]}
    /\ listRevision' = IF outcome = "CHANGED" THEN listRevision + 1 ELSE listRevision

Result(subject, version) == [subject |-> subject, version |-> version]

createConnection(m) ==
    \E c \in m.candidate :
        /\ connections[m.name] = NoConnection /\ ConnectionValid(c)
        /\ connections' = [connections EXCEPT ![m.name] = c]
        /\ insertGeneration(c)
        /\ Recorded(m, "CHANGED", Result(c.uid, c.version))
        /\ UNCHANGED <<tests, tombstones>>

(* A mistake the properties must notice: the candidate is stored whatever   *)
(* its version.                                                             *)
updateConnectionOverwrites(m) ==
    LET current == connections[m.name]
    IN  \E c \in m.candidate :
        /\ current # NoConnection /\ current.version = m.expected
        /\ <<c.uid, c.connector>> = <<current.uid, current.connector>>
        /\ c.version - current.version \in {0, 1}
        /\ connections' = [connections EXCEPT ![m.name] = c]
        /\ insertGeneration(c)
        /\ Recorded(m, "CHANGED", Result(c.uid, c.version))
        /\ UNCHANGED <<tests, tombstones>>

(* The version read and the version after a candidate are the only ones it  *)
(* may carry; one that carries the stored version changes nothing.          *)
updateConnection(m) ==
    LET current == connections[m.name]
    IN  \E c \in m.candidate :
        /\ current # NoConnection /\ current.version = m.expected
        /\ <<c.uid, c.connector>> = <<current.uid, current.connector>>
        /\ c.version - current.version \in {0, 1}
        /\ c.current.number - current.current.number \in {0, 1}
        /\ ConnectionValid(c)
        /\ \/ /\ c.version = current.version
              /\ Recorded(m, "NO_CHANGE", Result(c.uid, c.version))
              /\ UNCHANGED <<connections, generations>>
           \/ /\ c.version = current.version + 1
              /\ connections' = [connections EXCEPT ![m.name] = c]
              /\ insertGeneration(c)
              /\ Recorded(m, "CHANGED", Result(c.uid, c.version))
        /\ UNCHANGED <<tests, tombstones>>

(* A mistake the properties must notice: references are not counted.        *)
DeleteAcceptedUnreferenced(name, expected) ==
    LET current == connections[name]
    IN  current # NoConnection /\ current.version = expected /\ current.state = "DISABLED"

DeleteAccepted(name, expected) ==
    LET current == connections[name]
    IN  /\ current # NoConnection /\ current.version = expected
        /\ current.state = "DISABLED" /\ ~Referenced(current.uid)
        /\ ~DeleteRestricted(current.uid)

(* The generations go with the Connection (ON DELETE CASCADE).              *)
deleteConnection(m) ==
    LET uid == connections[m.name].uid
    IN  /\ DeleteAccepted(m.name, m.expected)
        /\ connections' = [connections EXCEPT ![m.name] = NoConnection]
        /\ generations' = {g \in generations : g[1] # uid}
        /\ tombstones' = tombstones \cup {uid}
        /\ Recorded(m, "CHANGED", Result(uid, m.expected))
        /\ UNCHANGED tests

TestAdmitted(t) ==
    LET active(P(_)) == Cardinality({op \in ActiveTests : P(tests[op])})
    IN  /\ active(LAMBDA other : TRUE) < MaximumTenantActiveTests
        /\ active(LAMBDA other : other.actor = t.actor) < MaximumActorActiveTests
        /\ active(LAMBDA other : other.uid = t.uid) < MaximumConnectionActiveTest
        /\ Cardinality({op \in DOMAIN tests : tests[op].created >= t.created - Day})
                < MaximumTenantDailyTests

createConnectionTest(m) ==
    LET current == connections[m.name]
    IN  \E t \in m.test :
        /\ current # NoConnection /\ current.version = m.expected
        /\ TestValid(t) /\ t.uid = current.uid /\ t.generation = current.current.number
        /\ t.actor = m.scope.actor
        /\ TestAdmitted(t)
        /\ tests' = [op \in DOMAIN tests \cup {t.operation} |->
                        IF op = t.operation THEN t ELSE tests[op]]
        /\ Recorded(m, "CHANGED", Result(t.operation, t.generation))
        /\ UNCHANGED <<connections, generations, tombstones>>

applyMutation(m) ==
    \/ m.kind = "CREATE" /\ createConnection(m)
    \/ m.kind \in {"UPDATE", "ROTATE", "ENABLE", "DISABLE"} /\ updateConnection(m)
    \/ m.kind = "DELETE" /\ deleteConnection(m)
    \/ m.kind = "TEST" /\ createConnectionTest(m)

(* A row for the scope answers instead of the mutation, or refuses a key    *)
(* used for another request.                                                *)
Apply(m) ==
    /\ readIdempotency(m) = {}
    /\ applyMutation(m)
    /\ UNCHANGED <<jobBindings, executionBindings, cleanupObligations, now>>

---------------------------------------------------------------------------
(* The page of Connections after a position, in the order of their names.   *)
List(after, connector, state, limit) ==
    LET rows == {n \in Names : /\ connections[n] # NoConnection /\ n > after
                               /\ connector \in {0, connections[n].connector}
                               /\ state \in {"", connections[n].state}}
        sorted == Ascending(rows)
    IN  [names |-> SubSeq(sorted, 1, IF Len(sorted) < limit THEN Len(sorted) ELSE limit),
         hasMore |-> Len(sorted) > limit, revision |-> listRevision]

---------------------------------------------------------------------------
(* Tests after their request.                                               *)

TimedOut(t) == [t EXCEPT !.state = "TIMED_OUT", !.result = "DEADLINE_EXCEEDED",
                         !.phase = IF @ = "" THEN "POLICY" ELSE @, !.executor = {}, !.lease = 0]
Expired(t) == [t EXCEPT !.state = "EXPIRED", !.result = "", !.phase = "", !.executor = {}, !.lease = 0]

Overdue(t) == {op \in ActiveTests : tests[op].deadline <= t /\ tests[op].expires > t}
Stale(t) == {op \in DOMAIN tests : tests[op].expires <= t /\ tests[op].state # "EXPIRED"}

(* writeTestTransitionAudits: the operation is in the id of its event.      *)
TransitionAudits(t) ==
    {[event |-> "timeout", operation |-> op] : op \in Overdue(t)}
        \cup {[event |-> "expire", operation |-> op] : op \in Stale(t)}

(* A mistake the properties must notice: only queued tests time out.        *)
ReconciledQueued(t) ==
    [op \in DOMAIN tests |-> IF op \in Overdue(t) /\ tests[op].state = "QUEUED" THEN TimedOut(tests[op])
                             ELSE tests[op]]

(* expireTestsTx.  The ids of the audit events are a primary key: a second  *)
(* event for one transition would fail the transaction.                     *)
Reconciled(t) ==
    [op \in DOMAIN tests |-> CASE op \in Overdue(t) -> TimedOut(tests[op])
                               [] op \in Stale(t) -> Expired(tests[op])
                               [] OTHER -> tests[op]]

AuditsAreNew(t) == TransitionAudits(t) \cap connectionAudit = {}

ExpireTests(t) ==
    /\ AuditsAreNew(t)
    /\ tests' = Reconciled(t)
    /\ connectionAudit' = connectionAudit \cup TransitionAudits(t)
    /\ UNCHANGED <<connections, generations, idempotency, tombstones, listRevision, jobBindings,
                   executionBindings, cleanupObligations, now>>

Claimable(test, t) ==
    /\ test.expires > t /\ test.deadline > t
    /\ test.state = "QUEUED" \/ (test.state = "RUNNING" /\ test.lease <= t)

(* Operations are numbered in the order they were created.                  *)
Candidates(limit, t) ==
    LET free == {op \in DOMAIN tests : Claimable(Reconciled(t)[op], t)}
    IN  {op \in free : Cardinality({other \in free : other < op}) < limit}

CapturedGeneration(op) ==
    {g \in generations : g[1] = tests[op].uid /\ g[2].number = tests[op].generation}

(* A captured generation that is gone fails the whole claim.                *)
ClaimTests(executor, limit, lease, t) ==
    LET claimed == Candidates(limit, t)
    IN  /\ AuditsAreNew(t)
        /\ \A op \in claimed : CapturedGeneration(op) # {}
        /\ tests' = [op \in DOMAIN tests |->
                        IF op \notin claimed THEN Reconciled(t)[op]
                        ELSE [tests[op] EXCEPT !.state = "RUNNING", !.phase = "POLICY", !.result = "",
                                               !.executor = {executor}, !.lease = t + lease,
                                               !.attempt = @ + 1]]
        /\ connectionAudit' = connectionAudit \cup TransitionAudits(t)
        /\ UNCHANGED <<connections, generations, idempotency, tombstones, listRevision, jobBindings,
                       executionBindings, cleanupObligations, now>>

(* A mistake the properties must notice: the lease may be any executor's.   *)
HoldsAnyLease(op, executor) ==
    tests[op].state = "RUNNING" /\ tests[op].executor # {} /\ tests[op].deadline > now

HoldsLease(op, executor) ==
    LET t == tests[op]
    IN  t.state = "RUNNING" /\ t.executor = {executor} /\ t.lease > now /\ t.deadline > now

CompleteTest(op, executor, c) ==
    /\ CompletionValid(c) /\ HoldsLease(op, executor)
    /\ [event |-> "complete", operation |-> op] \notin connectionAudit
    /\ tests' = [tests EXCEPT ![op] = [@ EXCEPT !.state = c.state, !.phase = c.phase,
                                              !.result = c.result, !.executor = {}, !.lease = 0]]
    /\ connectionAudit' = connectionAudit \cup {[event |-> "complete", operation |-> op]}
    /\ UNCHANGED <<connections, generations, idempotency, tombstones, listRevision, jobBindings,
                   executionBindings, cleanupObligations, now>>

===============================================================================
