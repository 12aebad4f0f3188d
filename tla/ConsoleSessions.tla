---------------------------- MODULE ConsoleSessions ----------------------------
(***************************************************************************)
(* Signing in to the Console and keeping the session: login transactions,  *)
(* session rows (auth/postgres/session_store.go), and the requests that    *)
(* use them (console/internal/authflow).  Every statement of the database  *)
(* and every answer of the identity provider is a step; requests for one   *)
(* session overlap, and the clock moves between any two steps.  A          *)
(* statement may be applied and its answer be lost.                        *)
(* A request is used once.  A token set is a number with the time it       *)
(* expires and the number of its refresh token, 0 for none.                *)
(***************************************************************************)
EXTENDS AccessStore

CONSTANTS
    Sessions,       \* session identifiers, drawn at random and never drawn twice
    Logins,         \* login transactions
    Requests,       \* HTTP requests of browsers
    IdleTTL, AbsoluteTTL, LoginTTL, RefreshWindow,
    TokenTTL,       \* life of an access token, set by the provider
    MaxTime,        \* bound: the clock
    MaxTokens       \* bound: token sets the provider issues

(* What the Console checks of its configuration before it serves.           *)
TimeBounds ==
    /\ {IdleTTL, AbsoluteTTL, LoginTTL, RefreshWindow, TokenTTL} \subseteq Nat \ {0}
    /\ IdleTTL <= AbsoluteTTL
ASSUME TimeBoundsHold == TimeBounds

VARIABLES
    now,        \* the clock
    logins,     \* logins[l]: "new", the time it expires, or "consumed"
    requests,   \* progress of every request
    issued,     \* token sets issued so far
    minted,     \* session identifiers drawn so far
    served      \* what requests were served with: session, revision and tokens

sessionVars == <<now, logins, requests, issued, minted, served>>

Earliest(a, b) == IF a < b THEN a ELSE b
NoTokens == [id |-> 0, expires |-> 0, refresh |-> 0]
NoRow == [principal |-> "none", tokens |-> NoTokens, revision |-> 0, idle |-> 0, absolute |-> 0]
Fresh == [kind |-> "none", phase |-> "new", login |-> "none", principal |-> "none", session |-> "none",
          record |-> NoRow, next |-> NoTokens, fallback |-> {}]

SessionsInit ==
    /\ now = 0 /\ issued = 0 /\ minted = {} /\ served = {}
    /\ logins = [l \in Logins |-> [phase |-> "new", expires |-> 0]]
    /\ requests = [r \in Requests |-> Fresh]

Tick == now < MaxTime /\ now' = now + 1 /\ UNCHANGED <<storeVars, logins, requests, issued, minted, served>>

Goes(r, phase) == requests' = [requests EXCEPT ![r].phase = phase]
Only(r, phase) == Goes(r, phase) /\ UNCHANGED <<storeVars, now, logins, issued, minted, served>>

---------------------------------------------------------------------------
(* The session table.                                                       *)
Alive(s) == {row \in sessions[s] : row.idle > now /\ row.absolute > now}

(* A new row lives no longer than a token set that cannot be refreshed.     *)
CreateConsoleSession(s, p, tokens) ==
    LET absolute == IF tokens.refresh = 0 THEN Earliest(now + AbsoluteTTL, tokens.expires) ELSE now + AbsoluteTTL
        row == [principal |-> p, tokens |-> tokens, revision |-> 1, idle |-> Earliest(now + IdleTTL, absolute), absolute |-> absolute]
    IN  row.idle > now /\ sessions' = [sessions EXCEPT ![s] = {row}]

(* A live row as it is after the statement that extends its idle time.      *)
ResolvedConsoleSession(s) == {[row EXCEPT !.idle = Earliest(row.absolute, now + IdleTTL)] : row \in Alive(s)}
ResolveConsoleSession(s) == sessions' = IF Alive(s) = {} THEN sessions ELSE [sessions EXCEPT ![s] = ResolvedConsoleSession(s)]

(* The rows a token update applies to: the revision the request read.       *)
UpdatableAnyRevision(s, p, revision) == {row \in sessions[s] : row.principal = p /\ row.absolute > now}
Updatable(s, p, revision) == {row \in sessions[s] : row.principal = p /\ row.revision = revision /\ row.absolute > now}
Updated(row, tokens) ==
    [row EXCEPT !.tokens = tokens, !.revision = @ + 1,
                !.absolute = IF tokens.refresh = 0 THEN Earliest(@, tokens.expires) ELSE @]

---------------------------------------------------------------------------
(* BeginLogin, and the callback of the browser that comes back.             *)
CreateLoginTransaction(l) == logins' = [logins EXCEPT ![l] = [phase |-> "begun", expires |-> now + LoginTTL]]
BeginLogin(l) ==
    /\ logins[l].phase = "new"
    /\ CreateLoginTransaction(l)
    /\ UNCHANGED <<storeVars, now, requests, issued, minted, served>>

(* The transaction is deleted by the statement that reads it.               *)
ConsumableTwice(l) == logins[l].phase \in {"begun", "consumed"} /\ logins[l].expires > now
Consumable(l) == logins[l].phase = "begun" /\ logins[l].expires > now
Callback(r, l) ==
    /\ requests[r].phase = "new" /\ logins[l].phase # "new"
    /\ requests' = [requests EXCEPT ![r] = [Fresh EXCEPT !.kind = "callback", !.login = l,
                                                         !.phase = IF Consumable(l) THEN "exchange" ELSE "refused"]]
    /\ logins' = IF Consumable(l) THEN [logins EXCEPT ![l].phase = "consumed"] ELSE logins
    /\ UNCHANGED <<storeVars, now, issued, minted, served>>

(* The provider answers for principal p, with or without a refresh token.   *)
Issue(r, refreshable, phase) ==
    /\ issued < MaxTokens
    /\ issued' = issued + 1
    /\ requests' = [requests EXCEPT ![r].next = [id |-> issued', expires |-> now + TokenTTL,
                                                 refresh |-> IF refreshable THEN issued' ELSE requests[r].record.tokens.refresh],
                                    ![r].phase = phase]
    /\ UNCHANGED <<storeVars, now, logins, minted, served>>
Exchange(r, refreshable) == requests[r].phase = "exchange" /\ Issue(r, refreshable, "principal")
ExchangeRefused(r) == requests[r].phase = "exchange" /\ Only(r, "refused")

ResolveOrCreatePrincipal(r, p) ==
    /\ requests[r].phase = "principal"
    /\ principals' = materialize(p)
    /\ requests' = [requests EXCEPT ![r].principal = p, ![r].phase = IF principals'[p] = "ACTIVE" THEN "create" ELSE "refused"]
    /\ UNCHANGED <<tenants, memberships, platformRoles, sessions, audit, now, logins, issued, minted, served>>

(* The row of a request that has no answer stays; nobody has its identifier. *)
Create(r, s, answered) ==
    /\ requests[r].phase = "create" /\ s \notin minted
    /\ minted' = minted \union {s}
    /\ CreateConsoleSession(s, requests[r].principal, requests[r].next)
    /\ requests' = IF answered THEN [requests EXCEPT ![r].session = s, ![r].phase = "record"]
                   ELSE [requests EXCEPT ![r].phase = "refused"]
    /\ UNCHANGED <<policyVars, audit, now, logins, issued, served>>
CreateFails(r) == requests[r].phase = "create" /\ Only(r, "refused")

(* The sign-in must be on record before the browser gets its cookie.        *)
WriteSecurityAudit(r, answered) ==
    /\ requests[r].phase = "record"
    /\ audit' = [audit EXCEPT !.signIns[requests[r].principal] = @ + 1]
    /\ Goes(r, IF answered THEN "enter" ELSE "undo")
    /\ UNCHANGED <<policyVars, sessions, now, logins, issued, minted, served>>
(* It cannot be recorded: the session is deleted, if that succeeds.         *)
WriteFails(r) == requests[r].phase = "record" /\ Only(r, "undo")
Undo(r) ==
    /\ requests[r].phase = "undo"
    /\ Goes(r, "refused")
    /\ \E lost \in BOOLEAN : sessions' = IF lost THEN sessions ELSE [sessions EXCEPT ![requests[r].session] = {}]
    /\ UNCHANGED <<policyVars, audit, now, logins, issued, minted, served>>

Serves(r, row) ==
    /\ requests' = [requests EXCEPT ![r].phase = IF @ = "enter" \/ requests[r].kind = "use" THEN "served" ELSE "delete",
                                    ![r].record = row, ![r].fallback = {}]
    /\ served' = served \union {[session |-> requests[r].session, revision |-> row.revision, tokens |-> row.tokens]}
Enter(r) ==
    /\ requests[r].phase = "enter"
    /\ ResolveConsoleSession(requests[r].session)
    /\ \/ \E row \in ResolvedConsoleSession(requests[r].session) : Serves(r, row)
       \/ ResolvedConsoleSession(requests[r].session) = {} /\ Goes(r, "refused") /\ UNCHANGED served
    /\ UNCHANGED <<policyVars, audit, now, logins, issued, minted>>

---------------------------------------------------------------------------
(* Manager.Resolve for a request that brings the cookie of a session.       *)
Cookies == {requests[r].session : r \in {q \in Requests : requests[q].kind = "callback" /\ requests[q].phase = "served"}}
Begin(r, s, kind) ==
    /\ requests[r].phase = "new" /\ s \in Cookies
    /\ requests' = [requests EXCEPT ![r] = [Fresh EXCEPT !.kind = kind, !.session = s, !.phase = "resolve"]]
    /\ UNCHANGED <<storeVars, now, logins, issued, minted, served>>

(* A failure is the request's, unless an earlier reading of the session was *)
(* still good when its early refresh began: that reading is served.         *)
Falls(r) ==
    \/ \E row \in requests[r].fallback : Serves(r, row)
    \/ requests[r].fallback = {} /\ Goes(r, "refused") /\ UNCHANGED served

Resolve(r) ==
    /\ requests[r].phase = "resolve"
    /\ ResolveConsoleSession(requests[r].session)
    /\ \/ \E row \in ResolvedConsoleSession(requests[r].session) :
             requests' = [requests EXCEPT ![r].record = row, ![r].principal = row.principal, ![r].phase = "check"] /\ UNCHANGED served
       \/ ResolvedConsoleSession(requests[r].session) = {} /\ Falls(r)
    /\ UNCHANGED <<policyVars, audit, now, logins, issued, minted>>

(* The principal is read again; then tokens that expired must, and tokens   *)
(* about to expire may, be refreshed.                                       *)
Check(r) ==
    LET record == requests[r].record
        expired == record.tokens.expires <= now
        early == record.tokens.refresh # 0 /\ record.tokens.expires <= now + RefreshWindow
    IN  /\ requests[r].phase = "check"
        /\ IF principals[record.principal] # "ACTIVE" \/ (expired /\ record.tokens.refresh = 0) THEN Falls(r)
           ELSE IF expired THEN Goes(r, "refresh") /\ UNCHANGED served
           ELSE IF early THEN requests' = [requests EXCEPT ![r].phase = "refresh", ![r].fallback = {record}] /\ UNCHANGED served
           ELSE Serves(r, record)
        /\ UNCHANGED <<storeVars, now, logins, issued, minted>>

(* The provider accepts the refresh token and may replace it.               *)
Refresh(r, rotated) == requests[r].phase = "refresh" /\ Issue(r, rotated, "update")
Unavailable(r) ==
    /\ requests[r].phase \in {"resolve", "check", "refresh", "update"}
    /\ Falls(r)
    /\ UNCHANGED <<storeVars, now, logins, issued, minted>>

(* The session was read, and the answer is lost.                            *)
Unanswered(r) ==
    /\ requests[r].phase \in {"enter", "resolve"}
    /\ ResolveConsoleSession(requests[r].session)
    /\ Falls(r)
    /\ UNCHANGED <<policyVars, audit, now, logins, issued, minted>>

(* Of two requests that refreshed the same reading one wins; the other      *)
(* reads the session again.  A request that does not learn that it won      *)
(* fails, or is served what it read before.                                 *)
UpdateOrInsert(r, answered) ==
    LET call == requests[r]
        base == IF sessions[call.session] = {} THEN {call.record} ELSE Updatable(call.session, call.principal, call.record.revision)
    IN  /\ call.phase = "update"
        /\ IF base = {} THEN Goes(r, "resolve") /\ UNCHANGED <<sessions, served>>
           ELSE /\ sessions' = [sessions EXCEPT ![call.session] = {Updated(row, call.next) : row \in base}]
                /\ IF answered THEN Serves(r, [call.record EXCEPT !.tokens = call.next, !.revision = @ + 1]) ELSE Falls(r)
        /\ UNCHANGED <<policyVars, audit, now, logins, issued, minted>>
Update(r, answered) ==
    LET call == requests[r]
        base == Updatable(call.session, call.principal, call.record.revision)
    IN  /\ call.phase = "update"
        /\ IF base = {} THEN Goes(r, "resolve") /\ UNCHANGED <<sessions, served>>
           ELSE /\ sessions' = [sessions EXCEPT ![call.session] = {Updated(row, call.next) : row \in base}]
                /\ IF answered THEN Serves(r, [call.record EXCEPT !.tokens = call.next, !.revision = @ + 1]) ELSE Falls(r)
        /\ UNCHANGED <<policyVars, audit, now, logins, issued, minted>>

(* Logout deletes the row, records the event, and reports either failure.   *)
Logout(r) ==
    /\ requests[r].phase = "delete"
    /\ \E deleted \in BOOLEAN, recorded \in BOOLEAN :
          /\ sessions' = IF deleted THEN [sessions EXCEPT ![requests[r].session] = {}] ELSE sessions
          /\ Goes(r, IF deleted /\ recorded THEN "signed out" ELSE "refused")
    /\ UNCHANGED <<policyVars, audit, now, logins, issued, minted, served>>

RequestStep(r) ==
    \/ \E l \in Logins : Callback(r, l)
    \/ \E refreshable \in BOOLEAN : Exchange(r, refreshable) \/ Refresh(r, refreshable)
    \/ \E p \in Principals : ResolveOrCreatePrincipal(r, p)
    \/ \E answered \in BOOLEAN : (\E s \in Sessions : Create(r, s, answered)) \/ WriteSecurityAudit(r, answered) \/ Update(r, answered)
    \/ \E s \in Sessions : Begin(r, s, "use") \/ Begin(r, s, "logout")
    \/ ExchangeRefused(r) \/ CreateFails(r) \/ WriteFails(r) \/ Undo(r) \/ Enter(r)
    \/ Resolve(r) \/ Check(r) \/ Unavailable(r) \/ Unanswered(r) \/ Logout(r)

(* Sessions from an empty database: browsers, the clock, and those who      *)
(* disable a principal or revoke its sessions.                              *)
SessionNext ==
    \/ Tick \/ (\E l \in Logins : BeginLogin(l)) \/ (\E r \in Requests : RequestStep(r))
    \/ /\ \E p \in Principals : \/ SetPrincipalStatus(p, "DISABLED") \/ RevokeSessionsForPrincipal(p)
                                \/ RevokeConsoleSessionsForPrincipal(p)
       /\ UNCHANGED sessionVars
SessionSpec ==
    /\ EmptyStore /\ sessions = [s \in Sessions |-> {}] /\ SessionsInit
    /\ [][SessionNext]_<<storeVars, sessionVars>>

---------------------------------------------------------------------------
(* A login transaction leads to one session at most, also when its callback *)
(* is sent twice, and every browser that holds a cookie of a principal is   *)
(* behind a recorded sign-in of that principal (authflow/manager.go,        *)
(* CompleteLogin).                                                          *)
SignInsAreAccounted ==
    LET callbacks == {r \in Requests : requests[r].kind = "callback" /\ requests[r].session # "none"}
    IN  /\ \A r, q \in callbacks : requests[r].login = requests[q].login => r = q
        /\ \A p \in Principals :
              Cardinality({r \in callbacks : requests[r].phase = "served" /\ requests[r].principal = p}) <= audit.signIns[p]

(* Two readings of a session at one revision show the same tokens: however  *)
(* many requests refresh it at once, one token set follows another and none *)
(* is lost under a revision somebody else saw                               *)
(* (session_store.go, UpdateConsoleSessionTokens).  A session whose logout  *)
(* was confirmed is gone for good: no refresh that was under way brings its *)
(* row back (authflow/manager.go, Logout and refresh).  And every session   *)
(* has one sign-in (see SignInsAreAccounted).                               *)
SessionsAreSerial ==
    /\ SignInsAreAccounted
    /\ \A r \in Requests : requests[r].phase = "signed out" => sessions[requests[r].session] = {}
    /\ \A one \in served : \A other \in served \union UNION {{[session |-> s, revision |-> row.revision, tokens |-> row.tokens] :
                                                            row \in sessions[s]} : s \in Sessions} :
        (one.session = other.session /\ one.revision = other.revision) => one.tokens = other.tokens

(* A refresh token is not used once its session is revoked, as the design   *)
(* of authentication says.                                                  *)
RefreshEndsWithSession ==
    [][\A r \in Requests : (requests[r].phase = "refresh" /\ requests'[r].phase = "update")
                              => sessions[requests[r].session] # {}]_<<storeVars, sessionVars>>
================================================================================
