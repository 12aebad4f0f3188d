-------------------------- MODULE SessionCatalogProofs --------------------------
(***************************************************************************)
(* Console sessions, for any number of logins, requests, sessions and      *)
(* principals and failures anywhere.                                       *)
(*                                                                         *)
(* The connector catalogue, for any servers, inventories and clients: its  *)
(* invariant relates what a client has received of a listing, and the      *)
(* token it holds, to the inventory that was active when it began.         *)
(***************************************************************************)
EXTENDS ConsoleSessions, ConnectorCatalog, FiniteSetTheorems, TLAPS

(* No leaf depends on how busy the machine is: each prover may take longer  *)
(* than its default of a few seconds.                                       *)
USE SMTT(30), ZenonT(30)

(* What the store, the tokens and the requests are made of.                 *)
Audits == [changes : [Tenants -> Nat], platform : Nat, signIns : [Principals -> Nat]]
Tokens == [id : Nat, expires : Nat, refresh : Nat]
SessionRows == [principal : Principals \union {"none"}, tokens : Tokens, revision : Nat, idle : Nat, absolute : Nat]
SigningIn == {"exchange", "principal", "create", "record", "undo", "enter"}
Using == {"resolve", "check", "refresh", "update", "delete", "signed out"}
RequestSet ==
    [kind : {"none", "callback", "use", "logout"}, phase : {"new", "refused", "served"} \union SigningIn \union Using,
     login : Logins \union {"none"}, principal : Principals \union {"none"}, session : Sessions \union {"none"},
     record : SessionRows, next : Tokens, fallback : SUBSET SessionRows]

(* A callback that consumed its login transaction.                          *)
Consumer(q) == q.kind = "callback" /\ (q.phase \in SigningIn \union {"served"} \/ q.session # "none")
(* What each request may rely on.                                           *)
RequestHolds(q, begun, drawn, table) ==
    /\ q.phase \in SigningIn => q.kind = "callback" /\ q.fallback = {}
    /\ q.phase \in Using => q.kind \in {"use", "logout"}
    /\ q.phase = "new" => ~Consumer(q) /\ q.kind = "none"
    /\ Consumer(q) => q.login \in Logins /\ begun[q.login].phase = "consumed"
    /\ q.phase \in Using \union {"record", "undo", "enter", "served"} => q.session \in drawn
    /\ q.phase \in {"create", "record", "enter"} => q.principal \in Principals
    /\ q.phase = "signed out" => table[q.session] = {}

(* Readings of sessions that were served or may still be: a request holds   *)
(* the row it read until it is done, and its fallback.                      *)
Reading(s, row) == [session |-> s, revision |-> row.revision, tokens |-> row.tokens]
Held(q) == q.fallback \union (IF q.phase \in {"check", "refresh", "update"} THEN {q.record} ELSE {})
Readings(all, given) == given \union UNION {{Reading(all[r].session, row) : row \in Held(all[r])} : r \in Requests}
(* Readings of one revision agree with each other and with the row, no      *)
(* reading is ahead of it, and no row exists before its identifier.         *)
Coherent(readings, table, drawn) ==
    /\ \A x, y \in readings : x.session = y.session /\ x.revision = y.revision => x.tokens = y.tokens
    /\ \A x \in readings : /\ x.session \in drawn
                           /\ \A row \in table[x.session] : x.revision <= row.revision /\ (x.revision = row.revision => x.tokens = row.tokens)
    /\ \A s \in Sessions : \A a, b \in table[s] : a = b
    /\ \A s \in Sessions : s \notin drawn => table[s] = {}

(* Whoever was let in is on record.                                         *)
Entering(q, p) == q.kind = "callback" /\ q.phase \in {"enter", "served"} /\ q.principal = p
Counted(all, log) ==
    \A p \in Principals :
        LET entered == {r \in Requests : Entering(all[r], p)}
        IN  IsFiniteSet(entered) /\ Cardinality(entered) <= log.signIns[p]

Typed ==
    /\ now \in Nat /\ issued \in Nat /\ minted \subseteq Sessions /\ audit \in Audits
    /\ logins \in [Logins -> [phase : {"new", "begun", "consumed"}, expires : Nat]] /\ requests \in [Requests -> RequestSet]
    /\ served \subseteq [session : Sessions, revision : Nat, tokens : Tokens] /\ sessions \in [Sessions -> SUBSET SessionRows]
SerialInv ==
    /\ Typed
    /\ \A r \in Requests : RequestHolds(requests[r], logins, minted, sessions)
    /\ \A r, q \in Requests : Consumer(requests[r]) /\ Consumer(requests[q]) /\ requests[r].login = requests[q].login => r = q
    /\ Coherent(Readings(requests, served), sessions, minted)
    /\ Counted(requests, audit)

(* What is left of a reading's row, and of no other, may stay in the table. *)
Stems(table, old) ==
    \A s \in Sessions : \A row \in table[s] : \E was \in old[s] : row.revision = was.revision /\ row.tokens = was.tokens
OneRow(table) == \A s \in Sessions : \A a, b \in table[s] : a = b

(* A time or a revision that grew is a natural number.                      *)
LEMMA LaterIsNat == ASSUME NEW a \in Nat, NEW b \in Nat PROVE a + b \in Nat
  OBVIOUS
(* The first revision is a natural number.                                  *)
LEMMA OneIsNat == 1 \in Nat
  OBVIOUS
(* So is the earlier of two times.                                          *)
LEMMA EarliestIsNat == ASSUME NEW a \in Nat, NEW b \in Nat PROVE Earliest(a, b) \in Nat
  BY DEF Earliest
(* What is at most one number is at most a greater one.                     *)
LEMMA AtMostGoesOn == ASSUME NEW a \in Nat, NEW b \in Nat, NEW c \in Nat, a <= b, b <= c PROVE a <= c
  OBVIOUS
(* Nothing is at most nothing.                                              *)
LEMMA NothingAtMost == 0 <= 0
  OBVIOUS
(* A listing has a number of entries, and its positions are finitely many.  *)
LEMMA LengthIsNat == ASSUME NEW S, NEW s \in Seq(S) PROVE Len(s) \in Nat /\ DOMAIN s = 1 .. Len(s) /\ IsFiniteSet(DOMAIN s)
  BY FS_Interval
(* A function of the positions up to n is a listing of n entries.           *)
LEMMA PositionsMakeAListing ==
  ASSUME NEW n \in Nat, NEW f, f = [k \in 1 .. n |-> f[k]]
  PROVE  Len(f) = n /\ DOMAIN f = 1 .. n /\ f \in Seq({f[k] : k \in DOMAIN f})
<1>1. DOMAIN f = 1 .. n
  BY Zenon
<1> DEFINE S == {f[k] : k \in DOMAIN f}
<1>2. f \in [1 .. n -> S]
  BY Zenon, <1>1
<1> HIDE DEF S
<1>3. Len(f) = n /\ f \in Seq(S)
  BY <1>2
<1> QED
  BY Zenon, <1>1, <1>3 DEF S
(* A page ends after its size, or with what there is to list.               *)
LEMMA PageEnds ==
  ASSUME NEW cursor \in Nat, NEW all \in Nat, cursor <= all
  PROVE  LET e == IF cursor + CatalogPage < all THEN cursor + CatalogPage ELSE all
         IN  e \in Nat /\ cursor <= e /\ e <= all
  BY CatalogAssumption
(* A listing that did not begin has no page token.                          *)
LEMMA NoTokenYet == NoListing.token = {}
  BY DEF NoListing
(* Nor has it listed an inventory.                                          *)
LEMMA NothingListed == NoListing.of = {}
  BY DEF NoListing

(* Rows that only lose or keep their revisions leave readings coherent, and *)
(* so does a reading of a row.                                              *)
LEMMA CoherentStays ==
  ASSUME NEW old, NEW new, NEW table, NEW table2, NEW drawn, NEW drawn2,
         drawn \subseteq Sessions, drawn \subseteq drawn2, Coherent(old, table, drawn), Stems(table2, table), OneRow(table2),
         \A s \in Sessions : table[s] \in SUBSET SessionRows,
         \A x \in new : x \in old \/ \E s \in drawn : \E row \in table[s] : x = Reading(s, row)
  PROVE  Coherent(new, table2, drawn2)
<1> DEFINE From(x) == \E s \in drawn : \E row \in table[s] : x = Reading(s, row)
<1>1. ASSUME NEW x, From(x)
      PROVE  /\ x.session \in drawn /\ x.session \in Sessions
             /\ \E row \in table[x.session] : x.revision = row.revision /\ x.tokens = row.tokens
  <2>0. PICK s \in drawn : \E row \in table[s] : x = Reading(s, row)
    BY <1>1
  <2>1. PICK row \in table[s] : x = Reading(s, row)
    BY <2>0
  <2>2. x.session = s /\ x.revision = row.revision /\ x.tokens = row.tokens
    BY <2>1 DEF Reading
  <2> QED
    BY <2>1, <2>2
<1> HIDE DEF From
<1>2. ASSUME NEW x \in new
      PROVE  /\ x.session \in drawn /\ x.session \in Sessions
             /\ \A row \in table[x.session] : x.revision <= row.revision /\ (x.revision = row.revision => x.tokens = row.tokens)
  <2>1. CASE x \in old
    BY <2>1 DEF Coherent
  <2>2. CASE From(x)
    <3>1. PICK row \in table[x.session] : x.revision = row.revision /\ x.tokens = row.tokens
      BY <1>1, <2>2
    <3>2. \A other \in table[x.session] : other = row
      BY <1>1, <2>2, <3>1 DEF Coherent
    <3>3. row.revision \in Nat
      BY <1>1, <2>2, <3>1 DEF SessionRows
    <3> QED
      BY <1>1, <2>2, <3>1, <3>2, <3>3
  <2> QED
    BY <2>1, <2>2 DEF From
<1>3. ASSUME NEW x \in new, NEW y \in new, x.session = y.session, x.revision = y.revision PROVE x.tokens = y.tokens
  <2>1. CASE x \in old /\ y \in old
    BY <1>3, <2>1 DEF Coherent
  <2>2. CASE From(x)
    <3>1. PICK row \in table[x.session] : x.revision = row.revision /\ x.tokens = row.tokens
      BY <1>1, <2>2
    <3> QED
      BY Zenon, <1>2, <1>3, <3>1
  <2>3. CASE From(y)
    <3>1. PICK row \in table[y.session] : y.revision = row.revision /\ y.tokens = row.tokens
      BY <1>1, <2>3
    <3> QED
      BY <1>2, <1>3, <3>1
  <2> QED
    BY <2>1, <2>2, <2>3 DEF From
<1>4. ASSUME NEW x \in new, NEW row \in table2[x.session]
      PROVE  x.revision <= row.revision /\ (x.revision = row.revision => x.tokens = row.tokens)
  <2>1. PICK was \in table[x.session] : row.revision = was.revision /\ row.tokens = was.tokens
    BY <1>2, <1>4 DEF Stems
  <2> QED
    BY <1>2, <2>1
<1>5. \A s \in Sessions : s \notin drawn2 => table2[s] = {}
  BY DEF Coherent, Stems
<1> QED
  BY <1>2, <1>3, <1>4, <1>5 DEF Coherent, OneRow

(* Fewer readings are as coherent.                                          *)
LEMMA CoherentSubset ==
  ASSUME NEW old, NEW new, NEW table, NEW drawn, Coherent(old, table, drawn), \A x \in new : x \in old
  PROVE  Coherent(new, table, drawn)
BY DEF Coherent

(* What the readings are when one request moves.                            *)
LEMMA ReadingsMove ==
  ASSUME NEW all, NEW next, NEW r \in Requests, \A q \in Requests : q # r => next[q] = all[q], NEW given, NEW given2, NEW Fit,
         Readings(all, given) \subseteq Fit, given2 \subseteq Fit, \A row \in Held(next[r]) : Reading(next[r].session, row) \in Fit
  PROVE  Readings(next, given2) \subseteq Fit
<1>2. ASSUME NEW q \in Requests, NEW row \in Held(next[q]) PROVE Reading(next[q].session, row) \in Fit
  <2>1. CASE q = r
    BY <2>1
  <2>2. CASE q # r
    <3>1. Reading(all[q].session, row) \in Readings(all, given)
      BY <2>2 DEF Readings
    <3> QED
      BY <2>2, <3>1
  <2> QED
    BY <2>1, <2>2
<1> QED
  BY <1>2 DEF Readings

(* Every reading there is or that a statement could take now.               *)
Fitting == Readings(requests, served) \union UNION {{Reading(s, row) : row \in sessions[s]} : s \in minted}

(* A reading a request holds is one of the readings.                        *)
LEMMA HeldIsRead ==
  ASSUME NEW r \in Requests, NEW row \in Held(requests[r])
  PROVE  Reading(requests[r].session, row) \in Fitting
BY DEF Readings, Fitting

(* Nobody new is let in, and no sign-in is forgotten.                       *)
LEMMA CountStays ==
  ASSUME NEW all, NEW next, NEW r \in Requests, \A q \in Requests : q # r => next[q] = all[q], NEW log, NEW log2,
         \A p \in Principals : Entering(next[r], p) => Entering(all[r], p), log2.signIns = log.signIns, Counted(all, log),
         \A p \in Principals : log.signIns[p] \in Nat
  PROVE  Counted(next, log2)
<1> DEFINE Old(p) == {q \in Requests : Entering(all[q], p)}
           New(p) == {q \in Requests : Entering(next[q], p)}
<1>2. ASSUME NEW p \in Principals PROVE IsFiniteSet(New(p)) /\ Cardinality(New(p)) <= log2.signIns[p]
  <2>1. IsFiniteSet(Old(p)) /\ Cardinality(Old(p)) <= log.signIns[p]
    BY DEF Counted
  <2>2. New(p) \subseteq Old(p)
    OBVIOUS
  <2> HIDE DEF Old, New
  <2>3. IsFiniteSet(New(p)) /\ Cardinality(New(p)) <= Cardinality(Old(p)) /\ Cardinality(New(p)) \in Nat /\ Cardinality(Old(p)) \in Nat
    BY <2>1, <2>2, FS_Subset, FS_CardinalityType
  <2> QED
    BY <2>1, <2>3
<1> QED
  BY <1>2 DEF Counted

(* It is enough to look at the request a step moves.                        *)
LEMMA RequestMoves ==
  ASSUME SerialInv, Typed', NEW r \in Requests, NEW n, requests' = [requests EXCEPT ![r] = n], minted \subseteq minted',
         \A l \in Logins : logins[l].phase = "consumed" => logins'[l].phase = "consumed",
         \A s \in minted : sessions[s] = {} => sessions'[s] = {}, RequestHolds(n, logins', minted', sessions'),
         Consumer(n) => (Consumer(requests[r]) /\ n.login = requests[r].login) \/ logins[n.login].phase # "consumed",
         Coherent(Readings(requests', served'), sessions', minted'), Counted(requests', audit')
  PROVE  SerialInv'
<1>1. requests \in [Requests -> RequestSet]
  BY DEF SerialInv, Typed
<1>2. requests'[r] = n /\ \A q \in Requests : q # r => requests'[q] = requests[q]
  BY <1>1
<1>3. ASSUME NEW q \in Requests, q # r PROVE RequestHolds(requests'[q], logins', minted', sessions')
  <2>1. RequestHolds(requests[q], logins, minted, sessions)
    BY DEF SerialInv
  <2> QED
    BY Zenon, <1>2, <1>3, <2>1 DEF RequestHolds, Using
<1>4. ASSUME NEW q \in Requests, q # r, Consumer(requests'[q]), Consumer(n) PROVE requests'[q].login # n.login
  <2>1. Consumer(requests[q]) /\ requests'[q] = requests[q]
    BY <1>2, <1>4
  <2>2. logins[requests[q].login].phase = "consumed"
    BY Zenon, <2>1 DEF SerialInv, RequestHolds
  <2> QED
    BY <1>4, <2>1, <2>2 DEF SerialInv
<1>5. ASSUME NEW p \in Requests, NEW q \in Requests, Consumer(requests'[p]), Consumer(requests'[q]), requests'[p].login = requests'[q].login
      PROVE  p = q
  <2>1. CASE p = r \/ q = r
    BY Zenon, <1>2, <1>4, <1>5, <2>1
  <2>2. CASE p # r /\ q # r
    BY <1>2, <1>5, <2>2 DEF SerialInv
  <2> QED
    BY <2>1, <2>2
<1>6. \A q \in Requests : RequestHolds(requests'[q], logins', minted', sessions')
  BY <1>2, <1>3
<1> QED
  BY <1>5, <1>6 DEF SerialInv

(* The readings and the count when one request moves.                       *)
LEMMA FitReadings ==
  ASSUME requests \in [Requests -> RequestSet], NEW r \in Requests, NEW n, requests' = [requests EXCEPT ![r] = n],
         served' \subseteq Fitting, \A row \in Held(n) : Reading(n.session, row) \in Fitting
  PROVE  Readings(requests', served') \subseteq Fitting
<1> DEFINE next == [requests EXCEPT ![r] = n]
           Fit == Fitting
           given2 == served'
<1>1. requests' = next /\ next[r] = n /\ \A q \in Requests : q # r => next[q] = requests[q]
  OBVIOUS
<1> HIDE DEF next
<1>2. Readings(requests, served) \subseteq Fit
  BY DEF Fitting
<1>3. given2 \subseteq Fit /\ \A row \in Held(next[r]) : Reading(next[r].session, row) \in Fit
  BY <1>1
<1> HIDE DEF Fit, given2
<1>4. Readings(next, given2) \subseteq Fit
  BY <1>1, <1>2, <1>3, ReadingsMove
<1> QED
  BY Zenon, <1>1, <1>4 DEF Fit, given2

(* Nobody is let in by the move of a request that was not let in before.    *)
LEMMA CountMove ==
  ASSUME requests \in [Requests -> RequestSet], audit \in Audits, Counted(requests, audit), NEW r \in Requests, NEW n,
         requests' = [requests EXCEPT ![r] = n], audit' = audit, \A p \in Principals : Entering(n, p) => Entering(requests[r], p)
  PROVE  Counted(requests', audit')
<1> DEFINE next == [requests EXCEPT ![r] = n]
<1>1. \A p \in Principals : audit.signIns[p] \in Nat
  BY DEF Audits
<1>2. requests' = next /\ next[r] = n /\ \A q \in Requests : q # r => next[q] = requests[q]
  OBVIOUS
<1> HIDE DEF next
<1>3. Counted(next, audit)
  BY <1>1, <1>2, CountStays
<1> QED
  BY Zenon, <1>2, <1>3

(* A request that reads rows of the table, while rows go or stay.           *)
LEMMA FitMove ==
  ASSUME SerialInv, NEW r \in Requests, NEW n \in RequestSet, requests' = [requests EXCEPT ![r] = n],
         UNCHANGED <<minted, now, audit>>, issued' \in Nat,
         logins' \in [Logins -> [phase : {"new", "begun", "consumed"}, expires : Nat]],
         \A l \in Logins : logins[l].phase = "consumed" => logins'[l].phase = "consumed", sessions' \in [Sessions -> SUBSET SessionRows],
         Stems(sessions', sessions), OneRow(sessions'), served' \subseteq [session : Sessions, revision : Nat, tokens : Tokens],
         RequestHolds(n, logins', minted, sessions'), served' \subseteq Fitting, \A row \in Held(n) : Reading(n.session, row) \in Fitting,
         Consumer(n) => (Consumer(requests[r]) /\ n.login = requests[r].login) \/ logins[n.login].phase # "consumed",
         \A p \in Principals : Entering(n, p) => Entering(requests[r], p)
  PROVE  SerialInv'
<1>1. Typed /\ requests \in [Requests -> RequestSet] /\ minted \subseteq Sessions /\ sessions \in [Sessions -> SUBSET SessionRows] /\ audit \in Audits
  BY DEF SerialInv, Typed
<1>2. Typed'
  BY <1>1 DEF Typed
<1>3. Coherent(Readings(requests', served'), sessions', minted')
  <2>2. Readings(requests', served') \subseteq Fitting
    BY Zenon, <1>1, FitReadings
  <2> DEFINE new == Readings(requests', served')
             old == Readings(requests, served)
  <2>4. \A x \in new : x \in old \/ \E s \in minted : \E row \in sessions[s] : x = Reading(s, row)
    BY <2>2 DEF Fitting
  <2>5. Coherent(old, sessions, minted)
    BY DEF SerialInv
  <2> HIDE DEF new, old
  <2>6. Coherent(new, sessions', minted)
    BY <1>1, <2>4, <2>5, CoherentStays
  <2> QED
    BY Zenon, <2>6 DEF new
<1>4. Counted(requests', audit')
  <2>1. Counted(requests, audit) /\ audit' = audit
    BY Zenon DEF SerialInv
  <2> QED
    BY Zenon, <1>1, <2>1, CountMove
<1>5. \A s \in minted : sessions[s] = {} => sessions'[s] = {}
  BY Zenon, <1>1 DEF Stems
<1> QED
  BY Zenon, <1>2, <1>3, <1>4, <1>5, RequestMoves

(* A request that reads and lets in nothing new.                            *)
LEMMA QuietMove ==
  ASSUME SerialInv, NEW r \in Requests, NEW n \in RequestSet, requests' = [requests EXCEPT ![r] = n],
         UNCHANGED <<sessions, minted, served, now, audit>>, issued' \in Nat,
         logins' \in [Logins -> [phase : {"new", "begun", "consumed"}, expires : Nat]],
         \A l \in Logins : logins[l].phase = "consumed" => logins'[l].phase = "consumed",
         RequestHolds(n, logins', minted, sessions),
         Held(n) = {} \/ (n.session = requests[r].session /\ Held(n) \subseteq Held(requests[r])),
         Consumer(n) => (Consumer(requests[r]) /\ n.login = requests[r].login) \/ logins[n.login].phase # "consumed",
         \A p \in Principals : Entering(n, p) => Entering(requests[r], p)
  PROVE  SerialInv'
<1>1. served' \subseteq Fitting /\ \A row \in Held(n) : Reading(n.session, row) \in Fitting
  <2>1. served \subseteq Readings(requests, served) /\ \A row \in Held(requests[r]) : Reading(requests[r].session, row) \in Readings(requests, served)
    BY DEF Readings
  <2> QED
    BY <2>1 DEF Fitting
<1>2. sessions' \in [Sessions -> SUBSET SessionRows] /\ served' \subseteq [session : Sessions, revision : Nat, tokens : Tokens]
  BY Zenon DEF SerialInv, Typed
<1>3. Stems(sessions', sessions) /\ OneRow(sessions')
  BY Zenon DEF SerialInv, Coherent, Stems, OneRow
<1> QED
  BY Zenon, <1>1, <1>2, <1>3, FitMove

(* A request that only changes its place.                                   *)
LEMMA PhaseGoes ==
  ASSUME SerialInv, NEW r \in Requests, NEW phase \in {"refused", "undo", "refresh", "resolve"}, Goes(r, phase),
         UNCHANGED <<sessions, minted, served, now, audit, issued, logins>>,
         phase = "undo" => requests[r].phase = "record", phase = "refresh" => requests[r].phase = "check",
         phase = "resolve" => requests[r].phase = "update"
  PROVE  SerialInv'
<1> DEFINE o == requests[r]
           n == [o EXCEPT !.phase = phase]
<1>1. Typed /\ o \in RequestSet /\ RequestHolds(o, logins, minted, sessions)
  BY DEF SerialInv, Typed
<1>2. /\ n \in RequestSet /\ n.phase = phase /\ n.kind = o.kind /\ n.login = o.login /\ n.principal = o.principal
      /\ n.session = o.session /\ n.record = o.record /\ n.fallback = o.fallback
  BY Zenon, <1>1 DEF RequestSet, SigningIn, Using
<1>3. requests' = [requests EXCEPT ![r] = n]
  BY DEF Goes
<1> HIDE DEF n
<1>4. RequestHolds(n, logins', minted, sessions) /\ (Consumer(n) => Consumer(o))
  BY Zenon, <1>1, <1>2 DEF RequestHolds, Consumer, SigningIn, Using
<1>5. Held(n) \subseteq Held(o)
  BY <1>2 DEF Held
<1>6. \A p \in Principals : ~Entering(n, p)
  BY <1>2 DEF Entering
<1>7. issued' \in Nat /\ logins' \in [Logins -> [phase : {"new", "begun", "consumed"}, expires : Nat]]
  BY <1>1 DEF Typed
<1> QED
  BY Zenon, <1>2, <1>3, <1>4, <1>5, <1>6, <1>7, QuietMove


(* The request that is served, and what it shows.                           *)
LEMMA ServedRequest ==
  ASSUME SerialInv, NEW r \in Requests, NEW row \in SessionRows, Serves(r, row),
         requests[r].phase \in {"enter", "resolve", "check", "refresh", "update"}
  PROVE  /\ requests[r].session \in minted /\ served' = served \union {Reading(requests[r].session, row)}
         /\ served' \subseteq [session : Sessions, revision : Nat, tokens : Tokens]
         /\ \E n \in RequestSet :
               /\ requests' = [requests EXCEPT ![r] = n] /\ RequestHolds(n, logins, minted, sessions') /\ Held(n) = {}
               /\ Consumer(n) => Consumer(requests[r]) /\ n.login = requests[r].login
               /\ \A p \in Principals : Entering(n, p) => Entering(requests[r], p)
<1> DEFINE o == requests[r]
           ph == IF o.phase = "enter" \/ o.kind = "use" THEN "served" ELSE "delete"
           n == [o EXCEPT !.phase = ph, !.record = row, !.fallback = {}]
<1>1. Typed /\ o \in RequestSet /\ RequestHolds(o, logins, minted, sessions) /\ minted \subseteq Sessions
  BY DEF SerialInv, Typed
<1>2. ph \in {"served", "delete"} /\ (ph = "served" => o.phase = "enter" \/ o.kind = "use") /\ (o.phase = "enter" => ph = "served")
  OBVIOUS
<1>3. requests' = [requests EXCEPT ![r] = n]
  BY Zenon DEF Serves
<1>4. served' = served \union {Reading(o.session, row)}
  BY DEF Serves, Reading
<1> HIDE DEF ph
<1>5. /\ n \in RequestSet /\ n.phase = ph /\ n.kind = o.kind /\ n.login = o.login /\ n.principal = o.principal
      /\ n.session = o.session /\ n.fallback = {}
  BY Zenon, <1>1, <1>2 DEF RequestSet, SigningIn, Using
<1> HIDE DEF n
<1>6. o.session \in minted /\ (o.phase # "enter" => o.kind \in {"use", "logout"}) /\ (o.phase = "enter" => o.kind = "callback")
  BY Zenon, <1>1 DEF RequestHolds, SigningIn, Using
<1>7. RequestHolds(n, logins, minted, sessions')
  BY Zenon, <1>1, <1>2, <1>5, <1>6 DEF RequestHolds, Consumer, SigningIn, Using
<1>8. Consumer(n) => Consumer(o) /\ n.login = o.login
  BY Zenon, <1>1, <1>2, <1>5, <1>6 DEF Consumer, SigningIn
<1>9. \A p \in Principals : Entering(n, p) => Entering(o, p)
  BY Zenon, <1>2, <1>5, <1>6 DEF Entering
<1>10. Held(n) = {}
  BY <1>2, <1>5 DEF Held
<1>11. served' \subseteq [session : Sessions, revision : Nat, tokens : Tokens]
  BY <1>1, <1>4, <1>6 DEF Typed, Reading, SessionRows
<1> QED
  BY Zenon, <1>3, <1>4, <1>5, <1>6, <1>7, <1>8, <1>9, <1>10, <1>11

(* A request that is served with a row it may serve.                        *)
LEMMA ServesKeeps ==
  ASSUME SerialInv, NEW r \in Requests, NEW row \in SessionRows, Serves(r, row), UNCHANGED <<minted, now, audit, logins, issued>>,
         requests[r].phase \in {"enter", "resolve", "check", "refresh", "update"}, sessions' \in [Sessions -> SUBSET SessionRows],
         Stems(sessions', sessions), OneRow(sessions'), Reading(requests[r].session, row) \in Fitting
  PROVE  SerialInv'
<1> DEFINE Fine(n) == /\ requests' = [requests EXCEPT ![r] = n] /\ RequestHolds(n, logins, minted, sessions') /\ Held(n) = {}
                      /\ Consumer(n) => Consumer(requests[r]) /\ n.login = requests[r].login
                      /\ \A p \in Principals : Entering(n, p) => Entering(requests[r], p)
<1>1. /\ served' = served \union {Reading(requests[r].session, row)} /\ served' \subseteq [session : Sessions, revision : Nat, tokens : Tokens]
      /\ \E n \in RequestSet : Fine(n)
  BY Zenon, ServedRequest
<1>2. PICK n \in RequestSet : Fine(n)
  BY Zenon, <1>1
<1>3. served' \subseteq Fitting
  BY Zenon, <1>1 DEF Fitting, Readings
<1>4. issued' \in Nat /\ logins' \in [Logins -> [phase : {"new", "begun", "consumed"}, expires : Nat]] /\ logins' = logins
  BY Zenon DEF SerialInv, Typed
<1>5. UNCHANGED <<minted, now, audit>> /\ RequestHolds(n, logins', minted, sessions')
  BY <1>2
<1>6. \A x \in Held(n) : Reading(n.session, x) \in Fitting
  BY <1>2
<1> QED
  BY Zenon, <1>1, <1>2, <1>3, <1>4, <1>5, <1>6, FitMove

(* A callback consumes its login transaction or is refused.                 *)
LEMMA CallbackKeeps ==
  ASSUME SerialInv, NEW r \in Requests, NEW l \in Logins, Callback(r, l)
  PROVE  SerialInv'
<1> DEFINE ph == IF Consumable(l) THEN "exchange" ELSE "refused"
           n == [Fresh EXCEPT !.kind = "callback", !.login = l, !.phase = ph]
<1>1. Typed /\ logins \in [Logins -> [phase : {"new", "begun", "consumed"}, expires : Nat]]
  BY DEF SerialInv, Typed
<1>2. requests' = [requests EXCEPT ![r] = n] /\ UNCHANGED <<sessions, minted, served, now, audit, issued>>
  BY DEF Callback, storeVars
<1>3. /\ logins' \in [Logins -> [phase : {"new", "begun", "consumed"}, expires : Nat]]
      /\ \A k \in Logins : logins[k].phase = "consumed" => logins'[k].phase = "consumed"
      /\ ph = "exchange" => logins[l].phase = "begun" /\ logins'[l].phase = "consumed"
  <2>1. CASE Consumable(l)
    <3>1. logins' = [logins EXCEPT ![l].phase = "consumed"]
      BY <2>1 DEF Callback
    <3> QED
      BY <1>1, <2>1, <3>1 DEF Consumable
  <2>2. CASE ~Consumable(l)
    BY <1>1, <2>2 DEF Callback
  <2> QED
    BY Zenon, <2>1, <2>2
<1>4. ph \in {"exchange", "refused"}
  OBVIOUS
<1> HIDE DEF ph
<1>5. n.phase = ph /\ n.kind = "callback" /\ n.login = l /\ n.session = "none" /\ n.fallback = {}
  BY DEF Fresh
<1>6. n \in RequestSet
  BY Zenon, <1>4 DEF Fresh, RequestSet, NoRow, NoTokens, SessionRows, Tokens, SigningIn, Using
<1> HIDE DEF n
<1>7. RequestHolds(n, logins', minted, sessions)
  BY Zenon, <1>3, <1>4, <1>5 DEF RequestHolds, Consumer, SigningIn, Using
<1>8. Consumer(n) => logins[n.login].phase # "consumed"
  BY Zenon, <1>3, <1>4, <1>5 DEF Consumer, SigningIn
<1>9. Held(n) = {} /\ \A p \in Principals : ~Entering(n, p)
  BY <1>4, <1>5 DEF Held, Entering
<1>10. issued' \in Nat
  BY <1>1, <1>2 DEF Typed
<1> QED
  BY Zenon, <1>2, <1>3, <1>6, <1>7, <1>8, <1>9, <1>10, QuietMove

(* A request that brings the cookie of a served callback.                   *)
LEMMA BeginKeeps ==
  ASSUME SerialInv, NEW r \in Requests, NEW s \in Sessions, NEW kind \in {"use", "logout"}, Begin(r, s, kind)
  PROVE  SerialInv'
<1> DEFINE n == [Fresh EXCEPT !.kind = kind, !.session = s, !.phase = "resolve"]
<1>1. Typed
  BY DEF SerialInv
<1>2. requests' = [requests EXCEPT ![r] = n] /\ UNCHANGED <<sessions, minted, served, now, audit, issued, logins>>
  BY DEF Begin, storeVars
<1>3. s \in minted
  <2>1. PICK q \in Requests : requests[q].phase = "served" /\ requests[q].session = s
    BY DEF Begin, Cookies
  <2>2. RequestHolds(requests[q], logins, minted, sessions)
    BY DEF SerialInv
  <2> QED
    BY Zenon, <2>1, <2>2 DEF RequestHolds
<1>5. n.phase = "resolve" /\ n.kind = kind /\ n.session = s /\ n.fallback = {}
  BY DEF Fresh
<1>6. n \in RequestSet
  BY Zenon DEF Fresh, RequestSet, NoRow, NoTokens, SessionRows, Tokens, SigningIn, Using
<1> HIDE DEF n
<1>7. RequestHolds(n, logins', minted, sessions)
  BY <1>3, <1>5 DEF RequestHolds, Consumer, SigningIn, Using
<1>8. ~Consumer(n)
  BY <1>5 DEF Consumer
<1>9. Held(n) = {} /\ \A p \in Principals : ~Entering(n, p)
  BY <1>5 DEF Held, Entering
<1>10. issued' \in Nat /\ logins' = logins /\ logins' \in [Logins -> [phase : {"new", "begun", "consumed"}, expires : Nat]]
  BY <1>1, <1>2 DEF Typed
<1> QED
  BY Zenon, <1>2, <1>6, <1>7, <1>8, <1>9, <1>10, QuietMove


(* Token sets of the provider, for a sign-in or a refresh.                  *)
LEMMA IssueKeeps ==
  ASSUME SerialInv, NEW r \in Requests, NEW refreshable \in BOOLEAN, NEW phase, Issue(r, refreshable, phase),
         (requests[r].phase = "exchange" /\ phase = "principal") \/ (requests[r].phase = "refresh" /\ phase = "update")
  PROVE  SerialInv'
<1> DEFINE o == requests[r]
           ref == IF refreshable THEN issued' ELSE o.record.tokens.refresh
           next == [id |-> issued', expires |-> now + TokenTTL, refresh |-> ref]
           n == [o EXCEPT !.next = next, !.phase = phase]
<1>1. Typed /\ o \in RequestSet /\ RequestHolds(o, logins, minted, sessions)
  BY DEF SerialInv, Typed
<1>2. requests' = [requests EXCEPT ![r] = n] /\ UNCHANGED <<sessions, minted, served, now, audit, logins>>
  BY Zenon DEF Issue, storeVars
<1>3. issued' \in Nat /\ o.record.tokens.refresh \in Nat
  BY <1>1 DEF Issue, Typed, RequestSet, SessionRows, Tokens
<1>4. next \in Tokens
  <2>1. now + TokenTTL \in Nat
    BY Zenon, <1>1, TimeBoundsHold, LaterIsNat DEF TimeBounds, Typed
  <2>2. ref \in Nat
    BY Zenon, <1>3
  <2> QED
    BY Zenon, <1>3, <2>1, <2>2 DEF Tokens
<1> HIDE DEF next
<1>5. /\ n \in RequestSet /\ n.phase = phase /\ n.kind = o.kind /\ n.login = o.login /\ n.principal = o.principal
      /\ n.session = o.session /\ n.record = o.record /\ n.fallback = o.fallback
  BY Zenon, <1>1, <1>4 DEF RequestSet, SigningIn, Using
<1> HIDE DEF n
<1>6. logins' = logins /\ logins' \in [Logins -> [phase : {"new", "begun", "consumed"}, expires : Nat]]
  BY <1>1, <1>2 DEF Typed
<1>7. RequestHolds(n, logins', minted, sessions) /\ (Consumer(n) => Consumer(o))
  BY Zenon, <1>1, <1>5, <1>6 DEF RequestHolds, Consumer, SigningIn, Using
<1>8. Held(n) \subseteq Held(o) /\ \A p \in Principals : ~Entering(n, p)
  BY Zenon, <1>5 DEF Held, Entering
<1> QED
  BY Zenon, <1>2, <1>3, <1>5, <1>6, <1>7, <1>8, QuietMove

(* The principal a sign-in is for.                                          *)
LEMMA PrincipalKeeps ==
  ASSUME SerialInv, NEW r \in Requests, NEW p \in Principals, ResolveOrCreatePrincipal(r, p)
  PROVE  SerialInv'
<1> DEFINE o == requests[r]
           ph == IF principals'[p] = "ACTIVE" THEN "create" ELSE "refused"
           n == [o EXCEPT !.principal = p, !.phase = ph]
<1>1. Typed /\ o \in RequestSet /\ RequestHolds(o, logins, minted, sessions) /\ o.phase = "principal"
  BY DEF SerialInv, Typed, ResolveOrCreatePrincipal
<1>2. requests' = [requests EXCEPT ![r] = n] /\ UNCHANGED <<sessions, minted, served, now, audit, logins, issued>>
  BY Zenon DEF ResolveOrCreatePrincipal
<1>3. ph \in {"create", "refused"}
  OBVIOUS
<1> HIDE DEF ph
<1>5. /\ n \in RequestSet /\ n.phase = ph /\ n.kind = o.kind /\ n.login = o.login /\ n.principal = p
      /\ n.session = o.session /\ n.record = o.record /\ n.fallback = o.fallback
  BY Zenon, <1>1, <1>3 DEF RequestSet, SigningIn, Using
<1> HIDE DEF n
<1>6. logins' = logins /\ logins' \in [Logins -> [phase : {"new", "begun", "consumed"}, expires : Nat]] /\ issued' \in Nat
  BY <1>1, <1>2 DEF Typed
<1>7. RequestHolds(n, logins', minted, sessions) /\ (Consumer(n) => Consumer(o))
  BY Zenon, <1>1, <1>3, <1>5, <1>6 DEF RequestHolds, Consumer, SigningIn, Using
<1>8. Held(n) \subseteq Held(o) /\ \A x \in Principals : ~Entering(n, x)
  BY Zenon, <1>3, <1>5 DEF Held, Entering
<1> QED
  BY Zenon, <1>2, <1>5, <1>6, <1>7, <1>8, QuietMove

(* A request that is refused while rows go or stay.                         *)
LEMMA RefusalKeeps ==
  ASSUME SerialInv, NEW r \in Requests, Goes(r, "refused"), UNCHANGED <<minted, served, now, audit, logins, issued>>,
         sessions' \in [Sessions -> SUBSET SessionRows], Stems(sessions', sessions), OneRow(sessions')
  PROVE  SerialInv'
<1> DEFINE o == requests[r]
           n == [o EXCEPT !.phase = "refused"]
<1>1. Typed /\ o \in RequestSet /\ RequestHolds(o, logins, minted, sessions)
  BY Zenon DEF SerialInv, Typed
<1>2. /\ n \in RequestSet /\ n.phase = "refused" /\ n.kind = o.kind /\ n.login = o.login /\ n.principal = o.principal
      /\ n.session = o.session /\ n.record = o.record /\ n.fallback = o.fallback
  BY Zenon, <1>1 DEF RequestSet, SigningIn, Using
<1>3. requests' = [requests EXCEPT ![r] = n]
  BY DEF Goes
<1> HIDE DEF n
<1>4. RequestHolds(n, logins', minted, sessions') /\ (Consumer(n) => Consumer(o) /\ n.login = o.login)
  BY Zenon, <1>1, <1>2 DEF RequestHolds, Consumer, SigningIn, Using
<1>5. \A x \in Held(n) : Reading(n.session, x) \in Fitting
  <2>1. Held(n) \subseteq Held(o)
    BY Zenon, <1>2 DEF Held
  <2> QED
    BY Zenon, <1>2, <2>1, HeldIsRead
<1>6. \A p \in Principals : Entering(n, p) => Entering(o, p)
  BY Zenon, <1>2 DEF Entering
<1>7. issued' \in Nat /\ logins' \in [Logins -> [phase : {"new", "begun", "consumed"}, expires : Nat]] /\ logins' = logins
  BY Zenon, <1>1 DEF Typed
<1>8. served' \subseteq Fitting /\ served' \subseteq [session : Sessions, revision : Nat, tokens : Tokens] /\ UNCHANGED <<minted, now, audit>>
  BY Zenon, <1>1 DEF Typed, Fitting, Readings
<1> QED
  BY Zenon, <1>2, <1>3, <1>4, <1>5, <1>6, <1>7, <1>8, FitMove

(* A failure that falls back on an earlier reading, or does not.            *)
LEMMA FallsKeeps ==
  ASSUME SerialInv, NEW r \in Requests, Falls(r), UNCHANGED <<minted, now, audit, logins, issued>>,
         requests[r].phase \in {"enter", "resolve", "check", "refresh", "update"},
         sessions' \in [Sessions -> SUBSET SessionRows], Stems(sessions', sessions), OneRow(sessions')
  PROVE  SerialInv'
<1>1. Typed /\ requests[r] \in RequestSet
  BY Zenon DEF SerialInv, Typed
<1>2. CASE \E row \in requests[r].fallback : Serves(r, row)
  <2>1. PICK row \in requests[r].fallback : Serves(r, row)
    BY Zenon, <1>2
  <2>2. row \in SessionRows
    BY <1>1 DEF RequestSet
  <2>3. Reading(requests[r].session, row) \in Fitting
    BY DEF Fitting, Readings, Held
  <2> QED
    BY Zenon, <2>1, <2>2, <2>3, ServesKeeps
<1>3. CASE Goes(r, "refused") /\ UNCHANGED served
  BY Zenon, <1>3, RefusalKeeps
<1> QED
  BY Zenon, <1>2, <1>3 DEF Falls


(* The statement that reads a session extends its idle time and nothing     *)
(* else.                                                                    *)
LEMMA ResolveReads ==
  ASSUME SerialInv, NEW s \in minted, ResolveConsoleSession(s)
  PROVE  /\ sessions' \in [Sessions -> SUBSET SessionRows] /\ Stems(sessions', sessions) /\ OneRow(sessions')
         /\ \A row \in ResolvedConsoleSession(s) : row \in SessionRows /\ Reading(s, row) \in Fitting
         /\ ResolvedConsoleSession(s) = {} => sessions' = sessions
<1>1. /\ sessions \in [Sessions -> SUBSET SessionRows] /\ s \in Sessions /\ now \in Nat /\ IdleTTL \in Nat
      /\ OneRow(sessions)
  BY Zenon, TimeBoundsHold DEF SerialInv, Typed, TimeBounds, Coherent, OneRow
<1>2. ASSUME NEW was \in Alive(s)
      PROVE  LET row == [was EXCEPT !.idle = Earliest(was.absolute, now + IdleTTL)]
             IN  row \in SessionRows /\ row.revision = was.revision /\ row.tokens = was.tokens /\ was \in sessions[s]
  <2>1. was \in SessionRows /\ was \in sessions[s]
    BY <1>1 DEF Alive
  <2>2. Earliest(was.absolute, now + IdleTTL) \in Nat
    BY <1>1, <2>1 DEF Earliest, SessionRows
  <2> QED
    BY <2>1, <2>2 DEF SessionRows
<1>3. ASSUME NEW row \in ResolvedConsoleSession(s)
      PROVE  row \in SessionRows /\ \E was \in sessions[s] : row.revision = was.revision /\ row.tokens = was.tokens
  <2>1. PICK was \in Alive(s) : row = [was EXCEPT !.idle = Earliest(was.absolute, now + IdleTTL)]
    BY DEF ResolvedConsoleSession
  <2> QED
    BY <1>2, <2>1
<1>4. \A a, b \in ResolvedConsoleSession(s) : a = b
  <2>1. \A a, b \in Alive(s) : a = b
    BY <1>1 DEF Alive, OneRow
  <2> QED
    BY <2>1 DEF ResolvedConsoleSession
<1>5. ASSUME NEW row \in ResolvedConsoleSession(s) PROVE Reading(s, row) \in Fitting
  <2>1. PICK was \in sessions[s] : row.revision = was.revision /\ row.tokens = was.tokens
    BY Zenon, <1>3
  <2>2. Reading(s, row) = Reading(s, was)
    BY Zenon, <2>1 DEF Reading
  <2> QED
    BY <2>2 DEF Fitting
<1>6. Alive(s) = {} <=> ResolvedConsoleSession(s) = {}
  BY Zenon DEF ResolvedConsoleSession
<1>7. ASSUME sessions' = [sessions EXCEPT ![s] = ResolvedConsoleSession(s)]
      PROVE  sessions' \in [Sessions -> SUBSET SessionRows] /\ Stems(sessions', sessions) /\ OneRow(sessions')
  <2> DEFINE rows == ResolvedConsoleSession(s)
  <2>1. sessions'[s] = rows /\ \A x \in Sessions : x # s => sessions'[x] = sessions[x]
    BY <1>1, <1>7
  <2>2. rows \in SUBSET SessionRows
    BY <1>3
  <2>3. sessions' \in [Sessions -> SUBSET SessionRows]
    BY <1>1, <1>7, <2>2
  <2> HIDE DEF rows
  <2>4. Stems(sessions', sessions)
    BY Zenon, <1>3, <2>1 DEF Stems, rows
  <2>5. OneRow(sessions')
    BY <1>1, <1>4, <2>1 DEF OneRow, rows
  <2> QED
    BY <2>3, <2>4, <2>5
<1>8. ASSUME sessions' = sessions
      PROVE  sessions' \in [Sessions -> SUBSET SessionRows] /\ Stems(sessions', sessions) /\ OneRow(sessions')
  BY <1>1, <1>8 DEF Stems
<1>9. sessions' = IF Alive(s) = {} THEN sessions ELSE [sessions EXCEPT ![s] = ResolvedConsoleSession(s)]
  BY DEF ResolveConsoleSession
<1>10. CASE Alive(s) = {}
  BY <1>3, <1>5, <1>8, <1>9, <1>10
<1>11. CASE Alive(s) # {}
  BY Zenon, <1>3, <1>5, <1>6, <1>7, <1>9, <1>11
<1> QED
  BY <1>10, <1>11

(* The first reading of a new session.                                      *)
LEMMA EnterKeeps ==
  ASSUME SerialInv, NEW r \in Requests, Enter(r)
  PROVE  SerialInv'
<1> DEFINE s == requests[r].session
<1>1. s \in minted /\ requests[r].phase = "enter"
  BY Zenon DEF SerialInv, RequestHolds, Enter
<1>2. ResolveConsoleSession(s) /\ UNCHANGED <<minted, now, audit, logins, issued>>
  BY Zenon DEF Enter
<1>3. /\ sessions' \in [Sessions -> SUBSET SessionRows] /\ Stems(sessions', sessions) /\ OneRow(sessions')
      /\ \A row \in ResolvedConsoleSession(s) : row \in SessionRows /\ Reading(s, row) \in Fitting
      /\ ResolvedConsoleSession(s) = {} => sessions' = sessions
  BY Zenon, <1>1, <1>2, ResolveReads
<1>4. ASSUME NEW row \in ResolvedConsoleSession(s), Serves(r, row) PROVE SerialInv'
  BY Zenon, <1>1, <1>2, <1>3, <1>4, ServesKeeps
<1>5. CASE ResolvedConsoleSession(s) = {} /\ Goes(r, "refused") /\ UNCHANGED served
  BY Zenon, <1>2, <1>3, <1>5, PhaseGoes
<1> QED
  BY Zenon, <1>4, <1>5 DEF Enter

(* The reading of a session by a request that uses it.                      *)
LEMMA ResolveKeeps ==
  ASSUME SerialInv, NEW r \in Requests, Resolve(r)
  PROVE  SerialInv'
<1> DEFINE o == requests[r]
           s == o.session
<1>1. s \in minted /\ o.phase = "resolve" /\ Typed /\ o \in RequestSet /\ RequestHolds(o, logins, minted, sessions)
  BY Zenon DEF SerialInv, Typed, RequestHolds, Resolve, Using
<1>2. ResolveConsoleSession(s) /\ UNCHANGED <<minted, now, audit, logins, issued>>
  BY Zenon DEF Resolve
<1>3. /\ sessions' \in [Sessions -> SUBSET SessionRows] /\ Stems(sessions', sessions) /\ OneRow(sessions')
      /\ \A row \in ResolvedConsoleSession(s) : row \in SessionRows /\ Reading(s, row) \in Fitting
      /\ ResolvedConsoleSession(s) = {} => sessions' = sessions
  BY Zenon, <1>1, <1>2, ResolveReads
<1>4. ASSUME NEW row \in ResolvedConsoleSession(s), UNCHANGED served,
             requests' = [requests EXCEPT ![r].record = row, ![r].principal = row.principal, ![r].phase = "check"]
      PROVE  SerialInv'
  <2> DEFINE n == [o EXCEPT !.record = row, !.principal = row.principal, !.phase = "check"]
  <2>1. row \in SessionRows /\ row.principal \in Principals \union {"none"}
    BY <1>3 DEF SessionRows
  <2>2. requests' = [requests EXCEPT ![r] = n]
    BY Zenon, <1>4
  <2>3. /\ n \in RequestSet /\ n.phase = "check" /\ n.kind = o.kind /\ n.login = o.login
        /\ n.session = o.session /\ n.record = row /\ n.fallback = o.fallback
    BY Zenon, <1>1, <2>1 DEF RequestSet, SigningIn, Using
  <2> HIDE DEF n
  <2>4. logins' = logins /\ logins' \in [Logins -> [phase : {"new", "begun", "consumed"}, expires : Nat]] /\ issued' \in Nat
    BY Zenon, <1>1, <1>2 DEF Typed
  <2>5. o.kind \in {"use", "logout"}
    BY Zenon, <1>1 DEF RequestHolds, Using
  <2>6. RequestHolds(n, logins', minted, sessions') /\ ~Consumer(n)
    BY Zenon, <1>1, <2>3, <2>4, <2>5 DEF RequestHolds, Consumer, SigningIn, Using
  <2>7. \A p \in Principals : ~Entering(n, p)
    BY Zenon, <2>3 DEF Entering
  <2>8. ASSUME NEW x \in Held(n) PROVE Reading(n.session, x) \in Fitting
    <3>1. CASE x = row
      BY Zenon, <1>3, <2>3, <3>1
    <3>2. CASE x \in o.fallback
      BY <2>3, <3>2 DEF Fitting, Readings, Held
    <3> QED
      BY Zenon, <2>3, <3>1, <3>2 DEF Held
  <2>9. served' \subseteq Fitting /\ served' \subseteq [session : Sessions, revision : Nat, tokens : Tokens]
    BY <1>1, <1>4 DEF Typed, Fitting, Readings
  <2> QED
    BY Zenon, <1>2, <1>3, <2>2, <2>3, <2>4, <2>6, <2>7, <2>8, <2>9, FitMove
<1>5. CASE ResolvedConsoleSession(s) = {} /\ Falls(r)
  BY Zenon, <1>1, <1>2, <1>3, <1>5, FallsKeeps
<1> QED
  BY Zenon, <1>4, <1>5 DEF Resolve


(* A reading whose answer is lost.                                          *)
LEMMA UnansweredKeeps ==
  ASSUME SerialInv, NEW r \in Requests, Unanswered(r)
  PROVE  SerialInv'
<1> DEFINE s == requests[r].session
<1>1. requests[r].phase \in {"enter", "resolve"} /\ ResolveConsoleSession(s) /\ Falls(r) /\ UNCHANGED <<minted, now, audit, logins, issued>>
  BY Zenon DEF Unanswered
<1>2. s \in minted
  BY Zenon, <1>1 DEF SerialInv, RequestHolds, Using
<1>3. sessions' \in [Sessions -> SUBSET SessionRows] /\ Stems(sessions', sessions) /\ OneRow(sessions')
  BY Zenon, <1>1, <1>2, ResolveReads
<1> QED
  BY Zenon, <1>1, <1>3, FallsKeeps

(* What a request decides from the tokens it read.                          *)
LEMMA CheckKeeps ==
  ASSUME SerialInv, NEW r \in Requests, Check(r)
  PROVE  SerialInv'
<1> DEFINE o == requests[r]
<1>1. o.phase = "check" /\ Typed /\ o \in RequestSet /\ RequestHolds(o, logins, minted, sessions) /\ o.record \in SessionRows
  BY DEF SerialInv, Typed, Check, RequestSet
<1>2. UNCHANGED <<sessions, minted, now, audit, logins, issued>>
  BY DEF Check, storeVars
<1>3. Reading(o.session, o.record) \in Fitting
  BY <1>1 DEF Fitting, Readings, Held
<1>4. sessions' \in [Sessions -> SUBSET SessionRows] /\ Stems(sessions', sessions) /\ OneRow(sessions')
  BY Zenon, <1>1, <1>2 DEF SerialInv, Typed, Coherent, Stems, OneRow
<1>5. CASE Falls(r)
  BY Zenon, <1>1, <1>2, <1>4, <1>5, FallsKeeps
<1>6. CASE Goes(r, "refresh") /\ UNCHANGED served
  BY Zenon, <1>1, <1>2, <1>6, PhaseGoes
<1>7. CASE Serves(r, o.record)
  BY Zenon, <1>1, <1>2, <1>3, <1>4, <1>7, ServesKeeps
<1>8. CASE requests' = [requests EXCEPT ![r].phase = "refresh", ![r].fallback = {o.record}] /\ UNCHANGED served
  <2> DEFINE n == [o EXCEPT !.phase = "refresh", !.fallback = {o.record}]
  <2>1. requests' = [requests EXCEPT ![r] = n]
    BY Zenon, <1>8
  <2>2. /\ n \in RequestSet /\ n.phase = "refresh" /\ n.kind = o.kind /\ n.login = o.login
        /\ n.session = o.session /\ n.record = o.record /\ n.fallback = {o.record}
    BY Zenon, <1>1 DEF RequestSet, SigningIn, Using
  <2> HIDE DEF n
  <2>3. logins' = logins /\ logins' \in [Logins -> [phase : {"new", "begun", "consumed"}, expires : Nat]] /\ issued' \in Nat
    BY <1>1, <1>2 DEF Typed
  <2>4. RequestHolds(n, logins', minted, sessions) /\ (Consumer(n) => Consumer(o))
    BY Zenon, <1>1, <2>2, <2>3 DEF RequestHolds, Consumer, SigningIn, Using
  <2>5. Held(n) \subseteq Held(o) /\ \A p \in Principals : ~Entering(n, p)
    BY Zenon, <1>1, <2>2 DEF Held, Entering
  <2> QED
    BY Zenon, <1>2, <1>8, <2>1, <2>2, <2>3, <2>4, <2>5, QuietMove
<1> QED
  BY <1>5, <1>6, <1>7, <1>8 DEF Check

(* A session that is deleted: a sign-in taken back, and a logout.           *)
LEMMA DeleteKeeps ==
  ASSUME SerialInv, NEW r \in Requests, NEW phase \in {"refused", "signed out"}, Goes(r, phase), UNCHANGED <<minted, now, audit, logins, issued, served>>,
         sessions' = sessions \/ sessions' = [sessions EXCEPT ![requests[r].session] = {}],
         requests[r].phase \in {"undo", "delete"},
         phase = "signed out" => requests[r].phase = "delete" /\ sessions' = [sessions EXCEPT ![requests[r].session] = {}]
  PROVE  SerialInv'
<1> DEFINE o == requests[r]
           n == [o EXCEPT !.phase = phase]
<1>1. Typed /\ o \in RequestSet /\ RequestHolds(o, logins, minted, sessions) /\ sessions \in [Sessions -> SUBSET SessionRows] /\ minted \subseteq Sessions
  BY Zenon DEF SerialInv, Typed
<1>2. /\ n \in RequestSet /\ n.phase = phase /\ n.kind = o.kind /\ n.login = o.login /\ n.principal = o.principal
      /\ n.session = o.session /\ n.record = o.record /\ n.fallback = o.fallback
  BY Zenon, <1>1 DEF RequestSet, SigningIn, Using
<1>3. requests' = [requests EXCEPT ![r] = n]
  BY Zenon DEF Goes
<1> HIDE DEF n
<1>4. o.session \in minted /\ o.session \in Sessions
  BY Zenon, <1>1 DEF RequestHolds, Using
<1>5. \A s \in Sessions : sessions'[s] = sessions[s] \/ sessions'[s] = {}
  BY Zenon, <1>1, <1>4
<1>6. sessions' \in [Sessions -> SUBSET SessionRows] /\ Stems(sessions', sessions) /\ OneRow(sessions')
  <2>1. sessions' \in [Sessions -> SUBSET SessionRows]
    BY Zenon, <1>1, <1>4
  <2>2. Stems(sessions', sessions)
    BY Zenon, <1>5 DEF Stems
  <2>3. OneRow(sessions')
    BY Zenon, <1>5 DEF SerialInv, Coherent, OneRow
  <2> QED
    BY Zenon, <2>1, <2>2, <2>3
<1>7. phase = "signed out" => sessions'[o.session] = {}
  BY Zenon, <1>1, <1>4
<1>8. RequestHolds(n, logins', minted, sessions') /\ (Consumer(n) => Consumer(o))
  BY Zenon, <1>1, <1>2, <1>4, <1>7 DEF RequestHolds, Consumer, SigningIn, Using
<1>9. \A p \in Principals : ~Entering(n, p)
  BY Zenon, <1>2 DEF Entering
<1>10. ASSUME NEW x \in Held(n) PROVE Reading(n.session, x) \in Fitting
  <2>1. x \in Held(o)
    BY Zenon, <1>2 DEF Held
  <2>2. Reading(o.session, x) \in Fitting
    BY Zenon, <2>1, HeldIsRead
  <2> QED
    BY Zenon, <1>2, <2>2
<1>11. issued' \in Nat /\ logins' \in [Logins -> [phase : {"new", "begun", "consumed"}, expires : Nat]] /\ logins' = logins
  BY Zenon, <1>1 DEF Typed
<1>12. served' \subseteq Fitting /\ served' \subseteq [session : Sessions, revision : Nat, tokens : Tokens] /\ UNCHANGED <<minted, now, audit>>
  BY Zenon, <1>1 DEF Typed, Fitting, Readings
<1> QED
  BY Zenon, <1>2, <1>3, <1>6, <1>8, <1>9, <1>10, <1>11, <1>12, FitMove


(* A session that is created: its identifier is in no reading.              *)
LEMMA CoherentNew ==
  ASSUME NEW old, NEW new, NEW table, NEW table2, NEW drawn, NEW s \in Sessions, NEW row, drawn \subseteq Sessions, s \notin drawn,
         Coherent(old, table, drawn), new \subseteq old, table2[s] = {row}, \A x \in Sessions : x # s => table2[x] = table[x]
  PROVE  Coherent(new, table2, drawn \union {s})
<1>1. ASSUME NEW x \in new PROVE x.session \in drawn /\ table2[x.session] = table[x.session]
  <2>1. x \in old
    BY Zenon
  <2>2. x.session \in drawn
    BY Zenon, <2>1 DEF Coherent
  <2>3. x.session # s /\ x.session \in Sessions
    BY Zenon, <2>2
  <2> QED
    BY Zenon, <2>2, <2>3
<1>2. \A x, y \in new : x.session = y.session /\ x.revision = y.revision => x.tokens = y.tokens
  BY Zenon DEF Coherent
<1>3. \A x \in new : /\ x.session \in drawn \union {s}
                     /\ \A was \in table2[x.session] : x.revision <= was.revision /\ (x.revision = was.revision => x.tokens = was.tokens)
  BY Zenon, <1>1 DEF Coherent
<1>4. ASSUME NEW x \in Sessions PROVE (\A a, b \in table2[x] : a = b) /\ (x \notin drawn \union {s} => table2[x] = {})
  <2>1. CASE x = s
    BY Zenon, <2>1
  <2>2. CASE x # s
    BY Zenon, <2>2 DEF Coherent
  <2> QED
    BY Zenon, <2>1, <2>2
<1> QED
  BY Zenon, <1>2, <1>3, <1>4 DEF Coherent

(* No reading is new when a request that holds none moves.                  *)
LEMMA NoNewReading ==
  ASSUME requests \in [Requests -> RequestSet], NEW r \in Requests, NEW n, requests' = [requests EXCEPT ![r] = n], Held(n) = {}, NEW given
  PROVE  Readings(requests', given) \subseteq Readings(requests, served) \union given
<1> DEFINE next == [requests EXCEPT ![r] = n]
           Fit == Readings(requests, served) \union given
<1>1. requests' = next /\ next[r] = n /\ \A q \in Requests : q # r => next[q] = requests[q]
  OBVIOUS
<1> HIDE DEF next
<1>2. ASSUME NEW q \in Requests, NEW row \in Held(next[q]) PROVE Reading(next[q].session, row) \in Fit
  <2>1. q # r /\ next[q] = requests[q]
    BY <1>1
  <2>2. Reading(requests[q].session, row) \in Readings(requests, served)
    BY <2>1 DEF Readings
  <2> QED
    BY <2>1, <2>2
<1> HIDE DEF Fit
<1>3. given \subseteq Fit
  BY DEF Fit
<1>4. Readings(next, given) \subseteq Fit
  BY <1>2, <1>3 DEF Readings
<1> QED
  BY Zenon, <1>1, <1>4 DEF Fit

(* The row of a new session.                                                *)
LEMMA CreateKeeps ==
  ASSUME SerialInv, NEW r \in Requests, NEW s \in Sessions, NEW answered \in BOOLEAN, Create(r, s, answered)
  PROVE  SerialInv'
<1> DEFINE o == requests[r]
           n == IF answered THEN [o EXCEPT !.session = s, !.phase = "record"] ELSE [o EXCEPT !.phase = "refused"]
           absolute == IF o.next.refresh = 0 THEN Earliest(now + AbsoluteTTL, o.next.expires) ELSE now + AbsoluteTTL
           idle == Earliest(now + IdleTTL, absolute)
           row == [principal |-> o.principal, tokens |-> o.next, revision |-> 1, idle |-> idle, absolute |-> absolute]
<1>1. /\ Typed /\ o \in RequestSet /\ RequestHolds(o, logins, minted, sessions) /\ sessions \in [Sessions -> SUBSET SessionRows]
      /\ minted \subseteq Sessions /\ requests \in [Requests -> RequestSet] /\ now \in Nat /\ audit \in Audits
  BY Zenon DEF SerialInv, Typed
<1>2. o.phase = "create" /\ s \notin minted /\ minted' = minted \union {s} /\ UNCHANGED <<audit, now, logins, issued, served>>
  BY DEF Create
<1>3. sessions' = [sessions EXCEPT ![s] = {row}]
  BY Zenon DEF Create, CreateConsoleSession
<1>4. requests' = [requests EXCEPT ![r] = n]
  <2>1. CASE answered
    BY Zenon, <2>1 DEF Create
  <2>2. CASE ~answered
    BY Zenon, <2>2 DEF Create
  <2> QED
    BY <2>1, <2>2
<1>5. absolute \in Nat /\ idle \in Nat
  <2>1. AbsoluteTTL \in Nat /\ IdleTTL \in Nat /\ o.next.expires \in Nat
    BY Zenon, <1>1, TimeBoundsHold DEF TimeBounds, RequestSet, Tokens
  <2>2. now + AbsoluteTTL \in Nat /\ now + IdleTTL \in Nat
    BY Zenon, <1>1, <2>1, LaterIsNat
  <2>3. absolute \in Nat
    BY Zenon, <2>1, <2>2, EarliestIsNat
  <2> HIDE DEF absolute
  <2> QED
    BY Zenon, <2>2, <2>3, EarliestIsNat
<1> HIDE DEF absolute, idle
<1>6. row \in SessionRows
  BY Zenon, <1>1, <1>5 DEF SessionRows, RequestSet
<1> HIDE DEF row
<1>7. /\ n \in RequestSet /\ n.kind = o.kind /\ n.login = o.login /\ n.principal = o.principal /\ n.fallback = o.fallback
      /\ (n.phase = "record" /\ n.session = s) \/ (n.phase = "refused" /\ n.session = o.session)
  <2>1. CASE answered
    <3>1. n = [o EXCEPT !.session = s, !.phase = "record"]
      BY Zenon, <2>1
    <3> HIDE DEF n
    <3> QED
      BY Zenon, <1>1, <3>1 DEF RequestSet, SigningIn, Using
  <2>2. CASE ~answered
    <3>1. n = [o EXCEPT !.phase = "refused"]
      BY Zenon, <2>2
    <3> HIDE DEF n
    <3> QED
      BY Zenon, <1>1, <3>1 DEF RequestSet, SigningIn, Using
  <2> QED
    BY Zenon, <2>1, <2>2
<1> HIDE DEF n
<1>8. sessions'[s] = {row} /\ (\A x \in Sessions : x # s => sessions'[x] = sessions[x]) /\ sessions' \in [Sessions -> SUBSET SessionRows]
  BY Zenon, <1>1, <1>3, <1>6
<1>9. Typed'
  <2>1. requests' \in [Requests -> RequestSet] /\ minted' \subseteq Sessions
    BY Zenon, <1>1, <1>2, <1>4, <1>7
  <2> QED
    BY Zenon, <1>1, <1>2, <1>8, <2>1 DEF Typed
<1>10. Held(n) = {} /\ (Consumer(n) => Consumer(o)) /\ \A p \in Principals : ~Entering(n, p)
  BY Zenon, <1>1, <1>2, <1>7 DEF RequestHolds, Held, Consumer, Entering, SigningIn
<1>11. RequestHolds(n, logins', minted', sessions')
  BY Zenon, <1>1, <1>2, <1>7 DEF RequestHolds, Consumer, SigningIn, Using
<1>12. Coherent(Readings(requests', served'), sessions', minted')
  <2> DEFINE old == Readings(requests, served)
             new == Readings(requests', served')
             table == sessions'
  <2>1. new \subseteq old \union served'
    BY Zenon, <1>1, <1>4, <1>10, NoNewReading
  <2>2. new \subseteq old
    BY Zenon, <1>2, <2>1 DEF Readings
  <2>3. Coherent(old, sessions, minted) /\ table[s] = {row} /\ \A x \in Sessions : x # s => table[x] = sessions[x]
    BY Zenon, <1>8 DEF SerialInv
  <2> HIDE DEF old, new, table
  <2>4. Coherent(new, table, minted \union {s})
    BY <1>1, <1>2, <2>2, <2>3, CoherentNew
  <2> QED
    BY Zenon, <1>2, <2>4 DEF new, table
<1>13. Counted(requests', audit')
  <2>1. Counted(requests, audit) /\ audit' = audit
    BY Zenon, <1>2 DEF SerialInv
  <2> QED
    BY Zenon, <1>1, <1>4, <1>10, <2>1, CountMove
<1>14. minted \subseteq minted' /\ (\A l \in Logins : logins[l].phase = "consumed" => logins'[l].phase = "consumed")
       /\ \A x \in minted : sessions[x] = {} => sessions'[x] = {}
  BY Zenon, <1>1, <1>2, <1>8
<1> QED
  BY Zenon, <1>4, <1>7, <1>9, <1>10, <1>11, <1>12, <1>13, <1>14, RequestMoves


(* What a part of a counted set counts, and what one element more adds.     *)
LEMMA FewerCount ==
  ASSUME NEW S, NEW T, IsFiniteSet(T), S \subseteq T, NEW n \in Nat, Cardinality(T) <= n
  PROVE  IsFiniteSet(S) /\ Cardinality(S) <= n
<1>1. IsFiniteSet(S) /\ Cardinality(S) <= Cardinality(T)
  BY Zenon, FS_Subset
<1>2. Cardinality(S) \in Nat /\ Cardinality(T) \in Nat
  BY Zenon, <1>1, FS_CardinalityType
<1> QED
  BY <1>1, <1>2

(* One more row is one more in the count.                                   *)
LEMMA OneMoreCounts ==
  ASSUME NEW S, NEW T, NEW r, IsFiniteSet(T), S \subseteq T \union {r}, NEW n \in Nat, Cardinality(T) <= n
  PROVE  IsFiniteSet(S) /\ Cardinality(S) <= n + 1
<1>1. /\ IsFiniteSet(T \union {r})
      /\ Cardinality(T \union {r}) = Cardinality(T) \/ Cardinality(T \union {r}) = Cardinality(T) + 1
  BY FS_AddElement
<1>2. Cardinality(T) \in Nat
  BY Zenon, FS_CardinalityType
<1>3. Cardinality(T \union {r}) <= n + 1 /\ n + 1 \in Nat
  BY <1>1, <1>2
<1> QED
  BY Zenon, <1>1, <1>3, FewerCount

(* A step of one request, and an event more for one principal.              *)
OthersStay(all, next, r) == \A q \in Requests : q # r => next[q] = all[q]
LetsInOnly(q, p) == \A x \in Principals : Entering(q, x) => x = p
OneMore(log, log2, p) ==
    /\ \A x \in Principals : log.signIns[x] \in Nat
    /\ log2.signIns[p] = log.signIns[p] + 1 /\ \A x \in Principals : x # p => log2.signIns[x] = log.signIns[x]

(* One more is let in and one more sign-in is on record.                    *)
LEMMA CountGrows ==
  ASSUME NEW all, NEW next, NEW r \in Requests, OthersStay(all, next, r), NEW log, NEW log2, Counted(all, log),
         NEW p \in Principals, LetsInOnly(next[r], p), OneMore(log, log2, p)
  PROVE  Counted(next, log2)
<1> DEFINE Old(x) == {q \in Requests : Entering(all[q], x)}
           New(x) == {q \in Requests : Entering(next[q], x)}
<1>1. ASSUME NEW x \in Principals PROVE IsFiniteSet(New(x)) /\ Cardinality(New(x)) <= log2.signIns[x]
  <2>1. IsFiniteSet(Old(x)) /\ Cardinality(Old(x)) <= log.signIns[x]
    BY Zenon DEF Counted
  <2>2. New(x) \subseteq Old(x) \union {r} /\ (x # p => New(x) \subseteq Old(x))
    BY Zenon DEF OthersStay, LetsInOnly
  <2> HIDE DEF Old, New
  <2>3. /\ Cardinality(Old(x)) \in Nat /\ log.signIns[x] \in Nat
        /\ (x = p => log2.signIns[x] = log.signIns[x] + 1) /\ (x # p => log2.signIns[x] = log.signIns[x])
    BY Zenon, <2>1, FS_CardinalityType DEF OneMore
  <2>4. CASE x = p
    BY Zenon, <2>1, <2>2, <2>3, <2>4, OneMoreCounts
  <2>5. CASE x # p
    BY Zenon, <2>1, <2>2, <2>3, <2>5, FewerCount
  <2> QED
    BY Zenon, <2>4, <2>5
<1> QED
  BY Zenon, <1>1 DEF Counted

(* The event of a sign-in.                                                  *)
LEMMA SignInRecorded ==
  ASSUME audit \in Audits, NEW p \in Principals, audit' = [audit EXCEPT !.signIns[p] = @ + 1]
  PROVE  audit' \in Audits /\ OneMore(audit, audit', p)
<1>1. audit.signIns \in [Principals -> Nat]
  BY DEF Audits
<1>2. audit' = [audit EXCEPT !.signIns = [audit.signIns EXCEPT ![p] = @ + 1]]
  BY <1>1 DEF Audits
<1>3. [audit.signIns EXCEPT ![p] = @ + 1] \in [Principals -> Nat]
  BY <1>1
<1> QED
  BY <1>1, <1>2, <1>3 DEF Audits, OneMore

(* The count when the request's own sign-in is recorded.                    *)
LEMMA CountRecord ==
  ASSUME requests \in [Requests -> RequestSet], audit \in Audits, Counted(requests, audit), NEW r \in Requests, NEW n,
         requests' = [requests EXCEPT ![r] = n], NEW p \in Principals, audit' = [audit EXCEPT !.signIns[p] = @ + 1],
         \A x \in Principals : Entering(n, x) => x = p
  PROVE  Counted(requests', audit')
<1> DEFINE next == requests'
           log2 == audit'
<1>1. OthersStay(requests, next, r) /\ next[r] = n
  BY DEF OthersStay
<1>2. LetsInOnly(next[r], p)
  BY <1>1 DEF LetsInOnly
<1>3. OneMore(audit, log2, p)
  BY SignInRecorded
<1> HIDE DEF next, log2
<1>4. Counted(next, log2)
  BY <1>1, <1>2, <1>3, CountGrows
<1> QED
  BY <1>4 DEF next, log2

(* The sign-in that is on record before its cookie is set.                  *)
LEMMA RecordKeeps ==
  ASSUME SerialInv, NEW r \in Requests, NEW answered \in BOOLEAN, WriteSecurityAudit(r, answered)
  PROVE  SerialInv'
<1> DEFINE o == requests[r]
           ph == IF answered THEN "enter" ELSE "undo"
           n == [o EXCEPT !.phase = ph]
           p == o.principal
<1>1. /\ Typed /\ o \in RequestSet /\ RequestHolds(o, logins, minted, sessions) /\ requests \in [Requests -> RequestSet] /\ audit \in Audits
      /\ o.phase = "record"
  BY DEF SerialInv, Typed, WriteSecurityAudit
<1>2. UNCHANGED <<sessions, now, logins, issued, minted, served>> /\ requests' = [requests EXCEPT ![r] = n]
  BY DEF WriteSecurityAudit, Goes
<1>3. audit' = [audit EXCEPT !.signIns[p] = @ + 1] /\ ph \in {"enter", "undo"}
  BY DEF WriteSecurityAudit
<1> HIDE DEF ph
<1>4. p \in Principals
  BY Zenon, <1>1 DEF RequestHolds
<1>5. audit' \in Audits
  BY <1>1, <1>3, <1>4, SignInRecorded
<1>6. /\ n \in RequestSet /\ n.phase = ph /\ n.kind = o.kind /\ n.login = o.login /\ n.principal = p
      /\ n.session = o.session /\ n.fallback = o.fallback
  BY Zenon, <1>1, <1>3 DEF RequestSet, SigningIn, Using
<1> HIDE DEF n
<1>7. Typed'
  <2>1. requests' \in [Requests -> RequestSet]
    BY <1>1, <1>2, <1>6
  <2> QED
    BY Zenon, <1>1, <1>2, <1>5, <2>1 DEF Typed
<1>8. RequestHolds(n, logins', minted', sessions') /\ Held(n) = {} /\ (Consumer(n) => Consumer(o))
  BY Zenon, <1>1, <1>2, <1>3, <1>6 DEF RequestHolds, Held, Consumer, SigningIn, Using
<1>9. Coherent(Readings(requests', served'), sessions', minted')
  <2> DEFINE old == Readings(requests, served)
             new == Readings(requests', served')
  <2>1. new \subseteq old \union served'
    BY Zenon, <1>1, <1>2, <1>8, NoNewReading
  <2>2. new \subseteq old
    BY Zenon, <1>2, <2>1 DEF Readings
  <2>3. Coherent(old, sessions, minted)
    BY Zenon DEF SerialInv
  <2> HIDE DEF old, new
  <2>4. Coherent(new, sessions, minted)
    BY <2>2, <2>3, CoherentSubset
  <2> QED
    BY <1>2, <2>4 DEF new
<1>10. Counted(requests', audit')
  <2>1. \A x \in Principals : Entering(n, x) => x = p
    BY Zenon, <1>6 DEF Entering
  <2>2. Counted(requests, audit)
    BY DEF SerialInv
  <2> QED
    BY Zenon, <1>1, <1>2, <1>3, <1>4, <2>1, <2>2, CountRecord
<1> QED
  BY Zenon, <1>2, <1>6, <1>7, <1>8, <1>9, <1>10, RequestMoves


(* The row of a session gives way to the next revision, and is read.        *)
Supersedes(table, table2, s, was, row) ==
    /\ was \in table[s] /\ was.revision \in Nat /\ row.revision = was.revision + 1
    /\ table2[s] = {row} /\ \A x \in Sessions : x # s => table2[x] = table[x]
Numbered(seen) == \A x \in seen : x.revision \in Nat
Gains(old, new, y) == \A x \in new : x \in old \/ x = y

(* A number that is at most another is below its successor.                 *)
LEMMA NextIsLater ==
  ASSUME NEW a \in Nat, NEW b \in Nat, NEW c, c = b + 1, a <= b
  PROVE  a < c /\ a <= c /\ a # c
OBVIOUS

(* A session that advances leaves what was read of it coherent.             *)
LEMMA CoherentSuperseded ==
  ASSUME NEW old, NEW new, NEW table, NEW table2, NEW drawn, NEW s, NEW was, NEW row, s \in drawn, drawn \subseteq Sessions,
         Coherent(old, table, drawn), Numbered(old), Supersedes(table, table2, s, was, row), Gains(old, new, Reading(s, row))
  PROVE  Coherent(new, table2, drawn)
<1> DEFINE y == Reading(s, row)
<1>1. y.session = s /\ y.revision = row.revision /\ y.tokens = row.tokens
  BY Zenon DEF Reading
<1>2. Gains(old, new, y)
  BY Zenon
<1> HIDE DEF y
<1>3. ASSUME NEW x \in old, x.session = s PROVE x.revision <= row.revision /\ x.revision # row.revision
  <2>1. x.revision <= was.revision /\ x.revision \in Nat
    BY Zenon, <1>3 DEF Coherent, Numbered, Supersedes
  <2>2. was.revision \in Nat /\ row.revision = was.revision + 1
    BY Zenon DEF Supersedes
  <2> QED
    BY Zenon, <2>1, <2>2, NextIsLater
<1>4. ASSUME NEW x \in new PROVE x \in old \/ x = y
  BY Zenon, <1>2 DEF Gains
<1>5. ASSUME NEW x \in new, NEW z \in new, x.session = z.session, x.revision = z.revision PROVE x.tokens = z.tokens
  <2>1. CASE x \in old /\ z \in old
    BY Zenon, <1>5, <2>1 DEF Coherent
  <2>2. CASE x = y /\ z = y
    BY Zenon, <2>2
  <2>3. CASE x = y /\ z \in old
    BY Zenon, <1>1, <1>3, <1>5, <2>3
  <2>4. CASE x \in old /\ z = y
    BY Zenon, <1>1, <1>3, <1>5, <2>4
  <2> QED
    BY Zenon, <1>4, <2>1, <2>2, <2>3, <2>4
<1>6. table2[s] = {row} /\ row.revision <= row.revision /\ \A x \in Sessions : x # s => table2[x] = table[x]
  <2>1. row.revision \in Int
    <3>1. was.revision \in Nat /\ row.revision = was.revision + 1
      BY Zenon DEF Supersedes
    <3> QED
      BY <3>1
  <2>2. row.revision <= row.revision
    BY <2>1
  <2> QED
    BY Zenon, <2>2 DEF Supersedes
<1>7. ASSUME NEW x \in new
      PROVE  /\ x.session \in drawn
             /\ \A a \in table2[x.session] : x.revision <= a.revision /\ (x.revision = a.revision => x.tokens = a.tokens)
  <2>1. CASE x = y
    BY Zenon, <1>1, <1>6, <2>1
  <2>2. CASE x \in old /\ x.session = s
    BY Zenon, <1>3, <1>6, <2>2
  <2>3. CASE x \in old /\ x.session # s
    <3>1. x.session \in drawn /\ table2[x.session] = table[x.session]
      BY Zenon, <1>6, <2>3 DEF Coherent
    <3> QED
      BY Zenon, <2>3, <3>1 DEF Coherent
  <2> QED
    BY Zenon, <1>4, <2>1, <2>2, <2>3
<1>8. ASSUME NEW x \in Sessions PROVE (\A a, b \in table2[x] : a = b) /\ (x \notin drawn => table2[x] = {})
  <2>1. CASE x = s
    BY Zenon, <1>6, <2>1
  <2>2. CASE x # s
    BY Zenon, <1>6, <2>2 DEF Coherent
  <2> QED
    BY Zenon, <2>1, <2>2
<1> QED
  BY Zenon, <1>5, <1>7, <1>8 DEF Coherent

(* Revisions of readings are numbers.                                       *)
LEMMA ReadingsTyped ==
  ASSUME SerialInv, NEW x \in Readings(requests, served)
  PROVE  x.revision \in Nat
<1>1. CASE x \in served
  BY <1>1 DEF SerialInv, Typed
<1>2. ASSUME NEW q \in Requests, NEW row \in Held(requests[q]), x = Reading(requests[q].session, row) PROVE x.revision \in Nat
  <2>1. requests[q] \in RequestSet
    BY Zenon DEF SerialInv, Typed
  <2>2. row \in SessionRows
    BY Zenon, <2>1 DEF Held, RequestSet
  <2> QED
    BY Zenon, <1>2, <2>2 DEF Reading, SessionRows
<1> QED
  BY <1>1, <1>2 DEF Readings

(* A refresh that is stored, or finds a later revision and starts again.    *)
LEMMA UpdateKeeps ==
  ASSUME SerialInv, NEW r \in Requests, NEW answered \in BOOLEAN, Update(r, answered)
  PROVE  SerialInv'
<1> DEFINE o == requests[r]
           s == o.session
           base == Updatable(s, o.principal, o.record.revision)
<1>1. /\ Typed /\ o \in RequestSet /\ RequestHolds(o, logins, minted, sessions) /\ requests \in [Requests -> RequestSet] /\ audit \in Audits
      /\ o.phase = "update" /\ sessions \in [Sessions -> SUBSET SessionRows] /\ minted \subseteq Sessions
  BY DEF SerialInv, Typed, Update
<1>2. UNCHANGED <<now, logins, issued, minted, audit>> /\ s \in minted /\ s \in Sessions
  BY <1>1 DEF Update, RequestHolds, Using
<1>3. CASE base = {}
  BY <1>1, <1>2, <1>3, PhaseGoes DEF Update
<1>4. CASE base # {}
  <2> DEFINE rev == o.record.revision
             shown == [o.record EXCEPT !.tokens = o.next, !.revision = @ + 1]
  <2>1. PICK was \in base : TRUE
    BY Zenon, <1>4
  <2>2. was \in sessions[s] /\ was.revision = rev /\ base = {was} /\ was \in SessionRows /\ rev \in Nat /\ o.record \in SessionRows /\ o.next \in Tokens
    <3>1. was \in sessions[s] /\ was.revision = rev /\ was \in SessionRows
      BY Zenon, <1>1, <1>2, <2>1 DEF Updatable
    <3>2. \A a, b \in sessions[s] : a = b
      BY Zenon, <1>2 DEF SerialInv, Coherent
    <3>3. base = {was}
      BY Zenon, <2>1, <3>1, <3>2 DEF Updatable
    <3>4. rev \in Nat /\ o.record \in SessionRows /\ o.next \in Tokens
      BY Zenon, <1>1 DEF RequestSet, SessionRows
    <3> QED
      BY Zenon, <3>1, <3>3, <3>4
  <2> DEFINE row == Updated(was, o.next)
  <2>3. row \in SessionRows /\ row.revision = rev + 1 /\ row.tokens = o.next
    <3> DEFINE ab == IF o.next.refresh = 0 THEN Earliest(was.absolute, o.next.expires) ELSE was.absolute
               re == was.revision + 1
    <3>0. was.absolute \in Nat /\ was.revision \in Nat /\ o.next.expires \in Nat /\ 1 \in Nat
      BY Zenon, <2>2, OneIsNat DEF SessionRows, Tokens
    <3>1. ab \in Nat /\ re \in Nat
      BY Zenon, <3>0, LaterIsNat, EarliestIsNat
    <3>2. row = [was EXCEPT !.tokens = o.next, !.revision = re, !.absolute = ab]
      BY DEF Updated
    <3> HIDE DEF ab, re, row
    <3>3. row \in SessionRows /\ row.revision = re /\ row.tokens = o.next
      BY Zenon, <2>2, <3>1, <3>2 DEF SessionRows
    <3> QED
      BY Zenon, <2>2, <3>3 DEF re
  <2>4. shown \in SessionRows /\ shown.revision = rev + 1 /\ shown.tokens = o.next
    <3> DEFINE re == rev + 1
    <3>1. re \in Nat /\ shown = [o.record EXCEPT !.tokens = o.next, !.revision = re]
      BY <2>2
    <3> HIDE DEF re, shown
    <3>2. shown \in SessionRows /\ shown.revision = re /\ shown.tokens = o.next
      BY Zenon, <2>2, <3>1 DEF SessionRows
    <3> QED
      BY Zenon, <3>2 DEF re
  <2>5. /\ sessions' = [sessions EXCEPT ![s] = {Updated(x, o.next) : x \in base}]
        /\ (answered /\ Serves(r, shown)) \/ (~answered /\ Falls(r))
    <3>1. CASE answered
      BY Zenon, <1>4, <3>1 DEF Update
    <3>2. CASE ~answered
      BY Zenon, <1>4, <3>2 DEF Update
    <3> QED
      BY <3>1, <3>2
  <2>6. {Updated(x, o.next) : x \in base} = {row}
    BY Zenon, <2>2
  <2>7. Reading(s, shown) = Reading(s, row)
    BY <2>3, <2>4 DEF Reading
  <2> HIDE DEF row, shown
  <2>8. sessions' \in [Sessions -> SUBSET SessionRows] /\ sessions'[s] = {row} /\ \A x \in Sessions : x # s => sessions'[x] = sessions[x]
    BY Zenon, <1>1, <1>2, <2>3, <2>5, <2>6
  <2> DEFINE Fine(n) == /\ requests' = [requests EXCEPT ![r] = n] /\ RequestHolds(n, logins, minted, sessions') /\ Held(n) = {}
                        /\ Consumer(n) => Consumer(requests[r]) /\ n.login = requests[r].login
                        /\ \A p \in Principals : Entering(n, p) => Entering(requests[r], p)
             Known == Readings(requests, served) \union {Reading(s, row)}
  <2>9. /\ served' \subseteq Known /\ served' \subseteq [session : Sessions, revision : Nat, tokens : Tokens]
        /\ \E n \in RequestSet : Fine(n)
    <3>1. CASE Serves(r, shown)
      <4>1. served' = served \union {Reading(s, row)}
        BY Zenon, <1>1, <2>4, <2>7, <3>1, ServedRequest
      <4> QED
        BY Zenon, <1>1, <2>4, <3>1, <4>1, ServedRequest DEF Readings
    <3>2. ASSUME NEW x \in o.fallback, Serves(r, x)
          PROVE  /\ served' \subseteq Known /\ served' \subseteq [session : Sessions, revision : Nat, tokens : Tokens]
                 /\ \E n \in RequestSet : Fine(n)
      <4>1. x \in SessionRows /\ Reading(s, x) \in Readings(requests, served)
        BY <1>1 DEF RequestSet, Readings, Held
      <4>2. served' = served \union {Reading(s, x)}
        BY Zenon, <1>1, <3>2, <4>1, ServedRequest
      <4> QED
        BY Zenon, <1>1, <3>2, <4>1, <4>2, ServedRequest DEF Readings
    <3>3. CASE o.fallback = {} /\ Goes(r, "refused") /\ UNCHANGED served
      <4> DEFINE n == [o EXCEPT !.phase = "refused"]
      <4>1. /\ n \in RequestSet /\ n.phase = "refused" /\ n.kind = o.kind /\ n.login = o.login /\ n.principal = o.principal
            /\ n.session = o.session /\ n.fallback = {}
        BY Zenon, <1>1, <3>3 DEF RequestSet, SigningIn, Using
      <4>2. requests' = [requests EXCEPT ![r] = n]
        BY <3>3 DEF Goes
      <4> HIDE DEF n
      <4>3. RequestHolds(n, logins, minted, sessions') /\ Held(n) = {} /\ (Consumer(n) => Consumer(o))
        BY Zenon, <1>1, <4>1 DEF RequestHolds, Consumer, Held, SigningIn, Using
      <4>4. \A p \in Principals : ~Entering(n, p)
        BY Zenon, <4>1 DEF Entering
      <4>5. Fine(n)
        BY Zenon, <4>1, <4>2, <4>3, <4>4
      <4>6. served' \subseteq Known /\ served' \subseteq [session : Sessions, revision : Nat, tokens : Tokens]
        BY Zenon, <1>1, <3>3 DEF Typed, Readings
      <4> QED
        BY Zenon, <4>1, <4>5, <4>6
    <3> QED
      BY Zenon, <2>5, <3>1, <3>2, <3>3 DEF Falls
  <2>10. PICK n \in RequestSet : Fine(n)
    BY Zenon, <2>9
  <2>11. Typed'
    <3>1. requests' \in [Requests -> RequestSet]
      BY Zenon, <1>1, <2>10
    <3> QED
      BY Zenon, <1>1, <1>2, <2>8, <2>9, <3>1 DEF Typed
  <2>12. Coherent(Readings(requests', served'), sessions', minted')
    <3> DEFINE old == Readings(requests, served)
               new == Readings(requests', served')
               table == sessions'
    <3>1. new \subseteq old \union served'
      BY Zenon, <1>1, <2>10, NoNewReading
    <3>2. Gains(old, new, Reading(s, row))
      BY Zenon, <2>9, <3>1 DEF Readings, Gains
    <3>3. Coherent(old, sessions, minted) /\ Numbered(old)
      BY Zenon, ReadingsTyped DEF SerialInv, Numbered
    <3>4. Supersedes(sessions, table, s, was, row)
      BY Zenon, <2>2, <2>3, <2>8 DEF Supersedes
    <3>5. s \in minted /\ minted \subseteq Sessions
      BY Zenon, <1>1, <1>2
    <3> HIDE DEF old, new, table, s, rev
    <3>6. Coherent(new, table, minted)
      BY Zenon, <3>2, <3>3, <3>4, <3>5, CoherentSuperseded
    <3> QED
      BY Zenon, <1>2, <3>6 DEF new, table
  <2>13. Counted(requests', audit')
    <3>1. Counted(requests, audit) /\ audit' = audit
      BY Zenon, <1>2 DEF SerialInv
    <3> QED
      BY Zenon, <1>1, <2>10, <3>1, CountMove
  <2>14. /\ minted \subseteq minted' /\ \A l \in Logins : logins[l].phase = "consumed" => logins'[l].phase = "consumed"
         /\ \A x \in minted : sessions[x] = {} => sessions'[x] = {}
    BY Zenon, <1>1, <1>2, <2>2, <2>8
  <2>15. RequestHolds(n, logins', minted', sessions')
    BY Zenon, <1>2, <2>10
  <2> QED
    BY Zenon, <2>10, <2>11, <2>12, <2>13, <2>14, <2>15, RequestMoves
<1> QED
  BY <1>3, <1>4


(* What others do to the store, and the clock.                              *)
LEMMA StoreStepKeeps ==
  ASSUME SerialInv, UNCHANGED <<requests, issued, minted, served>>, now' \in Nat, audit' \in Audits, audit'.signIns = audit.signIns,
         logins' \in [Logins -> [phase : {"new", "begun", "consumed"}, expires : Nat]],
         \A l \in Logins : logins[l].phase = "consumed" => logins'[l].phase = "consumed",
         \A s \in Sessions : sessions'[s] \subseteq sessions[s], sessions' \in [Sessions -> SUBSET SessionRows]
  PROVE  SerialInv'
<1>1. Typed /\ minted \subseteq Sessions /\ sessions \in [Sessions -> SUBSET SessionRows]
  BY Zenon DEF SerialInv, Typed
<1>2. Typed'
  BY Zenon, <1>1 DEF Typed
<1>3. \A r \in Requests : RequestHolds(requests'[r], logins', minted', sessions')
  <2> SUFFICES ASSUME NEW r \in Requests PROVE RequestHolds(requests[r], logins', minted, sessions')
    BY Zenon
  <2>1. RequestHolds(requests[r], logins, minted, sessions)
    BY Zenon DEF SerialInv
  <2>2. requests[r].phase = "signed out" => sessions'[requests[r].session] = {}
    BY Zenon, <1>1, <2>1 DEF RequestHolds, Using
  <2>3. Consumer(requests[r]) => logins'[requests[r].login].phase = "consumed"
    BY Zenon, <2>1 DEF RequestHolds
  <2> QED
    BY Zenon, <2>1, <2>2, <2>3 DEF RequestHolds
<1>4. Coherent(Readings(requests', served'), sessions', minted')
  <2> DEFINE old == Readings(requests, served)
  <2>1. Stems(sessions', sessions) /\ OneRow(sessions')
    BY Zenon DEF SerialInv, Coherent, Stems, OneRow
  <2>2. Coherent(old, sessions, minted)
    BY Zenon DEF SerialInv
  <2> HIDE DEF old
  <2>3. Coherent(old, sessions', minted)
    BY Zenon, <1>1, <2>1, <2>2, CoherentStays
  <2> QED
    BY Zenon, <2>3 DEF old
<1>5. Counted(requests', audit')
  BY Zenon DEF SerialInv, Counted
<1> QED
  BY Zenon, <1>2, <1>3, <1>4, <1>5 DEF SerialInv

(* What is revoked is only taken away.                                      *)
LEMMA RevokeKeeps ==
  ASSUME SerialInv, NEW p \in Principals, UNCHANGED sessionVars,
         SetPrincipalStatus(p, "DISABLED") \/ RevokeSessionsForPrincipal(p) \/ RevokeConsoleSessionsForPrincipal(p)
  PROVE  SerialInv'
<1>1. Typed /\ sessions \in [Sessions -> SUBSET SessionRows] /\ audit \in Audits
  BY Zenon DEF SerialInv, Typed
<1>2. audit' \in Audits /\ audit'.signIns = audit.signIns
  <2>1. audit' = audit \/ audit' = [audit EXCEPT !.platform = @ + 1]
    BY DEF SetPrincipalStatus, RevokeSessionsForPrincipal, RevokeConsoleSessionsForPrincipal
  <2> QED
    BY <1>1, <2>1 DEF Audits
<1>3. sessions' = sessions \/ sessions' = withoutSessionsOf(p)
  BY DEF SetPrincipalStatus, RevokeSessionsForPrincipal, RevokeConsoleSessionsForPrincipal
<1>4. (\A s \in Sessions : sessions'[s] \subseteq sessions[s]) /\ sessions' \in [Sessions -> SUBSET SessionRows]
  <2>1. CASE sessions' = sessions
    BY <1>1, <2>1
  <2>2. CASE sessions' = withoutSessionsOf(p)
    <3>1. DOMAIN sessions = Sessions
      BY <1>1
    <3> QED
      BY <1>1, <2>2, <3>1 DEF withoutSessionsOf
  <2> QED
    BY <1>3, <2>1, <2>2
<1>5. /\ UNCHANGED <<requests, issued, minted, served>> /\ now' \in Nat /\ logins' = logins
      /\ logins' \in [Logins -> [phase : {"new", "begun", "consumed"}, expires : Nat]]
  BY Zenon, <1>1 DEF Typed, sessionVars
<1> QED
  BY Zenon, <1>2, <1>4, <1>5, StoreStepKeeps

(* Time passes.                                                             *)
LEMMA TickKeeps ==
  ASSUME SerialInv, Tick
  PROVE  SerialInv'
<1>1. Typed
  BY DEF SerialInv
<1>2. /\ UNCHANGED <<requests, issued, minted, served>> /\ now' \in Nat /\ logins' = logins /\ audit' \in Audits /\ audit' = audit
      /\ logins' \in [Logins -> [phase : {"new", "begun", "consumed"}, expires : Nat]] /\ sessions' = sessions
      /\ sessions' \in [Sessions -> SUBSET SessionRows]
  BY <1>1 DEF Tick, Typed, storeVars
<1> QED
  BY Zenon, <1>2, StoreStepKeeps

(* A login transaction begins.                                              *)
LEMMA BeginLoginKeeps ==
  ASSUME SerialInv, NEW l \in Logins, BeginLogin(l)
  PROVE  SerialInv'
<1>1. Typed /\ logins \in [Logins -> [phase : {"new", "begun", "consumed"}, expires : Nat]] /\ now \in Nat /\ LoginTTL \in Nat
  BY Zenon, TimeBoundsHold DEF SerialInv, Typed, TimeBounds
<1>2. /\ UNCHANGED <<requests, issued, minted, served>> /\ now' \in Nat /\ audit' \in Audits /\ audit' = audit
      /\ sessions' = sessions /\ sessions' \in [Sessions -> SUBSET SessionRows]
  BY Zenon, <1>1 DEF BeginLogin, Typed, storeVars
<1>3. logins[l].phase = "new" /\ logins' = [logins EXCEPT ![l] = [phase |-> "begun", expires |-> now + LoginTTL]]
  BY Zenon DEF BeginLogin, CreateLoginTransaction
<1>4. /\ logins' \in [Logins -> [phase : {"new", "begun", "consumed"}, expires : Nat]]
      /\ \A k \in Logins : logins[k].phase = "consumed" => logins'[k].phase = "consumed"
  BY <1>1, <1>3
<1> QED
  BY Zenon, <1>2, <1>4, StoreStepKeeps


(* Every step of a request.                                                 *)
LEMMA RequestStepKeeps ==
  ASSUME SerialInv, NEW r \in Requests, RequestStep(r)
  PROVE  SerialInv'
<1>1. CASE \E l \in Logins : Callback(r, l)
  BY <1>1, CallbackKeeps
<1>2. ASSUME NEW refreshable \in BOOLEAN, Exchange(r, refreshable) \/ Refresh(r, refreshable) PROVE SerialInv'
  BY Zenon, <1>2, IssueKeeps DEF Exchange, Refresh
<1>3. CASE \E p \in Principals : ResolveOrCreatePrincipal(r, p)
  BY <1>3, PrincipalKeeps
<1>4. ASSUME NEW s \in Sessions, Begin(r, s, "use") \/ Begin(r, s, "logout") PROVE SerialInv'
  BY <1>4, BeginKeeps
<1>10. ASSUME NEW answered \in BOOLEAN, (\E s \in Sessions : Create(r, s, answered)) \/ WriteSecurityAudit(r, answered) \/ Update(r, answered)
       PROVE  SerialInv'
  BY Zenon, <1>10, CreateKeeps, RecordKeeps, UpdateKeeps
<1>5. CASE ExchangeRefused(r) \/ CreateFails(r) \/ WriteFails(r)
  <2>1. ASSUME NEW phase \in {"refused", "undo"}, Only(r, phase), phase = "undo" => requests[r].phase = "record" PROVE SerialInv'
    <3>1. Goes(r, phase) /\ UNCHANGED <<sessions, minted, served, now, audit, issued, logins>>
      BY Zenon, <2>1 DEF Only, storeVars
    <3> QED
      BY Zenon, <2>1, <3>1, PhaseGoes
  <2> QED
    BY Zenon, <1>5, <2>1 DEF ExchangeRefused, CreateFails, WriteFails
<1>6. CASE Enter(r) \/ Resolve(r) \/ Check(r) \/ Unanswered(r)
  BY Zenon, <1>6, EnterKeeps, ResolveKeeps, CheckKeeps, UnansweredKeeps
<1>7. CASE Undo(r)
  <2>1. /\ Goes(r, "refused") /\ UNCHANGED <<minted, now, audit, logins, issued, served>> /\ requests[r].phase = "undo"
        /\ sessions' = sessions \/ sessions' = [sessions EXCEPT ![requests[r].session] = {}]
    BY Zenon, <1>7 DEF Undo
  <2> QED
    BY Zenon, <2>1, DeleteKeeps
<1>8. CASE Logout(r)
  <2>1. UNCHANGED <<minted, now, audit, logins, issued, served>> /\ requests[r].phase = "delete"
    BY Zenon, <1>8 DEF Logout
  <2>2. PICK deleted \in BOOLEAN, recorded \in BOOLEAN :
          /\ sessions' = IF deleted THEN [sessions EXCEPT ![requests[r].session] = {}] ELSE sessions
          /\ Goes(r, IF deleted /\ recorded THEN "signed out" ELSE "refused")
    BY Zenon, <1>8 DEF Logout
  <2>3. CASE deleted /\ recorded
    BY Zenon, <2>1, <2>2, <2>3, DeleteKeeps
  <2>4. CASE ~(deleted /\ recorded)
    <3>1. Goes(r, "refused") /\ (sessions' = sessions \/ sessions' = [sessions EXCEPT ![requests[r].session] = {}])
      BY Zenon, <2>2, <2>4
    <3> QED
      BY Zenon, <2>1, <3>1, DeleteKeeps
  <2> QED
    BY <2>3, <2>4
<1>9. CASE Unavailable(r)
  <2>1. Falls(r) /\ UNCHANGED <<sessions, minted, now, audit, logins, issued>> /\ requests[r].phase \in {"resolve", "check", "refresh", "update"}
    BY Zenon, <1>9 DEF Unavailable, storeVars
  <2>2. sessions' \in [Sessions -> SUBSET SessionRows] /\ Stems(sessions', sessions) /\ OneRow(sessions')
    BY Zenon, <2>1 DEF SerialInv, Typed, Coherent, Stems, OneRow
  <2> QED
    BY Zenon, <2>1, <2>2, FallsKeeps
<1> QED
  BY Zenon, <1>1, <1>2, <1>3, <1>4, <1>5, <1>6, <1>7, <1>8, <1>9, <1>10 DEF RequestStep

(* Every step keeps the invariant.                                          *)
LEMMA SessionStepKeeps == SerialInv /\ [SessionNext]_<<storeVars, sessionVars>> => SerialInv'
<1> SUFFICES ASSUME SerialInv, [SessionNext]_<<storeVars, sessionVars>> PROVE SerialInv'
  OBVIOUS
<1>1. CASE UNCHANGED <<storeVars, sessionVars>>
  BY Zenon, <1>1 DEF SerialInv, Typed, storeVars, sessionVars
<1>2. CASE SessionNext
  BY Zenon, <1>2, TickKeeps, BeginLoginKeeps, RequestStepKeeps, RevokeKeeps DEF SessionNext
<1> QED
  BY <1>1, <1>2

(* The empty database satisfies it.                                         *)
LEMMA SessionsStart == EmptyStore /\ sessions = [s \in Sessions |-> {}] /\ SessionsInit => SerialInv
<1> SUFFICES ASSUME EmptyStore, sessions = [s \in Sessions |-> {}], SessionsInit PROVE SerialInv
  OBVIOUS
<1>1. Fresh \in RequestSet /\ Fresh.kind = "none" /\ Fresh.phase = "new" /\ Fresh.fallback = {} /\ Fresh.session = "none"
  BY Zenon DEF Fresh, RequestSet, NoRow, NoTokens, SessionRows, Tokens
<1>2. \A r \in Requests : requests[r] = Fresh
  BY Zenon DEF SessionsInit
<1>3. Typed
  <2>1. audit \in Audits
    BY Zenon DEF EmptyStore, NoAudit, Audits
  <2> QED
    BY Zenon, <1>1, <2>1 DEF Typed, SessionsInit
<1>4. Held(Fresh) = {} /\ ~Consumer(Fresh) /\ \A p \in Principals : ~Entering(Fresh, p)
  BY Zenon, <1>1 DEF Held, Consumer, Entering, SigningIn
<1>5. \A r \in Requests : RequestHolds(requests[r], logins, minted, sessions)
  BY Zenon, <1>1, <1>2, <1>4 DEF RequestHolds, SigningIn, Using
<1>6. Readings(requests, served) = {}
  BY Zenon, <1>2, <1>4 DEF Readings, SessionsInit
<1>7. Coherent(Readings(requests, served), sessions, minted)
  BY Zenon, <1>6 DEF Coherent, SessionsInit
<1>8. Counted(requests, audit)
  <2> SUFFICES ASSUME NEW p \in Principals
               PROVE  IsFiniteSet({r \in Requests : Entering(requests[r], p)}) /\ Cardinality({r \in Requests : Entering(requests[r], p)}) <= audit.signIns[p]
    BY Zenon DEF Counted
  <2>1. {r \in Requests : Entering(requests[r], p)} = {}
    BY Zenon, <1>2, <1>4
  <2>2. audit.signIns[p] = 0
    BY Zenon DEF EmptyStore, NoAudit
  <2> QED
    BY Zenon, <2>1, <2>2, FS_EmptySet, NothingAtMost
<1> QED
  BY Zenon, <1>2, <1>3, <1>4, <1>5, <1>7, <1>8 DEF SerialInv

(* What the invariant says of those who are signed in.                      *)
LEMMA SerialIsSerial == SerialInv => SessionsAreSerial
<1> SUFFICES ASSUME SerialInv PROVE SessionsAreSerial
  OBVIOUS
<1> DEFINE callbacks == {r \in Requests : requests[r].kind = "callback" /\ requests[r].session # "none"}
<1>1. \A r, q \in callbacks : requests[r].login = requests[q].login => r = q
  BY Zenon DEF SerialInv, Consumer
<1>2. ASSUME NEW p \in Principals
      PROVE  Cardinality({r \in callbacks : requests[r].phase = "served" /\ requests[r].principal = p}) <= audit.signIns[p]
  <2> DEFINE some == {r \in callbacks : requests[r].phase = "served" /\ requests[r].principal = p}
             entered == {r \in Requests : Entering(requests[r], p)}
  <2>1. some \subseteq entered
    BY Zenon DEF Entering
  <2>2. IsFiniteSet(entered) /\ Cardinality(entered) <= audit.signIns[p]
    BY Zenon DEF SerialInv, Counted
  <2>3. audit.signIns[p] \in Nat
    BY Zenon DEF SerialInv, Typed, Audits
  <2> HIDE DEF some, entered
  <2>4. IsFiniteSet(some) /\ Cardinality(some) <= Cardinality(entered) /\ Cardinality(some) \in Nat /\ Cardinality(entered) \in Nat
    BY Zenon, <2>1, <2>2, FS_Subset, FS_CardinalityType
  <2>5. Cardinality(some) <= audit.signIns[p]
    BY Zenon, <2>2, <2>3, <2>4, AtMostGoesOn
  <2> QED
    BY Zenon, <2>5 DEF some
<1>3. \A r \in Requests : requests[r].phase = "signed out" => sessions[requests[r].session] = {}
  BY Zenon DEF SerialInv, RequestHolds
<1>4. ASSUME NEW one \in served, NEW other \in served, one.session = other.session, one.revision = other.revision PROVE one.tokens = other.tokens
  BY Zenon, <1>4 DEF SerialInv, Coherent, Readings
<1>5. ASSUME NEW one \in served, NEW s \in Sessions, NEW row \in sessions[s], one.session = s, one.revision = row.revision PROVE one.tokens = row.tokens
  BY Zenon, <1>5 DEF SerialInv, Coherent, Readings
<1>6. \A one \in served : \A other \in served \union UNION {{[session |-> s, revision |-> row.revision, tokens |-> row.tokens] :
                                                            row \in sessions[s]} : s \in Sessions} :
        (one.session = other.session /\ one.revision = other.revision) => one.tokens = other.tokens
  <2>1. ASSUME NEW one \in served, NEW s \in Sessions, NEW row \in sessions[s], NEW other,
               other = [session |-> s, revision |-> row.revision, tokens |-> row.tokens],
               one.session = other.session, one.revision = other.revision
        PROVE  one.tokens = other.tokens
    <3>1. other.session = s /\ other.revision = row.revision /\ other.tokens = row.tokens
      BY Zenon, <2>1
    <3> QED
      BY Zenon, <1>5, <2>1, <3>1
  <2>2. ASSUME NEW other \in UNION {{[session |-> s, revision |-> row.revision, tokens |-> row.tokens] :
                                     row \in sessions[s]} : s \in Sessions}
        PROVE  \E s \in Sessions : \E row \in sessions[s] :
                   other = [session |-> s, revision |-> row.revision, tokens |-> row.tokens]
    BY Zenon, <2>2
  <2> DEFINE stored == UNION {{[session |-> s, revision |-> row.revision, tokens |-> row.tokens] : row \in sessions[s]} : s \in Sessions}
  <2>3. ASSUME NEW one \in served, NEW other \in stored, one.session = other.session, one.revision = other.revision
        PROVE  one.tokens = other.tokens
    <3>1. PICK s \in Sessions : \E row \in sessions[s] : other = [session |-> s, revision |-> row.revision, tokens |-> row.tokens]
      BY Zenon, <2>2
    <3>2. PICK row \in sessions[s] : other = [session |-> s, revision |-> row.revision, tokens |-> row.tokens]
      BY Zenon, <3>1
    <3> QED
      BY Zenon, <2>1, <2>3, <3>2
  <2> HIDE DEF stored
  <2>4. \A one \in served : \A other \in served \union stored :
          (one.session = other.session /\ one.revision = other.revision) => one.tokens = other.tokens
    BY Zenon, <1>4, <2>3
  <2> QED
    BY Zenon, <2>4 DEF stored
<1> QED
  BY Zenon, <1>1, <1>2, <1>3, <1>6 DEF SessionsAreSerial, SignInsAreAccounted

(* However many requests sign in, refresh and sign out at once, and         *)
(* whatever times out in between: a login transaction leads to one session, *)
(* nobody is let in whose sign-in is not on record, readings of one         *)
(* revision of a session show one token set, and a session whose logout was *)
(* confirmed does not come back (authflow/manager.go and                    *)
(* postgres/session_store.go).                                              *)
THEOREM SessionsStaySerial == SessionSpec => []SessionsAreSerial
BY SessionsStart, SessionStepKeeps, SerialIsSerial, PTL DEF SessionSpec

---------------------------------------------------------------------------
(* The catalogue.                                                           *)

(* The revisions of the descriptors of an inventory that a filter keeps.    *)
Kept(i, filter) == Column(filterDescriptors(i.descriptors, filter), "revision")

(* Nothing that is stored is in conflict with the rest, and what is stored  *)
(* was a deployment's and valid.                                            *)
DescriptorsHold(rows) ==
    \A d, e \in rows : d.revision = e.revision \/ <<d.name, d.artifact>> = <<e.name, e.artifact>> => d = e
InventoriesHold(rows, descriptors) ==
    /\ \A row \in rows : row.inventory \in Inventories /\ Range(row.inventory.descriptors) \subseteq descriptors
    /\ \A row, other \in rows : row.inventory.revision = other.inventory.revision => row = other
ServersHold(servers, active) ==
    /\ DOMAIN servers = Servers
    /\ \A s \in Servers : /\ \A i \in servers[s].inventory : i \in Inventories /\ SnapshotValid(i)
                          /\ servers[s].pc = "serving" => active # {}
(* What a client has received is a beginning of one inventory's listing; it *)
(* has a token for the rest, unless that was all.                           *)
Received(l, i, n) ==
    /\ l.of = {i.revision} /\ n \in Nat /\ n <= Len(Kept(i, l.filter))
    /\ l.seen = SubSeq(Kept(i, l.filter), 1, n)
    /\ l.token = {[filter |-> l.filter, inventory |-> i.revision, cursor |-> c] : c \in {n} \ {Len(Kept(i, l.filter))}}
ListingHolds(l, rows) == l = NoListing \/ \E row \in rows, n \in Nat : Received(l, row.inventory, n)

CatalogInv ==
    /\ DescriptorsHold(descriptorRows) /\ InventoriesHold(inventoryRows, descriptorRows)
    /\ activation \subseteq {row.inventory.revision : row \in inventoryRows}
    /\ ServersHold(server, activation) /\ ListingHolds(listing, inventoryRows)

(* A filtered listing is a sequence.                                        *)
LEMMA KeptIs ==
    ASSUME NEW i \in Inventories, NEW filter
    PROVE  /\ Kept(i, filter) \in Seq({Kept(i, filter)[k] : k \in DOMAIN Kept(i, filter)})
           /\ Len(filterDescriptors(i.descriptors, filter)) = Len(Kept(i, filter))
<1> DEFINE S == {k \in DOMAIN i.descriptors : /\ Range(filter[1]) \subseteq Range(i.descriptors[k].roles)
                                              /\ Range(filter[2]) \subseteq Range(i.descriptors[k].capabilities)}
           n == Cardinality(S)
           all == filterDescriptors(i.descriptors, filter)
<1>1. n \in Nat
  <2>1. i.descriptors \in Seq(Range(i.descriptors))
    BY Zenon, CatalogAssumption DEF Range
  <2>2. IsFiniteSet(DOMAIN i.descriptors)
    BY Zenon, <2>1, LengthIsNat
  <2>3. IsFiniteSet(S)
    <3>1. S \subseteq DOMAIN i.descriptors
      BY Zenon
    <3> HIDE DEF S
    <3> QED
      BY Zenon, <2>2, <3>1, FS_Subset
  <2> HIDE DEF S
  <2> QED
    BY Zenon, <2>3, FS_CardinalityType
<1>2. DOMAIN Ascending(S) = 1 .. n
  BY Zenon DEF Ascending, SortedBy
<1>3. all = [k \in 1 .. n |-> i.descriptors[Ascending(S)[k]]]
  BY Zenon, <1>2 DEF filterDescriptors
<1> HIDE DEF n, all, S
<1>4. Kept(i, filter) = [k \in 1 .. n |-> all[k]["revision"]]
  BY Zenon, <1>3 DEF Kept, Column, all
<1>5. Len(all) = n /\ Len(Kept(i, filter)) = n /\ DOMAIN Kept(i, filter) = 1 .. n
  <2>1. all = [k \in 1 .. n |-> all[k]] /\ Kept(i, filter) = [k \in 1 .. n |-> Kept(i, filter)[k]]
    BY Zenon, <1>3, <1>4
  <2> QED
    BY Zenon, <1>1, <2>1, PositionsMakeAListing
<1>6. Kept(i, filter) \in Seq({Kept(i, filter)[k] : k \in DOMAIN Kept(i, filter)})
  <2>1. Kept(i, filter) = [k \in 1 .. n |-> Kept(i, filter)[k]]
    BY Zenon, <1>4
  <2> QED
    BY Zenon, <1>1, <2>1, PositionsMakeAListing
<1> QED
  BY Zenon, <1>5, <1>6 DEF all

(* A page goes on where the one before ended.                               *)
LEMMA PagesJoin ==
    ASSUME NEW S, NEW s \in Seq(S), NEW n \in Nat, NEW m \in Nat, n <= m, m <= Len(s)
    PROVE  SubSeq(s, 1, n) \o SubSeq(s, n + 1, m) = SubSeq(s, 1, m)
  OBVIOUS

(* All pages are the whole listing.                                         *)
LEMMA AllPages ==
    ASSUME NEW S, NEW s \in Seq(S)
    PROVE  SubSeq(s, 1, Len(s)) = s
  OBVIOUS

(* The descriptors of one valid inventory are in no conflict.               *)
LEMMA OneInventory ==
    ASSUME NEW i \in Inventories, SnapshotValid(i)
    PROVE  DescriptorsHold(Range(i.descriptors))
<1> DEFINE D == i.descriptors
<1>1. /\ \A k, l \in DOMAIN D : k < l => D[k].name < D[l].name
      /\ \A k, l \in DOMAIN D : D[k].revision = D[l].revision => k = l
  BY Zenon DEF SnapshotValid, increasing, IsInjective, Column
<1>2. DOMAIN D = 1 .. Len(D) /\ Len(D) \in Nat /\ \A k \in DOMAIN D : D[k].name \in Nat
  <2>1. D \in Seq(Range(D)) /\ \A k \in DOMAIN D : D[k].name \in Nat
    BY Zenon, CatalogAssumption DEF Range
  <2> QED
    BY Zenon, <2>1, LengthIsNat
<1> HIDE DEF D
<1>3. \A k, l \in DOMAIN D : D[k].name = D[l].name => k = l
  BY <1>1, <1>2
<1>4. ASSUME NEW k \in DOMAIN D, NEW l \in DOMAIN D,
             D[k].revision = D[l].revision \/ <<D[k].name, D[k].artifact>> = <<D[l].name, D[l].artifact>>
      PROVE  D[k] = D[l]
  <2>1. D[k].revision = D[l].revision \/ D[k].name = D[l].name
    BY Zenon, <1>4
  <2> QED
    BY Zenon, <1>1, <1>3, <2>1
<1>5. \A d \in Range(D) : \E k \in DOMAIN D : d = D[k]
  BY Zenon DEF Range
<1>6. DescriptorsHold(Range(D))
  <2>1. ASSUME NEW d \in Range(D), NEW e \in Range(D),
               d.revision = e.revision \/ <<d.name, d.artifact>> = <<e.name, e.artifact>>
        PROVE  d = e
    <3>1. PICK k \in DOMAIN D : d = D[k]
      BY Zenon, <1>5
    <3>2. PICK l \in DOMAIN D : e = D[l]
      BY Zenon, <1>5
    <3> QED
      BY Zenon, <1>4, <2>1, <3>1, <3>2
  <2> QED
    BY Zenon, <2>1 DEF DescriptorsHold
<1> QED
  BY Zenon, <1>6 DEF D

(* An activation is in no conflict with what is stored.                     *)
LEMMA ActivateKeeps ==
    ASSUME CatalogInv, NEW i \in Inventories, SnapshotValid(i), NEW at, NEW event, Activate(i, at, event)
    PROVE  /\ DescriptorsHold(descriptorRows') /\ InventoriesHold(inventoryRows', descriptorRows')
           /\ activation' \subseteq {row.inventory.revision : row \in inventoryRows'}
           /\ activation' # {} /\ inventoryRows \subseteq inventoryRows'
<1>0. Accepts(i) /\ descriptorRows' = descriptorRows \cup Range(i.descriptors) /\ activation' = {i.revision}
  BY Zenon DEF Activate
<1>1. DescriptorsHold(descriptorRows')
  <2>1. ASSUME NEW d \in descriptorRows, NEW e \in Range(i.descriptors),
               d.revision = e.revision \/ <<d.name, d.artifact>> = <<e.name, e.artifact>>
        PROVE  d = e
    BY Zenon, <1>0, <2>1 DEF Accepts, insertDescriptor
  <2>2. DescriptorsHold(descriptorRows) /\ DescriptorsHold(Range(i.descriptors))
    BY Zenon, OneInventory DEF CatalogInv
  <2> QED
    BY Zenon, <1>0, <2>1, <2>2 DEF DescriptorsHold
<1>2. \/ inventoryRows' = inventoryRows \cup {[inventory |-> i, at |-> at]}
      \/ inventoryRows' = inventoryRows /\ \E row \in inventoryRows : row.inventory = i
  BY Zenon DEF Activate
<1>3. \A row \in inventoryRows' : row \in inventoryRows \/ row.inventory = i
  <2> DEFINE stored == [inventory |-> i, at |-> at]
  <2>1. stored.inventory = i
    BY Zenon
  <2>2. inventoryRows' \subseteq inventoryRows \cup {stored}
    BY Zenon, <1>2
  <2> HIDE DEF stored
  <2> QED
    BY Zenon, <2>1, <2>2
<1>4. \A row, other \in inventoryRows' : row \notin inventoryRows /\ other \notin inventoryRows => row = other
  BY Zenon, <1>2
<1>5. \A row \in inventoryRows : row.inventory.revision = i.revision => row.inventory = i
  BY Zenon, <1>0 DEF Accepts, insertInventory
<1>6. \A row \in inventoryRows' : row \notin inventoryRows => \A other \in inventoryRows : other.inventory # i
  BY Zenon, <1>2 DEF Activate
<1>7. InventoriesHold(inventoryRows', descriptorRows')
  <2>1. InventoriesHold(inventoryRows, descriptorRows)
    BY Zenon DEF CatalogInv
  <2>2. \A row \in inventoryRows' : row.inventory \in Inventories /\ Range(row.inventory.descriptors) \subseteq descriptorRows'
    BY Zenon, <1>0, <1>3, <2>1 DEF InventoriesHold
  <2>3. \A row, other \in inventoryRows' : row.inventory.revision = other.inventory.revision => row = other
    BY Zenon, <1>3, <1>4, <1>5, <1>6, <2>1 DEF InventoriesHold
  <2> QED
    BY Zenon, <2>2, <2>3 DEF InventoriesHold
<1>8. \E row \in inventoryRows' : row.inventory = i
  <2>1. CASE inventoryRows' = inventoryRows \cup {[inventory |-> i, at |-> at]}
    <3>1. [inventory |-> i, at |-> at] \in inventoryRows' /\ [inventory |-> i, at |-> at].inventory = i
      BY Zenon, <2>1
    <3> QED
      BY Zenon, <3>1
  <2> QED
    BY Zenon, <1>2, <2>1
<1> QED
  BY Zenon, <1>0, <1>1, <1>2, <1>7, <1>8

(* What a client has received was stored, and stays so.                     *)
LEMMA ListingStays ==
    ASSUME NEW l, NEW rows, NEW more, ListingHolds(l, rows), rows \subseteq more
    PROVE  ListingHolds(l, more)
  BY Zenon DEF ListingHolds

(* A page is one more piece of the listing it continues, or the first of a  *)
(* new one.                                                                 *)
LEMMA PageKeeps ==
    ASSUME CatalogInv, NEW filter, NEW resume \in BOOLEAN, ListConnectorDescriptors(filter, resume)
    PROVE  ListingHolds(listing', inventoryRows)
<1> DEFINE filtered(i) == filterDescriptors(i.descriptors, filter)
           end(i, cursor) == IF cursor + CatalogPage < Len(filtered(i)) THEN cursor + CatalogPage ELSE Len(filtered(i))
           Page(i, cursor, before, of) ==
               [filter |-> filter,
                token |-> {[filter |-> filter, inventory |-> i.revision, cursor |-> c] :
                               c \in {end(i, cursor)} \ {Len(filtered(i))}},
                seen |-> before \o SubSeq(Column(filtered(i), "revision"), cursor + 1, end(i, cursor)),
                of |-> of \cup {i.revision}]
<1>1. PICK i \in Current :
          \/ listing' = Page(i, 0, <<>>, {})
          \/ \E token \in listing.token :
                TokenAccepted(token, filter, i) /\ listing' = Page(i, token.cursor, listing.seen, listing.of)
  BY Zenon DEF ListConnectorDescriptors
<1>2. PICK row \in inventoryRows : row.inventory = i /\ i \in Inventories
  BY Zenon DEF Current, CatalogInv, InventoriesHold
<1>3. /\ Kept(i, filter) \in Seq({Kept(i, filter)[k] : k \in DOMAIN Kept(i, filter)})
      /\ Len(filtered(i)) = Len(Kept(i, filter))
  BY Zenon, <1>2, KeptIs
<1>4. ASSUME NEW cursor \in Nat, cursor <= Len(filtered(i)), NEW before, NEW of,
             before = SubSeq(Kept(i, filter), 1, cursor), of \subseteq {i.revision},
             listing' = Page(i, cursor, before, of)
      PROVE  ListingHolds(listing', inventoryRows)
  <2> DEFINE e == end(i, cursor)
  <2>0. Len(Kept(i, filter)) \in Nat
    BY Zenon, <1>3, LengthIsNat
  <2>1. e \in Nat /\ cursor <= e /\ e <= Len(Kept(i, filter))
    BY Zenon, <1>3, <1>4, <2>0, PageEnds
  <2>2. /\ listing'.filter = filter /\ listing'.of = of \cup {i.revision}
        /\ listing'.token = {[filter |-> filter, inventory |-> i.revision, cursor |-> c] : c \in {e} \ {Len(filtered(i))}}
        /\ listing'.seen = before \o SubSeq(Kept(i, filter), cursor + 1, e)
    BY Zenon, <1>4 DEF Kept
  <2> HIDE DEF e, filtered, Page, end
  <2>3. listing'.seen = SubSeq(Kept(i, filter), 1, e)
    BY Zenon, <1>3, <1>4, <2>1, <2>2, PagesJoin
  <2>4. listing'.of = {i.revision}
    BY Zenon, <1>4, <2>2
  <2>5. Received(listing', i, e)
    BY Zenon, <1>3, <2>1, <2>2, <2>3, <2>4 DEF Received
  <2> QED
    BY Zenon, <1>2, <2>1, <2>5 DEF ListingHolds
<1>5. CASE listing' = Page(i, 0, <<>>, {})
  <2>1. <<>> = SubSeq(Kept(i, filter), 1, 0) /\ 0 <= Len(filtered(i)) /\ 0 \in Nat
    BY <1>3
  <2> HIDE DEF filtered, Page, end
  <2> QED
    BY Zenon, <1>4, <1>5, <2>1
<1>6. ASSUME NEW token \in listing.token, TokenAccepted(token, filter, i),
             listing' = Page(i, token.cursor, listing.seen, listing.of)
      PROVE  ListingHolds(listing', inventoryRows)
  <2>1. listing # NoListing
    BY Zenon, <1>6, NoTokenYet
  <2>2. PICK other \in inventoryRows, n \in Nat : Received(listing, other.inventory, n)
    BY Zenon, <2>1 DEF CatalogInv, ListingHolds
  <2>3. token = [filter |-> listing.filter, inventory |-> other.inventory.revision, cursor |-> n]
    BY Zenon, <2>2 DEF Received
  <2>4. token.filter = listing.filter /\ token.inventory = other.inventory.revision /\ token.cursor = n
    BY Zenon, <2>3
  <2>5. listing.filter = filter /\ other.inventory.revision = i.revision
    BY Zenon, <1>6, <2>4 DEF TokenAccepted
  <2>6. other.inventory = i
    BY Zenon, <1>2, <2>5 DEF CatalogInv, InventoriesHold
  <2>7. /\ listing.seen = SubSeq(Kept(i, filter), 1, n) /\ n <= Len(Kept(i, filter))
        /\ listing.of = {i.revision}
    BY Zenon, <2>2, <2>5, <2>6 DEF Received
  <2> HIDE DEF filtered, Page, end
  <2> QED
    BY Zenon, <1>3, <1>4, <1>6, <2>4, <2>7
<1> HIDE DEF filtered, Page, end
<1> QED
  BY Zenon, <1>1, <1>5, <1>6

(* A server goes to another state that holds.                               *)
LEMMA ServerMoves ==
    ASSUME NEW s \in Servers, NEW to, NEW active, ServersHold(server, activation), server' = [server EXCEPT ![s] = to],
           activation # {} => active # {},
           \A i \in to.inventory : i \in Inventories /\ SnapshotValid(i), to.pc = "serving" => active # {}
    PROVE  ServersHold(server', active)
<1>1. DOMAIN server' = Servers /\ \A u \in Servers : server'[u] = IF u = s THEN to ELSE server[u]
  BY Zenon DEF ServersHold
<1> QED
  BY Zenon, <1>1 DEF ServersHold

(* No step of a server or a client disturbs the invariant of the catalogue. *)
LEMMA CatalogStepKeeps ==
    ASSUME CatalogInv, [CatalogNext]_catalogVars PROVE CatalogInv'
<1>d. Down.pc = "down" /\ Down.inventory = {} /\ Serving.pc = "serving" /\ Serving.inventory = {}
  BY DEF Down, Serving
<1>h. ServersHold(server, activation) /\ ListingHolds(listing, inventoryRows)
  BY Zenon DEF CatalogInv
<1>1. ASSUME NEW s \in Servers, NEW i \in Inventories, reconcileCompilerCatalog(s, i) PROVE CatalogInv'
  <2> DEFINE to == [pc |-> "reconcile", inventory |-> {i}, old |-> activation, at |-> starts + 1]
  <2>1. server' = [server EXCEPT ![s] = to] /\ SnapshotValid(i)
        /\ UNCHANGED <<descriptorRows, inventoryRows, activation, listing>>
    BY Zenon, <1>1 DEF reconcileCompilerCatalog, Validate
  <2>2. to.inventory = {i} /\ to.pc # "serving"
    BY Zenon
  <2> HIDE DEF to
  <2>3. ServersHold(server', activation)
    BY Zenon, <1>h, <2>1, <2>2, ServerMoves
  <2> QED
    BY Zenon, <2>1, <2>3 DEF CatalogInv
<1>2. ASSUME NEW s \in Servers, CompilerUnavailable(s) PROVE CatalogInv'
  <2>1. server' = [server EXCEPT ![s] = Serving] /\ Current # {}
        /\ UNCHANGED <<descriptorRows, inventoryRows, activation, listing>>
    BY Zenon, <1>2 DEF CompilerUnavailable
  <2>2. activation # {}
    BY Zenon, <2>1 DEF Current
  <2>3. ServersHold(server', activation)
    BY Zenon, <1>d, <1>h, <2>1, <2>2, ServerMoves
  <2> QED
    BY Zenon, <2>1, <2>3 DEF CatalogInv
<1>3. ASSUME NEW s \in Servers, Reconcile(s) PROVE CatalogInv'
  <2>1. CASE /\ server' = [server EXCEPT ![s] = Down]
             /\ UNCHANGED <<descriptorRows, inventoryRows, activation, listing>>
    <3>1. ServersHold(server', activation)
      BY Zenon, <1>d, <1>h, <2>1, ServerMoves
    <3> QED
      BY Zenon, <2>1, <3>1 DEF CatalogInv
  <2>2. ASSUME NEW i \in server[s].inventory, NEW event, Activate(i, server[s].at, event),
               server' = [server EXCEPT ![s] = Serving], listing' = listing
        PROVE  CatalogInv'
    <3>1. i \in Inventories /\ SnapshotValid(i)
      BY Zenon, <1>h, <2>2 DEF ServersHold
    <3>2. /\ DescriptorsHold(descriptorRows') /\ InventoriesHold(inventoryRows', descriptorRows')
          /\ activation' \subseteq {row.inventory.revision : row \in inventoryRows'}
          /\ activation' # {} /\ inventoryRows \subseteq inventoryRows'
      BY Zenon, <2>2, <3>1, ActivateKeeps
    <3>3. ServersHold(server', activation')
      BY Zenon, <1>d, <1>h, <2>2, <3>2, ServerMoves
    <3>4. ListingHolds(listing', inventoryRows')
      BY Zenon, <1>h, <2>2, <3>2, ListingStays
    <3> QED
      BY Zenon, <3>2, <3>3, <3>4 DEF CatalogInv
  <2> QED
    BY Zenon, <1>3, <2>1, <2>2 DEF Reconcile
<1>4. ASSUME NEW s \in Servers, StopServer(s) PROVE CatalogInv'
  <2>1. server' = [server EXCEPT ![s] = Down]
        /\ UNCHANGED <<descriptorRows, inventoryRows, activation, listing>>
    BY Zenon, <1>4 DEF StopServer
  <2>2. ServersHold(server', activation)
    BY Zenon, <1>d, <1>h, <2>1, ServerMoves
  <2> QED
    BY Zenon, <2>1, <2>2 DEF CatalogInv
<1>5. ASSUME NEW filter \in Filters, NEW resume \in BOOLEAN, ListConnectorDescriptors(filter, resume) PROVE CatalogInv'
  <2>1. UNCHANGED <<descriptorRows, inventoryRows, activation, server>>
    BY Zenon, <1>5 DEF ListConnectorDescriptors
  <2>2. ListingHolds(listing', inventoryRows)
    BY Zenon, <1>5, PageKeeps
  <2> QED
    BY Zenon, <2>1, <2>2 DEF CatalogInv
<1>6. CASE UNCHANGED catalogVars
  BY Zenon, <1>6 DEF CatalogInv, catalogVars
<1> QED
  BY Zenon, <1>1, <1>2, <1>3, <1>4, <1>5, <1>6 DEF CatalogNext

(* The invariant makes the catalogue whole.                                 *)
LEMMA InvIsWhole ==
    ASSUME CatalogInv PROVE CatalogueIsWhole
<1>1. ASSUME listing.of # {}, listing.token = {}
      PROVE  \E row \in inventoryRows :
                /\ row.inventory.revision \in listing.of
                /\ listing.seen = Column(filterDescriptors(row.inventory.descriptors, listing.filter), "revision")
  <2>1. listing # NoListing
    BY Zenon, <1>1, NothingListed
  <2>2. PICK row \in inventoryRows, n \in Nat : Received(listing, row.inventory, n)
    BY Zenon, <2>1 DEF CatalogInv, ListingHolds
  <2> DEFINE all == Kept(row.inventory, listing.filter)
  <2>3. all \in Seq({all[k] : k \in DOMAIN all})
    <3>1. row.inventory \in Inventories
      BY Zenon DEF CatalogInv, InventoriesHold
    <3> QED
      BY Zenon, <3>1, KeptIs
  <2>4. n = Len(all)
    <3>1. {[filter |-> listing.filter, inventory |-> row.inventory.revision, cursor |-> c] : c \in {n} \ {Len(all)}} = {}
      BY Zenon, <1>1, <2>2 DEF Received
    <3> QED
      BY Zenon, <3>1
  <2>5. listing.seen = SubSeq(all, 1, n) /\ row.inventory.revision \in listing.of
    BY Zenon, <2>2 DEF Received
  <2> HIDE DEF all
  <2>6. listing.seen = all
    BY Zenon, <2>3, <2>4, <2>5, AllPages
  <2> QED
    BY Zenon, <2>5, <2>6 DEF all, Kept
<1>2. DescriptorsHold(descriptorRows) /\ InventoriesHold(inventoryRows, descriptorRows)
  BY Zenon DEF CatalogInv
<1>3. IsInjective([d \in descriptorRows |-> d.revision])
  BY Zenon, <1>2 DEF IsInjective, DescriptorsHold
<1>4. IsInjective([d \in descriptorRows |-> <<d.name, d.artifact>>])
  BY Zenon, <1>2 DEF IsInjective, DescriptorsHold
<1>5. IsInjective([row \in inventoryRows |-> row.inventory.revision])
  BY Zenon, <1>2 DEF IsInjective, InventoriesHold
<1>6. \A row \in inventoryRows : Range(row.inventory.descriptors) \subseteq descriptorRows
  BY Zenon, <1>2 DEF InventoriesHold
<1>7. ASSUME NEW d \in descriptorRows, NEW e \in GetConnectorDescriptor(d.name, {d.revision}) PROVE e = d
  <2>1. PICK i \in ListRecent : e \in Range(i.descriptors) /\ e.revision = d.revision
    BY Zenon, <1>7 DEF GetConnectorDescriptor
  <2>2. \E row \in inventoryRows : row.inventory = i
    BY Zenon, <2>1 DEF ListRecent
  <2>3. e \in descriptorRows
    BY Zenon, <1>6, <2>1, <2>2
  <2> QED
    BY Zenon, <1>2, <2>1, <2>3 DEF DescriptorsHold
<1>8. ASSUME NEW s \in Servers, server[s] = Serving PROVE Current # {}
  <2>1. server[s].pc = "serving"
    BY <1>8 DEF Serving, Down
  <2>2. activation # {}
    BY Zenon, <2>1 DEF CatalogInv, ServersHold
  <2>3. PICK revision \in activation : \E row \in inventoryRows : row.inventory.revision = revision
    BY Zenon, <2>2 DEF CatalogInv
  <2> QED
    BY Zenon, <2>3 DEF Current
<1>9. \A d \in descriptorRows : GetConnectorDescriptor(d.name, {d.revision}) \subseteq {d}
  BY Zenon, <1>7
<1> QED
  BY Zenon, <1>1, <1>3, <1>4, <1>5, <1>6, <1>8, <1>9 DEF CatalogueIsWhole

(* Whichever servers activate whichever inventories, and however clients    *)
(* page through them: nothing that is stored changes its meaning, and a     *)
(* listing that ended is one inventory's, whole and without repetitions     *)
(* (Reconcile, Activate and ListConnectorDescriptors).                      *)
THEOREM CatalogueStaysWhole == CatalogSpec => []CatalogueIsWhole
<1>1. CatalogInit => CatalogInv
  <2> SUFFICES ASSUME CatalogInit PROVE CatalogInv
    OBVIOUS
  <2>1. Down.inventory = {} /\ Down.pc # "serving"
    BY Zenon DEF Down
  <2>2. ServersHold(server, activation)
    BY Zenon, <2>1 DEF CatalogInit, ServersHold
  <2> QED
    BY Zenon, <2>2 DEF CatalogInit, CatalogInv, DescriptorsHold, InventoriesHold, ListingHolds
<1> QED
  BY <1>1, CatalogStepKeeps, InvIsWhole, PTL DEF CatalogSpec

===============================================================================
