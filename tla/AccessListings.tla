----------------------------- MODULE AccessListings -----------------------------
(***************************************************************************)
(* The listings a client pages through while what they list changes:       *)
(* members of a tenant (AccessService.ListMembers) and tenants of a        *)
(* principal (IdentityService.ListTenants) by offset, audit events         *)
(* (AuditService.ListAuditEvents) by a cursor, Jobs of a namespace         *)
(* (JobService.ListJobs) by page number and total.  The authorization of a *)
(* page and the statement that loads it are two steps, and so are the      *)
(* count of the Jobs and the statement that reads their page.  The         *)
(* memberships an authorization rests on are those of its own step.  A     *)
(* token that is forged, expired or of another listing is refused and not  *)
(* modelled.                                                               *)
(***************************************************************************)
EXTENDS AccessControl, SequencesExt

CONSTANTS
    PrincipalOrder, TenantOrder,   \* Principals and Tenants in the order of their identifiers
    Reader, ListedTenant,          \* who lists, and the tenant whose members and events are listed
    PageSize,
    EventIds,                      \* identifiers of audit events, as numbers in their order
    MaxAuditTime,                  \* bound: the clock of the events
    JobNames,                      \* names of Jobs of one namespace, as numbers in their order
    MaximumPageSize

VARIABLES
    listings,    \* the listings by offset
    events,      \* audit events of the tenant: when and under which identifier
    auditClock,
    auditList,   \* the listing by cursor
    stored,      \* names of the Jobs there are
    jobList      \* the listing by page number

jobListVars == <<stored, jobList>>
listingVars == <<listings, events, auditClock, auditList, jobListVars>>

(* A page token: the revision and the page size it is bound to, and where   *)
(* the next page starts.  Clients keep the page size or leave it out.       *)
(* Of every listing it is remembered what there was when it was last looked *)
(* at, and how many of those had gone when it was looked at again.          *)
Sizes == {0, PageSize}
NewListing == [phase |-> "new", token |-> {}, revision |-> {}, size |-> 0, seen |-> <<>>, first |-> {}, rows |-> {}, lost |-> 0]
ListingsInit ==
    /\ listings = [k \in {"members", "tenants"} |-> NewListing]
    /\ events \in SUBSET [at : {0}, id : EventIds] /\ auditClock = 0
    /\ auditList = [phase |-> "new", token |-> {}, seen |-> <<>>, first |-> {}]
    /\ stored \in SUBSET JobNames
    /\ jobList = [phase |-> "new", number |-> 0, size |-> 0, total |-> 0, seen |-> <<>>, first |-> {}, rows |-> {}, lost |-> 0]

---------------------------------------------------------------------------
(* A token stands for one revision of the tenant's policy and one size.     *)
decodeAccessToken(claims, revision, size) == claims.revision = revision /\ claims.size = size
encodeAccessTokenPast(revision, offset, size) == [revision |-> revision, offset |-> offset + 1, size |-> size]
encodeAccessToken(revision, offset, size) == [revision |-> revision, offset |-> offset, size |-> size]
(* The revision of a principal is the same for ever, so this token stands   *)
(* for the size alone.                                                      *)
decodeIdentityToken(claims, size) == claims.size = size

(* The default applies to a first page only.                                *)
EffectiveSize(k, size) == IF size = 0 /\ listings[k].token = {} THEN PageSize ELSE size
Admits(k, revision, size, accepted) ==
    /\ listings[k].phase \in {"new", "next"}
    /\ listings' = IF accepted THEN [listings EXCEPT ![k].phase = "load", ![k].revision = revision, ![k].size = size]
                   ELSE [listings EXCEPT ![k].phase = "refused"]
    /\ UNCHANGED <<storeVars, events, auditClock, auditList, jobListVars>>
(* The interceptor has let the call through, and for members the handler    *)
(* has asked again.                                                         *)
Caller == [active |-> principals[Reader] = "ACTIVE", admin |-> platformRoles[Reader] = "ACTIVE", member |-> Seen(Reader)]
ListMembers(requested) ==
    LET size == EffectiveSize("members", requested)
        revision == CurrentPolicyRevision(ListedTenant)
    IN  Admits("members", revision, size, /\ Authorize(Caller, ListedTenant, Registry["ListMembers"].permission)
                                          /\ \A claims \in listings["members"].token : decodeAccessToken(claims, revision, size))
ListTenants(requested) ==
    LET size == EffectiveSize("tenants", requested)
    IN  Admits("tenants", {}, size, /\ Caller.active /\ principalHasPermission(Caller, Registry["ListTenants"].permission)
                                    /\ \A claims \in listings["tenants"].token : decodeIdentityToken(claims, size))
(* A token that expired, or another failure, ends the listing.              *)
TokenRefused(k) ==
    /\ listings[k].phase \in {"next", "load"}
    /\ listings' = [listings EXCEPT ![k].phase = "refused"] /\ UNCHANGED <<storeVars, events, auditClock, auditList, jobListVars>>

(* The page is cut out of what the statement returns now.                   *)
PageEnd(start, size, length) == IF start + size > length THEN length ELSE start + size
LoadPage(k, items) ==
    LET list == listings[k]
        offset == IF list.token = {} THEN 0 ELSE (CHOOSE claims \in list.token : TRUE).offset
        start == IF offset > Len(items) THEN Len(items) ELSE offset
        end == PageEnd(start, list.size, Len(items))
    IN  /\ list.phase = "load"
        /\ listings' = [listings EXCEPT ![k] =
                           [list EXCEPT !.phase = IF end < Len(items) THEN "next" ELSE "complete",
                                        !.first = IF list.token = {} THEN ToSet(items) ELSE @,
                                        !.token = IF end < Len(items) THEN {encodeAccessToken(list.revision, end, list.size)} ELSE {},
                                        !.seen = @ \o SubSeq(items, start + 1, end),
                                        !.rows = ToSet(items), !.lost = @ + Cardinality(list.rows \ ToSet(items))]]
        /\ UNCHANGED <<storeVars, events, auditClock, auditList, jobListVars>>

(* Every row counts as a member; a tenant only while the membership and the *)
(* tenant are active, or to a platform administrator without a membership.  *)
(* A reader disabled meanwhile has no tenants.                              *)
ListMembersPage == LoadPage("members", SelectSeq(PrincipalOrder, LAMBDA p : p \in LoadTenantMembers(ListedTenant)))
ListTenantsPage ==
    LET shown == {t \in Tenants : Caller.active /\ Seen(Reader)[t].active}
    IN  /\ \A t \in shown : ReadTenant(t) # {}
        /\ LoadPage("tenants", SelectSeq(TenantOrder, LAMBDA t : t \in shown))

---------------------------------------------------------------------------
Newer(e, f) == e.at > f.at \/ (e.at = f.at /\ e.id > f.id)

(* Events behind the cursor, newest first.                                  *)
BehindTimeOnly(cursor) == {e \in events : \A c \in cursor : e.at < c.at}
Behind(cursor) == {e \in events : \A c \in cursor : Newer(c, e)}
ListSecurityAudit(snapshot, cursor, limit) ==
    LET newestFirst == SetToSortSeq({e \in Behind(cursor) : e.at <= snapshot}, Newer)
    IN  SubSeq(newestFirst, 1, IF Len(newestFirst) < limit THEN Len(newestFirst) ELSE limit)

(* The first page fixes the snapshot; the token carries it on, and the      *)
(* event the page ended with.                                               *)
encodeToken(snapshot, last) == [snapshot |-> snapshot, time |-> last.at, event |-> last.id]
decodeToken(claims) == [snapshot |-> claims.snapshot, cursor |-> {[at |-> claims.time, id |-> claims.event]}]
query == IF auditList.token = {} THEN [snapshot |-> auditClock, cursor |-> {}]
         ELSE decodeToken(CHOOSE claims \in auditList.token : TRUE)
(* One page.  The read itself is recorded with the time at which it began,  *)
(* or the page is not given out.                                            *)
ListAuditEvents ==
    LET rows == ListSecurityAudit(query.snapshot, query.cursor, PageSize + 1)
        more == Len(rows) > PageSize
        page == IF more THEN SubSeq(rows, 1, PageSize) ELSE rows
    IN  /\ auditList.phase \in {"new", "next"}
        /\ \/ \E id \in EventIds \ {e.id : e \in events} :
                /\ events' = events \union {[at |-> auditClock, id |-> id]}
                /\ auditList' = [phase |-> IF more THEN "next" ELSE "complete", seen |-> auditList.seen \o page,
                                 token |-> IF more THEN {encodeToken(query.snapshot, page[Len(page)])} ELSE {},
                                 first |-> IF auditList.phase = "new" THEN {e \in events : e.at <= query.snapshot} ELSE auditList.first]
           \/ auditList' = [auditList EXCEPT !.phase = "refused"] /\ UNCHANGED events
        /\ UNCHANGED <<storeVars, listings, auditClock, jobListVars>>

(* Other requests record events, each with a time read before the insert.   *)
RecordEvent(id, at) ==
    /\ at <= auditClock /\ id \notin {e.id : e \in events}
    /\ events' = events \union {[at |-> at, id |-> id]}
    /\ UNCHANGED <<storeVars, listings, auditClock, auditList, jobListVars>>
AuditTick ==
    auditClock < MaxAuditTime /\ auditClock' = auditClock + 1 /\ UNCHANGED <<storeVars, listings, events, auditList, jobListVars>>

---------------------------------------------------------------------------
(* A page as asked for, with its defaults; none when it is out of range.    *)
requestedPage(number, size) ==
    IF number < 0 \/ size < 0 \/ size > MaximumPageSize THEN {}
    ELSE {[number |-> IF number = 0 THEN 1 ELSE number, size |-> IF size = 0 THEN PageSize ELSE size]}

(* The Jobs are counted ...                                                 *)
ListJobs(number, size) ==
    /\ jobList.phase \in {"new", "next"}
    /\ \/ \E page \in requestedPage(number, size) :
            jobList' = [jobList EXCEPT !.phase = "rows", !.number = page.number, !.size = page.size, !.total = Cardinality(stored),
                                       !.first = IF jobList.phase = "new" THEN stored ELSE @,
                                       !.rows = stored, !.lost = @ + Cardinality(jobList.rows \ stored)]
       \/ requestedPage(number, size) = {} /\ jobList' = [jobList EXCEPT !.phase = "refused"]
    /\ UNCHANGED <<storeVars, listings, events, auditClock, auditList, stored>>
(* ... and then the page is read, by name; a client goes on until it has    *)
(* asked for as many as were counted.                                       *)
List ==
    LET byName == SetToSortSeq(stored, <)
        offset == (jobList.number - 1) * jobList.size
    IN  /\ jobList.phase = "rows"
        /\ jobList' = [jobList EXCEPT !.phase = IF offset + jobList.size < jobList.total THEN "next" ELSE "complete",
                                      !.seen = @ \o SubSeq(byName, offset + 1, PageEnd(offset, jobList.size, Len(byName))),
                                      !.rows = stored, !.lost = @ + Cardinality((jobList.rows \ stored) \union (stored \ jobList.rows))]
        /\ UNCHANGED <<storeVars, listings, events, auditClock, auditList, stored>>
(* Jobs come and go.                                                        *)
JobsChange(name) ==
    /\ stored' = IF name \in stored THEN stored \ {name} ELSE stored \union {name}
    /\ UNCHANGED <<storeVars, listings, events, auditClock, auditList, jobList>>

(* The first page, or the next one of the same size.                        *)
JobListStep ==
    \/ jobList.phase = "new" /\ \E number \in -1 .. 1, size \in -1 .. MaximumPageSize + 1 : ListJobs(number, size)
    \/ jobList.phase = "next" /\ ListJobs(jobList.number + 1, jobList.size)
    \/ List \/ \E name \in JobNames : JobsChange(name)
MembersStep == (\E size \in Sizes : ListMembers(size)) \/ ListMembersPage \/ TokenRefused("members")
TenantsStep == (\E size \in Sizes : ListTenants(size)) \/ ListTenantsPage \/ TokenRefused("tenants")
AuditStep == ListAuditEvents \/ AuditTick \/ \E id \in EventIds, at \in 0 .. MaxAuditTime : RecordEvent(id, at)

---------------------------------------------------------------------------
(* A listing paged to its end leaves out no more of what was there at its   *)
(* first page than went away while it was paged, whatever is added          *)
(* meanwhile: a tenant that goes shifts one other past the next offset at   *)
(* most.  Members never go, so all of them are shown, also when roles       *)
(* change.  Audit events appear exactly once and newest first.  For Jobs    *)
(* one that comes between the count and the page counts like one that goes  *)
(* (access_service.go, identity_service.go, audit_service.go,               *)
(* job_service.go:108, job/postgres/repository.go:144).                     *)
ListingsAreComplete ==
    /\ \A list \in {listings[k] : k \in DOMAIN listings} \union {jobList} :
          list.phase = "complete" => Cardinality(list.first \ ToSet(list.seen)) <= list.lost
    /\ listings["members"].lost = 0
    /\ auditList.phase = "complete" => auditList.first \subseteq ToSet(auditList.seen)
    /\ \A i, j \in DOMAIN auditList.seen : i < j => Newer(auditList.seen[i], auditList.seen[j])
=================================================================================
