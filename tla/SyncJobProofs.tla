----------------------------- MODULE SyncJobProofs -----------------------------
(***************************************************************************)
(* The finalizer of a SyncJob holds: a Job that was made from a resource   *)
(* has its resource as long as it exists.                                  *)
(*                                                                         *)
(* The invariant follows the copies of a resource that the cache and a     *)
(* pass of the controller hold: none is newer than what is stored, none    *)
(* has a finalizer or a deletion that is not stored, and one that a Job    *)
(* may be made from is stored still.  The Console's PUT has no finalizers; *)
(* it leaves them in place because the schema refuses its body.            *)
(***************************************************************************)
EXTENDS SyncJobController, FiniteSetTheorems, TLAPS

(* The time an obligation is given; most take a fraction of it.             *)
USE SMTT(30), ZenonT(30)

---------------------------------------------------------------------------
(* The invariant.                                                           *)

JobFields == {"name", "uid", "spec", "version", "desired", "state", "epoch"}
ResourceFields == {"uid", "spec", "state", "finalizer", "deleting", "status", "version"}
ReconcilerFields == {"pc", "name", "resource", "stored", "next", "attempt"}
CallFields == {"pc", "q", "uid", "attempt", "inventory", "spec", "bindings", "read", "tries"}

(* A resource, when n of them were created.                                 *)
IsResource(r, n) ==
    /\ DOMAIN r = ResourceFields
    /\ r.uid \in Int /\ -n <= r.uid /\ r.uid < 0 /\ r.version \in Nat
    /\ r.finalizer \in BOOLEAN /\ r.deleting \in BOOLEAN /\ (r.deleting => r.finalizer)

(* One resource has a name and one a UID.                                   *)
ResourcesHold(res, n) ==
    /\ DOMAIN res = JobNames
    /\ \A name \in JobNames : \A r \in res[name] :
         /\ IsResource(r, n)
         /\ \A other \in JobNames : \A s \in res[other] :
              name = other \/ r.uid = s.uid => name = other /\ r = s

(* r is stored, and c is a copy of it.                                      *)
CopyOf(c, r) ==
    /\ c.version <= r.version /\ (c.version = r.version => c = r)
    /\ (c.deleting => r.deleting) /\ (c.finalizer => r.finalizer)

(* A copy that is held under the name; with a finalizer and not deleted, it *)
(* is of a stored resource.                                                 *)
IsCopy(c, name, res, n) ==
    /\ IsResource(c, n)
    /\ \A other \in JobNames : \A r \in res[other] : r.uid = c.uid => other = name /\ CopyOf(c, r)
    /\ c.finalizer /\ ~c.deleting => \E r \in res[name] : r.uid = c.uid

CacheHolds(copies, res, n) ==
    /\ DOMAIN copies = JobNames
    /\ \A name \in JobNames : \A c \in copies[name] : IsCopy(c, name, res, n) /\ \A d \in copies[name] : d = c

IsJob(j) == DOMAIN j = JobFields /\ j.uid \in Int

(* One Job has a name, and one that has the UID of a resource is held by    *)
(* its finalizer.                                                           *)
JobsHold(js, res) ==
    /\ IsFiniteSet(js)
    /\ \A j \in js :
         /\ IsJob(j)
         /\ \A k \in js : k.name = j.name => k = j
         /\ j.uid < 0 => j.name \in JobNames /\ \E r \in res[j.name] : r.uid = j.uid /\ r.finalizer

(* A pass of the controller with the copy r.                                *)
PassHolds(rec, r, copies, js) ==
    /\ rec.pc \in {"get", "create", "update"} => r.finalizer /\ ~r.deleting
    /\ rec.pc \in {"deletion", "stop", "delete", "finalizer"} => r.deleting
    /\ r.deleting => \A c \in copies[rec.name] : c.uid = r.uid => c.deleting
    /\ rec.pc = "finalizer" => \A j \in js : j.uid # r.uid

ReconcilerHolds(rec, res, copies, js, n) ==
    /\ DOMAIN rec = ReconcilerFields
    /\ rec = Idle \/
         /\ rec.pc \in {"get", "create", "update", "project", "deletion", "stop", "delete", "finalizer"}
         /\ rec.name \in JobNames
         /\ \E r : /\ rec.resource = {r} /\ IsCopy(r, rec.name, res, n)
                   /\ PassHolds(rec, r, copies, js)
         /\ \A j \in rec.stored \cup rec.next : IsJob(j) /\ j.name = rec.name

(* The guarantee of what is created or updated is one of the CRD's.         *)
IsRequest(q) ==
    /\ q.name \in JobNames
    /\ \A s \in q.spec : /\ "delivery" \in DOMAIN s
                         /\ q.kind \in {"CREATE", "UPDATE"} => s.delivery \in Deliveries

IsCall(c) == DOMAIN c = CallFields /\ c.uid \in Int /\ c.uid > 0 /\ IsRequest(c.q)

CallsHold(calls_) ==
    /\ DOMAIN calls_ = Clients
    /\ \A k \in Clients : IsFiniteSet(calls_[k]) /\ \A c \in calls_[k] : IsCall(c)

ControllerInv ==
    /\ created \in Nat
    /\ ResourcesHold(resource, created) /\ CacheHolds(cache, resource, created)
    /\ JobsHold(jobs, resource)
    /\ ReconcilerHolds(reconciler, resource, cache, jobs, created)
    /\ CallsHold(jobCalls) /\ IsFiniteSet(jobTombstones) /\ IsFiniteSet(jobIdempotency)

---------------------------------------------------------------------------
(* Resources.                                                               *)

(* The API generates UIDs above zero: a number is left as long as finitely  *)
(* many are used.                                                           *)
LEMMA FreshNumber ==
    ASSUME NEW used, IsFiniteSet(used)
    PROVE  /\ Cardinality(used) \in Nat
           /\ \E n \in 1 .. (Cardinality(used) + 1) : n \notin used
<1> DEFINE k == Cardinality(used)
<1>1. k \in Nat
  BY Zenon, FS_CardinalityType
<1>2. \E n \in 1 .. (k + 1) : n \notin used
  <2> SUFFICES ASSUME 1 .. (k + 1) \subseteq used PROVE FALSE
    BY Zenon
  <2>1. Cardinality(1 .. (k + 1)) <= k
    BY Zenon, FS_Subset
  <2>2. Cardinality(1 .. (k + 1)) = k + 1
    BY <1>1, FS_Interval
  <2> QED
    BY <1>1, <2>1, <2>2
<1> QED
  BY Zenon, <1>1, <1>2

(* Finitely many have finitely many UIDs.                                   *)
LEMMA ImageIsFinite ==
    ASSUME NEW S, IsFiniteSet(S), NEW T, NEW f \in [S -> T], \A t \in T : \E x \in S : f[x] = t
    PROVE  IsFiniteSet(T)
<1>1. f \in Surjection(S, T)
  BY Zenon DEF Surjection
<1> QED
  BY Zenon, <1>1, FS_Surjection

(* What another version of a resource may be.                               *)
Evolves(r, s) ==
    /\ DOMAIN s = ResourceFields /\ s.uid = r.uid /\ s.version = r.version + 1
    /\ s.finalizer \in BOOLEAN /\ s.deleting \in BOOLEAN /\ (s.deleting => s.finalizer)
    /\ (r.deleting => s.deleting) /\ (r.finalizer => s.finalizer)

(* The resources of a later moment leave the copies what they are and the   *)
(* finalizers in place.                                                     *)
Succeeds(res, n, res2, n2) ==
    /\ n2 \in Nat /\ ResourcesHold(res2, n2)
    /\ \A name \in JobNames : \A c : IsCopy(c, name, res, n) => IsCopy(c, name, res2, n2)
    /\ \A name \in JobNames : \A r \in res[name] :
          r.finalizer => \E s \in res2[name] : s.uid = r.uid /\ s.finalizer

(* A resource gets another version.                                         *)
LEMMA ResourceEvolves ==
    ASSUME NEW res, NEW n \in Nat, ResourcesHold(res, n), NEW name \in JobNames, NEW r \in res[name], NEW s,
           Evolves(r, s)
    PROVE  Succeeds(res, n, [res EXCEPT ![name] = {s}], n)
<1> DEFINE res2 == [res EXCEPT ![name] = {s}]
<1>1. DOMAIN res = JobNames /\ DOMAIN res2 = JobNames /\ IsResource(r, n) /\ res[name] = {r}
  <2>1. \A x \in res[name] : x = r
    BY Zenon DEF ResourcesHold
  <2>2. DOMAIN res = JobNames /\ DOMAIN res2 = JobNames /\ IsResource(r, n)
    BY Zenon DEF ResourcesHold
  <2> QED
    BY Zenon, <2>1, <2>2
<1>2. res2[name] = {s} /\ \A m \in JobNames : m # name => res2[m] = res[m]
  BY Zenon, <1>1
<1> HIDE DEF res2
<1>3. IsResource(s, n)
  BY <1>1 DEF IsResource, Evolves
<1>4. r.version \in Nat /\ s.version = r.version + 1 /\ s.uid = r.uid
  BY Zenon, <1>1 DEF IsResource, Evolves
<1>5. \A m \in JobNames : \A x \in res2[m] : \E y \in res[m] :
          y.uid = x.uid /\ (x = y \/ (m = name /\ x = s /\ y = r))
  BY Zenon, <1>1, <1>2, <1>4
<1>6. ResourcesHold(res2, n)
  <2>1. ASSUME NEW m \in JobNames, NEW x \in res2[m] PROVE IsResource(x, n)
    BY Zenon, <1>2, <1>3, <2>1 DEF ResourcesHold
  <2>2. ASSUME NEW m \in JobNames, NEW x \in res2[m], NEW o \in JobNames, NEW y \in res2[o], m = o \/ x.uid = y.uid
        PROVE  m = o /\ x = y
    <3>1. PICK u \in res[m] : u.uid = x.uid
      BY Zenon, <1>5, <2>2
    <3>2. PICK v \in res[o] : v.uid = y.uid
      BY Zenon, <1>5, <2>2
    <3>3. m = o
      BY Zenon, <2>2, <3>1, <3>2 DEF ResourcesHold
    <3>4. CASE m = name
      <4>1. x \in res2[name] /\ y \in res2[name]
        BY Zenon, <2>2, <3>3, <3>4
      <4> QED
        BY Zenon, <1>2, <3>3, <4>1
    <3>5. CASE m # name
      <4>1. x \in res[m] /\ y \in res[m]
        BY Zenon, <1>2, <2>2, <3>3, <3>5
      <4> QED
        BY Zenon, <3>3, <4>1 DEF ResourcesHold
    <3> QED
      BY Zenon, <3>3, <3>4, <3>5
  <2> QED
    BY Zenon, <1>1, <2>1, <2>2 DEF ResourcesHold
<1>7. ASSUME NEW m \in JobNames, NEW c, IsCopy(c, m, res, n) PROVE IsCopy(c, m, res2, n)
  <2>1. c.version \in Nat
    BY Zenon, <1>7 DEF IsCopy, IsResource
  <2>2. ASSUME NEW o \in JobNames, NEW x \in res2[o], x.uid = c.uid PROVE o = m /\ CopyOf(c, x)
    <3>1. CASE x \in res[o]
      BY Zenon, <1>7, <2>2, <3>1 DEF IsCopy
    <3>2. CASE o = name /\ x = s
      <4>1. name = m /\ CopyOf(c, r)
        BY Zenon, <1>4, <1>7, <2>2, <3>2 DEF IsCopy
      <4>2. c.version <= s.version /\ c.version # s.version
        BY <1>4, <2>1, <4>1 DEF CopyOf
      <4> QED
        BY Zenon, <3>2, <4>1, <4>2 DEF CopyOf, Evolves
    <3> QED
      BY Zenon, <1>1, <1>2, <3>1, <3>2
  <2>3. c.finalizer /\ ~c.deleting => \E x \in res2[m] : x.uid = c.uid
    <3>1. \A x \in res[m] : \E y \in res2[m] : y.uid = x.uid
      BY Zenon, <1>1, <1>2, <1>4
    <3> QED
      BY Zenon, <1>7, <3>1 DEF IsCopy
  <2> QED
    BY Zenon, <1>7, <2>2, <2>3 DEF IsCopy
<1>8. ASSUME NEW m \in JobNames, NEW x \in res[m], x.finalizer
      PROVE  \E y \in res2[m] : y.uid = x.uid /\ y.finalizer
  <2>1. CASE m = name
    <3>1. x = r
      BY Zenon, <1>1, <1>8, <2>1
    <3> QED
      BY Zenon, <1>2, <1>4, <1>8, <2>1, <3>1 DEF Evolves
  <2>2. CASE m # name
    BY Zenon, <1>2, <1>8, <2>2
  <2> QED
    BY Zenon, <2>1, <2>2
<1> QED
  BY Zenon, <1>6, <1>7, <1>8 DEF Succeeds, res2

(* A resource without a finalizer goes.                                     *)
LEMMA ResourceGoes ==
    ASSUME NEW res, NEW n \in Nat, ResourcesHold(res, n), NEW name \in JobNames,
           \A r \in res[name] : ~r.finalizer
    PROVE  Succeeds(res, n, [res EXCEPT ![name] = {}], n)
<1> DEFINE res2 == [res EXCEPT ![name] = {}]
<1>1. DOMAIN res = JobNames /\ DOMAIN res2 = JobNames
  BY Zenon DEF ResourcesHold
<1>2. res2[name] = {} /\ \A m \in JobNames : m # name => res2[m] = res[m]
  BY Zenon, <1>1
<1> HIDE DEF res2
<1>3. \A m \in JobNames : res2[m] \subseteq res[m]
  BY Zenon, <1>2
<1>4. ResourcesHold(res2, n)
  <2>1. ASSUME NEW m \in JobNames, NEW x \in res2[m]
        PROVE  IsResource(x, n) /\ \A o \in JobNames : \A y \in res2[o] : m = o \/ x.uid = y.uid => m = o /\ x = y
    BY ZenonT(60), <1>3, <2>1 DEF ResourcesHold
  <2> QED
    BY Zenon, <1>1, <2>1 DEF ResourcesHold
<1>5. ASSUME NEW m \in JobNames, NEW x \in res[m], x.finalizer PROVE x \in res2[m]
  BY Zenon, <1>2, <1>5
<1>6. ASSUME NEW m \in JobNames, NEW c, IsCopy(c, m, res, n) PROVE IsCopy(c, m, res2, n)
  <2>1. c.finalizer /\ ~c.deleting => \E x \in res2[m] : x.uid = c.uid
    <3>1. ASSUME c.finalizer, ~c.deleting PROVE \E x \in res2[m] : x.uid = c.uid
      <4>1. PICK x \in res[m] : x.uid = c.uid
        BY Zenon, <1>6, <3>1 DEF IsCopy
      <4>2. x.finalizer
        BY Zenon, <1>6, <3>1, <4>1 DEF IsCopy, CopyOf
      <4> QED
        BY Zenon, <1>5, <4>1, <4>2
    <3> QED
      BY Zenon, <3>1
  <2>2. \A o \in JobNames : \A x \in res2[o] : x.uid = c.uid => o = m /\ CopyOf(c, x)
    BY Zenon, <1>3, <1>6 DEF IsCopy
  <2> QED
    BY Zenon, <1>6, <2>1, <2>2 DEF IsCopy
<1> QED
  BY Zenon, <1>4, <1>5, <1>6 DEF Succeeds, res2

(* A resource is created, with a UID no copy has.                           *)
LEMMA ResourceComes ==
    ASSUME NEW res, NEW n \in Nat, ResourcesHold(res, n), NEW name \in JobNames, res[name] = {},
           NEW s, IsResource(s, n + 1), s.uid = ResourceUid(n)
    PROVE  Succeeds(res, n, [res EXCEPT ![name] = {s}], n + 1)
<1> DEFINE res2 == [res EXCEPT ![name] = {s}]
<1>1. DOMAIN res = JobNames /\ DOMAIN res2 = JobNames
  BY Zenon DEF ResourcesHold
<1>2. res2[name] = {s} /\ \A m \in JobNames : m # name => res2[m] = res[m]
  BY Zenon, <1>1
<1> HIDE DEF res2
<1>3. \A r : IsResource(r, n) => IsResource(r, n + 1) /\ r.uid # s.uid
  BY DEF IsResource, ResourceUid
<1>4. ResourcesHold(res2, n + 1)
  <2>1. ASSUME NEW m \in JobNames, NEW x \in res2[m] PROVE IsResource(x, n + 1)
    BY Zenon, <1>2, <1>3, <2>1 DEF ResourcesHold
  <2>2. ASSUME NEW m \in JobNames, NEW x \in res2[m], NEW o \in JobNames, NEW y \in res2[o], m = o \/ x.uid = y.uid
        PROVE  m = o /\ x = y
    <3>1. CASE m = name /\ o = name
      BY Zenon, <1>2, <2>2, <3>1
    <3>2. CASE m # name /\ o # name
      <4>1. x \in res[m] /\ y \in res[o]
        BY Zenon, <1>2, <2>2, <3>2
      <4> QED
        BY Zenon, <2>2, <4>1 DEF ResourcesHold
    <3>3. CASE m = name /\ o # name
      BY Zenon, <1>2, <1>3, <2>2, <3>3 DEF ResourcesHold
    <3>4. CASE m # name /\ o = name
      BY Zenon, <1>2, <1>3, <2>2, <3>4 DEF ResourcesHold
    <3> QED
      BY Zenon, <3>1, <3>2, <3>3, <3>4
  <2> QED
    BY Zenon, <1>1, <2>1, <2>2 DEF ResourcesHold
<1>5. ASSUME NEW m \in JobNames, NEW c, IsCopy(c, m, res, n) PROVE IsCopy(c, m, res2, n + 1)
  <2>1. IsResource(c, n + 1) /\ c.uid # s.uid
    BY Zenon, <1>3, <1>5 DEF IsCopy
  <2>2. \A o \in JobNames : \A x \in res2[o] : x.uid = c.uid => o # name /\ x \in res[o]
    BY Zenon, <1>2, <2>1
  <2>3. \A x \in res[m] : x \in res2[m]
    BY Zenon, <1>2
  <2> QED
    BY Zenon, <1>5, <2>1, <2>2, <2>3 DEF IsCopy
<1>6. \A m \in JobNames : \A x \in res[m] : x \in res2[m]
  BY Zenon, <1>2
<1>7. n + 1 \in Nat
  OBVIOUS
<1> QED
  BY Zenon, <1>4, <1>5, <1>6, <1>7 DEF Succeeds, res2

(* The controller at rest.                                                  *)
LEMMA IdleHolds ==
    \A res, copies, js, n : ReconcilerHolds(Idle, res, copies, js, n)
BY DEF ReconcilerHolds, Idle, ReconcilerFields

(* Only resources change, and the controller goes on or begins again.       *)
LEMMA ResourcesMove ==
    ASSUME ControllerInv, Succeeds(resource, created, resource', created'), CallsHold(jobCalls'),
           UNCHANGED <<cache, jobs, jobTombstones, jobIdempotency>>,
           reconciler' = reconciler \/ reconciler' = Idle
    PROVE  ControllerInv'
<1>1. created' \in Nat /\ ResourcesHold(resource', created')
  BY Zenon DEF Succeeds
<1>2. CacheHolds(cache', resource', created')
  BY Zenon DEF Succeeds, CacheHolds, ControllerInv
<1>3. JobsHold(jobs', resource')
  <2>1. JobsHold(jobs, resource) /\ jobs' = jobs
    BY Zenon DEF ControllerInv
  <2>2. ASSUME NEW j \in jobs, j.uid < 0
        PROVE  j.name \in JobNames /\ \E r \in resource'[j.name] : r.uid = j.uid /\ r.finalizer
    <3>1. PICK r \in resource[j.name] : j.name \in JobNames /\ r.uid = j.uid /\ r.finalizer
      BY Zenon, <2>1, <2>2 DEF JobsHold
    <3>2. PICK s \in resource'[j.name] : s.uid = r.uid /\ s.finalizer
      BY Zenon, <3>1 DEF Succeeds
    <3> QED
      BY Zenon, <3>1, <3>2
  <2> QED
    BY Zenon, <2>1, <2>2 DEF JobsHold
<1>4. ReconcilerHolds(reconciler', resource', cache', jobs', created')
  <2>1. CASE reconciler' = Idle
    BY Zenon, <2>1, IdleHolds
  <2>2. CASE reconciler' = reconciler
    BY Zenon, <2>2 DEF Succeeds, ReconcilerHolds, ControllerInv
  <2> QED
    BY Zenon, <2>1, <2>2
<1>5. IsFiniteSet(jobTombstones') /\ IsFiniteSet(jobIdempotency')
  BY Zenon DEF ControllerInv
<1> QED
  BY Zenon, <1>1, <1>2, <1>3, <1>4, <1>5 DEF ControllerInv

---------------------------------------------------------------------------
(* Jobs.                                                                    *)

(* k is the Job j, perhaps in another state.                                *)
SameJob(j, k) == IsJob(k) /\ k.name = j.name /\ k.uid = j.uid

(* The Jobs of a later moment: new ones are the API's.                      *)
JobsFollow(js, js2) ==
    /\ IsFiniteSet(js2)
    /\ \A j \in js2 :
         /\ IsJob(j) /\ \A k \in js2 : k.name = j.name => k = j
         /\ j.uid > 0 \/ \E i \in js : i.name = j.name /\ i.uid = j.uid

(* What is done to a Job leaves its name and its UID.                       *)
LEMMA JobStays ==
    ASSUME NEW j, IsJob(j)
    PROVE  /\ SameJob(j, j) /\ SameJob(j, Started(j)) /\ SameJob(j, Stopped(j)) /\ SameJob(j, Updated(j))
           /\ \A state : SameJob(j, Advanced(j, state))
           /\ \A spec : SameJob(j, [j EXCEPT !.spec = spec])
BY DEF SameJob, IsJob, JobFields, Started, Stopped, Updated, Advanced

(* A step after a step.                                                     *)
LEMMA SameJobs ==
    ASSUME NEW j, NEW k, NEW l, SameJob(j, k), SameJob(k, l) PROVE SameJob(j, l)
BY Zenon DEF SameJob

(* A new Job.                                                               *)
LEMMA JobRowIs ==
    ASSUME NEW name, NEW uid \in Int, NEW spec
    PROVE  IsJob(JobRow(name, uid, spec)) /\ JobRow(name, uid, spec).name = name /\ JobRow(name, uid, spec).uid = uid
BY DEF IsJob, JobRow, JobFields

(* A Job is written in the place of itself.                                 *)
LEMMA JobReplaced ==
    ASSUME NEW js, NEW res, JobsHold(js, res), NEW j \in js, NEW k, SameJob(j, k), NEW old,
           old \in {{j}, {i \in js : i.name = j.name}}
    PROVE  JobsFollow(js, (js \ old) \cup {k})
<1>1. IsFiniteSet(js \ old)
  BY Zenon, FS_Subset DEF JobsHold
<1>2. IsFiniteSet((js \ old) \cup {k})
  BY Zenon, <1>1, FS_AddElement
<1>3. \A i \in js \ old : i \in js /\ i.name # k.name
  BY Zenon DEF JobsHold, SameJob
<1>4. ASSUME NEW i \in (js \ old) \cup {k}
      PROVE  /\ IsJob(i) /\ \A l \in (js \ old) \cup {k} : l.name = i.name => l = i
             /\ i.uid > 0 \/ \E l \in js : l.name = i.name /\ l.uid = i.uid
  <2>1. CASE i = k
    BY Zenon, <1>3, <2>1 DEF SameJob
  <2>2. CASE i \in js \ old
    BY Zenon, <1>3, <2>2 DEF JobsHold
  <2> QED
    BY Zenon, <2>1, <2>2
<1> QED
  BY Zenon, <1>2, <1>4 DEF JobsFollow

(* Jobs are deleted.                                                        *)
LEMMA JobsGo ==
    ASSUME NEW js, NEW res, JobsHold(js, res), NEW js2, js2 \subseteq js PROVE JobsFollow(js, js2)
<1>1. IsFiniteSet(js2)
  BY Zenon, FS_Subset DEF JobsHold
<1>2. \A j \in js2 : IsJob(j) /\ \A k \in js2 : k.name = j.name => k = j
  BY Zenon DEF JobsHold
<1> QED
  BY Zenon, <1>1, <1>2 DEF JobsFollow

(* A Job with a name that none has joins the others.                        *)
LEMMA JobJoins ==
    ASSUME NEW js, NEW res, JobsHold(js, res), NEW j, IsJob(j), \A i \in js : i.name # j.name
    PROVE  /\ IsFiniteSet(js \cup {j})
           /\ \A k \in js \cup {j} : IsJob(k) /\ \A l \in js \cup {j} : l.name = k.name => l = k
<1>1. IsFiniteSet(js \cup {j})
  BY Zenon, FS_AddElement DEF JobsHold
<1>2. ASSUME NEW k \in js \cup {j} PROVE IsJob(k) /\ \A l \in js \cup {j} : l.name = k.name => l = k
  BY Zenon, <1>2 DEF JobsHold
<1> QED
  BY Zenon, <1>1, <1>2

(* The Jobs that follow are held by the finalizers that held the others,    *)
(* and a pass of the controller is not disturbed.                           *)
LEMMA JobsMove ==
    ASSUME ControllerInv, JobsFollow(jobs, jobs'), UNCHANGED <<resource, cache, created>>
    PROVE  /\ JobsHold(jobs', resource')
           /\ ReconcilerHolds(reconciler, resource', cache', jobs', created')
<1>0. /\ JobsHold(jobs, resource) /\ ReconcilerHolds(reconciler, resource, cache, jobs, created)
      /\ resource' = resource /\ cache' = cache /\ created' = created
  BY Zenon DEF ControllerInv
<1>1. ASSUME NEW u \in Int, u < 0, NEW j \in jobs', j.uid = u PROVE \E i \in jobs : i.name = j.name /\ i.uid = u
  BY <1>1 DEF JobsFollow
<1>2. JobsHold(jobs', resource)
  <2>1. ASSUME NEW j \in jobs', j.uid < 0
        PROVE  j.name \in JobNames /\ \E r \in resource[j.name] : r.uid = j.uid /\ r.finalizer
    <3>1. j.uid \in Int
      BY Zenon, <2>1 DEF JobsFollow, IsJob
    <3>2. PICK i \in jobs : i.name = j.name /\ i.uid = j.uid
      BY Zenon, <1>1, <2>1, <3>1
    <3>3. i.uid < 0
      BY Zenon, <2>1, <3>2
    <3>4. i.name \in JobNames /\ \E r \in resource[i.name] : r.uid = i.uid /\ r.finalizer
      BY Zenon, <1>0, <3>3 DEF JobsHold
    <3> QED
      BY Zenon, <3>2, <3>4
  <2> QED
    BY Zenon, <2>1 DEF JobsHold, JobsFollow
<1>3. ReconcilerHolds(reconciler, resource, cache, jobs', created)
  <2>1. ASSUME NEW r, IsResource(r, created), \A j \in jobs : j.uid # r.uid PROVE \A j \in jobs' : j.uid # r.uid
    <3>1. r.uid \in Int /\ r.uid < 0
      BY Zenon, <2>1 DEF IsResource
    <3> QED
      BY Zenon, <1>1, <2>1, <3>1
  <2>2. \A r : IsCopy(r, reconciler.name, resource, created) /\ PassHolds(reconciler, r, cache, jobs)
                 => PassHolds(reconciler, r, cache, jobs')
    BY Zenon, <2>1 DEF PassHolds, IsCopy
  <2> QED
    BY Zenon, <1>0, <2>2 DEF ReconcilerHolds
<1> QED
  BY Zenon, <1>0, <1>2, <1>3

---------------------------------------------------------------------------
(* The Job API.                                                             *)

(* A call goes on with the UID it has.                                      *)
LEMMA CallsMove ==
    ASSUME CallsHold(jobCalls), NEW client \in Clients, NEW after, jobCalls' = [jobCalls EXCEPT ![client] = after],
           after = {} \/ \E c : after = {c} /\ IsCall(c)
    PROVE  CallsHold(jobCalls')
<1>1. DOMAIN jobCalls' = Clients /\ jobCalls'[client] = after /\ \A k \in Clients : k # client => jobCalls'[k] = jobCalls[k]
  BY Zenon DEF CallsHold
<1>2. IsFiniteSet(after) /\ \A c \in after : IsCall(c)
  <2>1. CASE after = {}
    BY Zenon, <2>1, FS_EmptySet
  <2>2. CASE \E c : after = {c} /\ IsCall(c)
    BY Zenon, <2>2, FS_Singleton
  <2> QED
    BY Zenon, <2>1, <2>2
<1>3. ASSUME NEW k \in Clients
      PROVE  IsFiniteSet(jobCalls'[k]) /\ \A c \in jobCalls'[k] : IsCall(c)
  BY Zenon, <1>1, <1>2 DEF CallsHold
<1> QED
  BY Zenon, <1>1, <1>3 DEF CallsHold

(* The fields of a call that the steps write.                               *)
SameCall(c, d) == DOMAIN d = CallFields /\ d.uid = c.uid /\ d.q = c.q

(* Steps of a call leave the rest of it alone.                              *)
LEMMA CallStays ==
    ASSUME NEW c, DOMAIN c = CallFields, NEW pc, NEW i, NEW s, NEW b, NEW a
    PROVE  /\ SameCall(c, [c EXCEPT !.pc = pc, !.inventory = i, !.bindings = b])
           /\ SameCall(c, [c EXCEPT !.pc = pc, !.spec = s]) /\ SameCall(c, [c EXCEPT !.pc = pc, !.bindings = b])
           /\ SameCall(c, [c EXCEPT !.pc = pc]) /\ SameCall(c, [c EXCEPT !.pc = pc, !.read = i])
           /\ SameCall(c, [c EXCEPT !.pc = pc, !.read = i, !.tries = a])
           /\ SameCall(c, [c EXCEPT !.pc = pc, !.attempt = a, !.inventory = i, !.spec = s, !.bindings = b])
BY DEF CallFields, SameCall

(* A fresh UID is above zero.                                               *)
LEMMA FreshIsPositive ==
    ASSUME ControllerInv PROVE FreshJobUid \in Int /\ FreshJobUid > 0
<1> DEFINE A == {j.uid : j \in jobs}
           B == {row.uid : row \in jobIdempotency}
           C == UNION {jobCalls[k] : k \in Clients}
           D == {c.uid : c \in C}
           used == A \cup jobTombstones \cup B \cup D
<1>1. IsFiniteSet(A) /\ IsFiniteSet(B) /\ IsFiniteSet(jobTombstones)
  <2>1. IsFiniteSet(jobs) /\ IsFiniteSet(jobIdempotency) /\ IsFiniteSet(jobTombstones)
    BY Zenon DEF ControllerInv, JobsHold
  <2> DEFINE f == [j \in jobs |-> j.uid]
             g == [row \in jobIdempotency |-> row.uid]
  <2>2. f \in [jobs -> A] /\ \A t \in A : \E j \in jobs : f[j] = t
    BY Zenon
  <2>3. g \in [jobIdempotency -> B] /\ \A t \in B : \E row \in jobIdempotency : g[row] = t
    BY Zenon
  <2> HIDE DEF A, B, f, g
  <2>4. IsFiniteSet(A)
    BY Zenon, <2>1, <2>2, ImageIsFinite
  <2>5. IsFiniteSet(B)
    BY Zenon, <2>1, <2>3, ImageIsFinite
  <2> QED
    BY Zenon, <2>1, <2>4, <2>5
<1>2. IsFiniteSet(C)
  <2>1. IsFiniteSet({jobCalls[k] : k \in Clients})
    <3>1. [k \in Clients |-> jobCalls[k]] \in [Clients -> {jobCalls[k] : k \in Clients}]
      BY Zenon
    <3>2. \A t \in {jobCalls[k] : k \in Clients} : \E c \in Clients : [k \in Clients |-> jobCalls[k]][c] = t
      BY Zenon
    <3> QED
      BY ZenonT(60), <3>1, <3>2, ImageIsFinite, ControllerAssumption
  <2>2. \A T \in {jobCalls[k] : k \in Clients} : IsFiniteSet(T)
    BY Zenon DEF ControllerInv, CallsHold
  <2> QED
    BY Zenon, <2>1, <2>2, FS_UNION
<1>3. IsFiniteSet(D)
  <2> DEFINE f == [c \in C |-> c.uid]
  <2>1. f \in [C -> D] /\ \A t \in D : \E c \in C : f[c] = t
    BY Zenon
  <2> HIDE DEF C, D, f
  <2> QED
    BY Zenon, <1>2, <2>1, ImageIsFinite
<1>4. IsFiniteSet(used)
  <2>1. IsFiniteSet(A \cup jobTombstones)
    BY Zenon, <1>1, FS_Union
  <2>2. IsFiniteSet(A \cup jobTombstones \cup B)
    BY Zenon, <1>1, <2>1, FS_Union
  <2> QED
    BY Zenon, <1>3, <2>2, FS_Union
<1>5. FreshJobUid = CHOOSE n \in 1 .. (Cardinality(used) + 1) : n \notin used
  BY Zenon DEF FreshJobUid
<1> HIDE DEF used
<1>6. Cardinality(used) \in Nat /\ \E n \in 1 .. (Cardinality(used) + 1) : n \notin used
  BY Zenon, <1>4, FreshNumber
<1>7. FreshJobUid \in 1 .. (Cardinality(used) + 1)
  BY Zenon, <1>5, <1>6
<1> QED
  BY <1>6, <1>7

(* The Jobs follow and calls go on; the controller does nothing.            *)
LEMMA JobsStep ==
    ASSUME ControllerInv, JobsFollow(jobs, jobs'), UNCHANGED controllerVars, CallsHold(jobCalls'),
           IsFiniteSet(jobTombstones'), IsFiniteSet(jobIdempotency')
    PROVE  ControllerInv'
<1>1. UNCHANGED <<resource, cache, created>> /\ reconciler' = reconciler
  BY Zenon DEF controllerVars
<1>2. /\ JobsHold(jobs', resource')
      /\ ReconcilerHolds(reconciler, resource', cache', jobs', created')
  BY Zenon, <1>1, JobsMove
<1> QED
  BY Zenon, <1>1, <1>2 DEF ControllerInv

(* Calls go on.                                                             *)
LEMMA CallsStep ==
    ASSUME ControllerInv, UNCHANGED <<jobs, jobTombstones, jobIdempotency>>, UNCHANGED controllerVars, CallsHold(jobCalls')
    PROVE  ControllerInv'
<1>1. JobsFollow(jobs, jobs')
  BY Zenon, JobsGo DEF ControllerInv
<1> QED
  BY Zenon, <1>1, JobsStep DEF ControllerInv

(* A call begins.                                                           *)
LEMMA JobCallKeeps ==
    ASSUME ControllerInv, NEW client \in Clients, NEW q, q.name \in JobNames,
           \A s, t \in q.spec : s = t /\ "delivery" \in DOMAIN s,
           JobCall(client, q), UNCHANGED controllerVars
    PROVE  ControllerInv'
<1>0. IsRequest(q)
  <2>1. ASSUME q.kind \in {"CREATE", "UPDATE"}, NEW s \in q.spec PROVE s.delivery \in Deliveries
    <3>0. PICK u \in q.spec : fromProtoSpec(u) # {}
      BY Zenon, <2>1 DEF JobCall, RequestValid
    <3>1. PICK d : SpecValid([s EXCEPT !.batch = d])
      <4>1. u = s
        BY Zenon, <2>1, <3>0
      <4>2. PICK x : x \in fromProtoSpec(s)
        BY Zenon, <3>0, <4>1
      <4> QED
        BY Zenon, <4>2 DEF fromProtoSpec
    <3>2. [s EXCEPT !.batch = d].delivery = s.delivery
      OBVIOUS
    <3> QED
      BY Zenon, <3>1, <3>2 DEF SpecValid
  <2> QED
    BY Zenon, <2>1 DEF IsRequest
<1>1. PICK pc : jobCalls' = [jobCalls EXCEPT ![client] =
            {[pc |-> pc, q |-> q, uid |-> FreshJobUid, attempt |-> 0, inventory |-> {}, spec |-> {}, bindings |-> {},
              read |-> {}, tries |-> 0]}]
  BY Zenon DEF JobCall
<1> DEFINE c == [pc |-> pc, q |-> q, uid |-> FreshJobUid, attempt |-> 0, inventory |-> {}, spec |-> {}, bindings |-> {},
                    read |-> {}, tries |-> 0]
<1>2. DOMAIN c = CallFields /\ c.uid = FreshJobUid /\ c.q = q
  BY DEF CallFields
<1> HIDE DEF c
<1>3. IsCall(c)
  BY Zenon, <1>0, <1>2, FreshIsPositive DEF IsCall
<1>4. CallsHold(jobCalls')
  <2>1. jobCalls' = [jobCalls EXCEPT ![client] = {c}]
    BY Zenon, <1>1 DEF c
  <2> QED
    BY Zenon, <1>3, <2>1, CallsMove DEF ControllerInv
<1> QED
  BY Zenon, <1>4, CallsStep DEF JobCall

(* One call changes, and keeps its UID.                                     *)
LEMMA CallChanges ==
    ASSUME CallsHold(jobCalls), NEW client \in Clients, NEW c \in jobCalls[client], NEW d,
           SameCall(c, d), jobCalls' = [jobCalls EXCEPT ![client] = {d}]
    PROVE  CallsHold(jobCalls')
<1>1. IsCall(c)
  BY Zenon DEF CallsHold
<1>2. IsCall(d)
  BY Zenon, <1>1 DEF IsCall, SameCall
<1> QED
  BY Zenon, <1>2, CallsMove

(* A call validates its spec.                                               *)
LEMMA ValidateKeeps ==
    ASSUME ControllerInv, NEW client \in Clients, ValidateForMutation(client), UNCHANGED controllerVars PROVE ControllerInv'
<1>0. CallsHold(jobCalls) /\ \A c \in jobCalls[client] : DOMAIN c = CallFields
  BY Zenon DEF ControllerInv, CallsHold, IsCall
<1>1. \E c \in jobCalls[client] : \E d : SameCall(c, d) /\ jobCalls' = [jobCalls EXCEPT ![client] = {d}]
  <2>1. CASE ReadCatalog(client)
    <3>1. PICK c \in jobCalls[client] : \E i : jobCalls' = [jobCalls EXCEPT ![client] =
              {[c EXCEPT !.pc = "load", !.inventory = {i}, !.bindings = {}]}]
      BY Zenon, <2>1 DEF ReadCatalog
    <3> QED
      BY Zenon, <1>0, <3>1, CallStays
  <2>2. CASE LoadSpec(client)
    <3>1. PICK c \in jobCalls[client] : \E s : jobCalls' = [jobCalls EXCEPT ![client] =
              {[c EXCEPT !.pc = "source", !.spec = s]}]
      BY Zenon, <2>2 DEF LoadSpec
    <3> QED
      BY Zenon, <1>0, <3>1, CallStays
  <2>3. CASE BindRole(client)
    <3>1. PICK c \in jobCalls[client] : \E pc, b : jobCalls' = [jobCalls EXCEPT ![client] =
              {[c EXCEPT !.pc = pc, !.bindings = b]}]
      BY Zenon, <2>3 DEF BindRole
    <3> QED
      BY Zenon, <1>0, <3>1, CallStays
  <2> QED
    BY Zenon, <2>1, <2>2, <2>3 DEF ValidateForMutation
<1>2. CallsHold(jobCalls')
  BY Zenon, <1>0, <1>1, CallChanges
<1> QED
  BY Zenon, <1>2, CallsStep DEF ValidateForMutation

(* A call that finds an answer, or validates once more, or returns.         *)
LEMMA AnswerKeeps ==
    ASSUME ControllerInv, NEW client \in Clients, applyValidatedJobMutation(client) \/ JobReturn(client),
           UNCHANGED controllerVars
    PROVE  ControllerInv'
<1>0. CallsHold(jobCalls) /\ \A c \in jobCalls[client] : DOMAIN c = CallFields
  BY Zenon DEF ControllerInv, CallsHold, IsCall
<1>1. CASE applyValidatedJobMutation(client)
  <2>1. \E c \in jobCalls[client] : \E d : SameCall(c, d) /\ jobCalls' = [jobCalls EXCEPT ![client] = {d}]
    <3>1. PICK c \in jobCalls[client] :
            \/ jobCalls' = [jobCalls EXCEPT ![client] = {[c EXCEPT !.pc = "done"]}]
            \/ jobCalls' = [jobCalls EXCEPT ![client] =
                  {[c EXCEPT !.pc = "validate", !.attempt = 1, !.inventory = {}, !.spec = {}, !.bindings = {}]}]
      BY Zenon, <1>1 DEF applyValidatedJobMutation
    <3> QED
      BY Zenon, <1>0, <3>1, CallStays
  <2>2. CallsHold(jobCalls')
    BY Zenon, <1>0, <2>1, CallChanges
  <2> QED
    BY Zenon, <1>1, <2>2, CallsStep DEF applyValidatedJobMutation
<1>2. CASE JobReturn(client)
  <2>1. CallsHold(jobCalls')
    BY Zenon, <1>0, <1>2, CallsMove DEF JobReturn
  <2> QED
    BY Zenon, <1>2, <2>1, CallsStep DEF JobReturn
<1> QED
  BY Zenon, <1>1, <1>2

(* What a transaction writes: a new Job under a free name with the UID of   *)
(* its call, a Job in the place of itself, or none.                         *)
Mutates(c) ==
    \/ /\ \A i \in jobs : i.name # c.q.name
       /\ \E spec : jobs' = jobs \cup {JobRow(c.q.name, c.uid, spec)}
    \/ \E j \in jobs : \E k : SameJob(j, k) /\ jobs' = (jobs \ {j}) \cup {k}
    \/ jobs' \subseteq jobs

(* The transaction of a call.                                               *)
LEMMA MutationWrites ==
    ASSUME ControllerInv, NEW c, applyJobMutation(c)
    PROVE  /\ Mutates(c)
           /\ \E t : jobTombstones' = jobTombstones \/ jobTombstones' = jobTombstones \cup {t}
           /\ \E row : jobIdempotency' = jobIdempotency \cup {row}
<1>0. \A j \in jobs : IsJob(j)
  BY Zenon DEF ControllerInv, JobsHold
<1>1. CASE createJobMutation(c)
  <2>1. (\A i \in jobs : i.name # c.q.name) /\ \E spec : jobs' = jobs \cup {JobRow(c.q.name, c.uid, spec)}
    <3>1. PICK s \in c.spec : Row(c.q.name) = {} /\ jobs' = (jobs \ {}) \cup {JobRow(c.q.name, c.uid, s)}
      BY Zenon, <1>1 DEF createJobMutation, Wrote
    <3>2. jobs \ {} = jobs
      BY Zenon
    <3> QED
      BY Zenon, <3>1, <3>2 DEF Row
  <2> QED
    BY Zenon, <1>1, <2>1 DEF createJobMutation, Completed, Mutates
<1>2. CASE updateJobMutation(c)
  <2>1. PICK s \in c.spec, j \in Row(c.q.name) : \E replaced \in ReplaceSpec(j, s) : Wrote({j}, {Updated(replaced)})
    BY Zenon, <1>2 DEF updateJobMutation
  <2>2. j \in jobs
    BY Zenon, <2>1 DEF Row
  <2>3. \A x \in ReplaceSpec(j, s) : SameJob(j, x)
    <3>1. \A x \in ReplaceSpec(j, s) : x = [j EXCEPT !.spec = s]
      BY Zenon DEF ReplaceSpec
    <3>2. SameJob(j, [j EXCEPT !.spec = s])
      BY Zenon, <1>0, <2>2, JobStays
    <3> QED
      BY Zenon, <3>1, <3>2
  <2>4. \A x \in ReplaceSpec(j, s) : SameJob(j, Updated(x))
    <3>1. \A x \in ReplaceSpec(j, s) : SameJob(x, Updated(x))
      <4>1. \A x \in ReplaceSpec(j, s) : IsJob(x)
        BY Zenon, <2>3 DEF SameJob
      <4> QED
        BY Zenon, <4>1, JobStays
    <3> QED
      BY Zenon, <2>3, <3>1, SameJobs
  <2> QED
    BY Zenon, <1>2, <2>1, <2>2, <2>4 DEF updateJobMutation, Completed, Mutates, Wrote
<1>3. CASE startJobMutation(c)
  <2>1. \A j \in jobs : SameJob(j, Updated(Started(j)))
    BY Zenon, <1>0, JobStays, SameJobs DEF SameJob
  <2>2. \A j \in Row(c.q.name) : j \in jobs
    BY Zenon DEF Row
  <2>3. Mutates(c)
    BY Zenon, <1>3, <2>1, <2>2 DEF startJobMutation, NoChange, Mutates, Wrote
  <2> QED
    BY Zenon, <1>3, <2>3 DEF startJobMutation, NoChange, Completed
<1>4. CASE stopJobMutation(c)
  <2>1. \A j \in jobs : SameJob(j, Updated(Stopped(j)))
    BY Zenon, <1>0, JobStays, SameJobs DEF SameJob
  <2>2. \A j \in Row(c.q.name) : j \in jobs
    BY Zenon DEF Row
  <2>3. Mutates(c)
    BY Zenon, <1>4, <2>1, <2>2 DEF stopJobMutation, NoChange, Mutates, Wrote
  <2> QED
    BY Zenon, <1>4, <2>3 DEF stopJobMutation, NoChange, Completed
<1>5. CASE deleteJobMutation(c)
  <2>1. jobs' \subseteq jobs
    BY Zenon, <1>5 DEF deleteJobMutation, Wrote
  <2> QED
    BY Zenon, <1>5, <2>1 DEF deleteJobMutation, Completed, Mutates
<1> QED
  BY Zenon, <1>1, <1>2, <1>3, <1>4, <1>5 DEF applyJobMutation

(* A call applies its mutation.                                             *)
LEMMA ApplyKeeps ==
    ASSUME ControllerInv, NEW client \in Clients, ApplyMutation(client), UNCHANGED controllerVars PROVE ControllerInv'
<1>1. PICK c \in jobCalls[client] : applyJobMutation(c) /\ jobCalls' = [jobCalls EXCEPT ![client] = {[c EXCEPT !.pc = "done"]}]
  BY Zenon DEF ApplyMutation
<1>2. CallsHold(jobCalls) /\ DOMAIN c = CallFields /\ c.uid \in Int /\ c.uid > 0
  BY Zenon DEF ControllerInv, CallsHold, IsCall
<1>3. CallsHold(jobCalls')
  BY Zenon, <1>1, <1>2, CallStays, CallChanges
<1>4. IsFiniteSet(jobTombstones') /\ IsFiniteSet(jobIdempotency')
  <2>1. IsFiniteSet(jobTombstones) /\ IsFiniteSet(jobIdempotency)
    BY Zenon DEF ControllerInv
  <2>2. /\ \E t : jobTombstones' = jobTombstones \/ jobTombstones' = jobTombstones \cup {t}
        /\ \E row : jobIdempotency' = jobIdempotency \cup {row}
    BY Zenon, <1>1, MutationWrites
  <2>3. \A x : IsFiniteSet(jobTombstones \cup {x}) /\ IsFiniteSet(jobIdempotency \cup {x})
    BY Zenon, <2>1, FS_AddElement
  <2>4. IsFiniteSet(jobTombstones')
    BY Zenon, <2>1, <2>2, <2>3
  <2>5. IsFiniteSet(jobIdempotency')
    BY Zenon, <2>2, <2>3
  <2> QED
    BY Zenon, <2>4, <2>5
<1>5. JobsFollow(jobs, jobs')
  <2>0. JobsHold(jobs, resource)
    BY Zenon DEF ControllerInv
  <2>1. ASSUME NEW spec, \A i \in jobs : i.name # c.q.name, jobs' = jobs \cup {JobRow(c.q.name, c.uid, spec)}
        PROVE  JobsFollow(jobs, jobs')
    <3> DEFINE j == JobRow(c.q.name, c.uid, spec)
    <3>1. IsJob(j) /\ j.name = c.q.name /\ j.uid = c.uid
      BY <1>2, JobRowIs
    <3> HIDE DEF j
    <3>2. /\ IsFiniteSet(jobs \cup {j})
          /\ \A k \in jobs \cup {j} : IsJob(k) /\ \A l \in jobs \cup {j} : l.name = k.name => l = k
      BY Zenon, <2>0, <2>1, <3>1, JobJoins
    <3>3. \A k \in jobs \cup {j} : k.uid > 0 \/ \E i \in jobs : i.name = k.name /\ i.uid = k.uid
      BY Zenon, <1>2, <3>1
    <3>4. jobs' = jobs \cup {j}
      BY Zenon, <2>1 DEF j
    <3> QED
      BY Zenon, <3>2, <3>3, <3>4 DEF JobsFollow
  <2>2. ASSUME NEW j \in jobs, NEW k, SameJob(j, k), jobs' = (jobs \ {j}) \cup {k} PROVE JobsFollow(jobs, jobs')
    BY Zenon, <2>0, <2>2, JobReplaced
  <2>3. CASE jobs' \subseteq jobs
    BY Zenon, <2>0, <2>3, JobsGo
  <2> QED
    BY Zenon, <1>1, <2>1, <2>2, <2>3, MutationWrites DEF Mutates
<1> QED
  BY Zenon, <1>3, <1>4, <1>5, JobsStep

(* The scheduler observes an execution.                                     *)
LEMMA ObserveKeeps ==
    ASSUME ControllerInv, NEW name, NEW state, Observe(name, state), UNCHANGED controllerVars PROVE ControllerInv'
<1>0. JobsHold(jobs, resource) /\ \A j \in jobs : IsJob(j)
  BY Zenon DEF ControllerInv, JobsHold
<1>1. PICK j \in Row(name) : jobs' = (jobs \ {j}) \cup {Updated(Advanced(j, state))}
  BY Zenon DEF Observe, Wrote
<1>2. j \in jobs
  BY Zenon DEF Row
<1>3. SameJob(j, Advanced(j, state))
  BY Zenon, <1>0, <1>2, JobStays
<1>4. SameJob(Advanced(j, state), Updated(Advanced(j, state)))
  <2>1. IsJob(Advanced(j, state))
    BY Zenon, <1>3 DEF SameJob
  <2> QED
    BY Zenon, <2>1, JobStays
<1>5. SameJob(j, Updated(Advanced(j, state)))
  BY Zenon, <1>3, <1>4, SameJobs
<1>6. JobsFollow(jobs, jobs')
  BY Zenon, <1>0, <1>1, <1>2, <1>5, JobReplaced
<1>7. CallsHold(jobCalls') /\ IsFiniteSet(jobTombstones') /\ IsFiniteSet(jobIdempotency')
  BY Zenon DEF Observe, ControllerInv
<1> QED
  BY Zenon, <1>6, <1>7, JobsStep

(* The clients of the Job API.                                              *)
LEMMA ApiKeeps ==
    ASSUME ControllerInv, NEW requests, WellFormed(requests), JobApiStep(requests) PROVE ControllerInv'
<1>1. UNCHANGED controllerVars
  BY Zenon DEF JobApiStep
<1>2. PICK c \in Clients : JobClientStep(c, requests[c])
  BY Zenon DEF JobApiStep
<1>3. \/ \E q : q.name \in JobNames /\ (\A s, t \in q.spec : s = t /\ "delivery" \in DOMAIN s) /\ JobCall(c, q)
      \/ ValidateForMutation(c) \/ ApplyMutation(c) \/ applyValidatedJobMutation(c) \/ JobReturn(c)
  BY Zenon, <1>2 DEF JobClientStep, WellFormed
<1> QED
  BY Zenon, <1>1, <1>3, JobCallKeeps, ValidateKeeps, ApplyKeeps, AnswerKeeps

---------------------------------------------------------------------------
(* Users, the Console and the watch.                                        *)

(* A new resource.                                                          *)
LEMMA NewResourceIs ==
    ASSUME NEW n \in Nat, NEW spec, NEW state
    PROVE  IsResource(NewResource(ResourceUid(n), spec, state), n + 1) /\ NewResource(ResourceUid(n), spec, state).uid = ResourceUid(n)
BY DEF IsResource, NewResource, ResourceUid, ResourceFields

(* What is done to a resource.                                              *)
LEMMA ResourceStays ==
    ASSUME NEW r, NEW n, IsResource(r, n)
    PROVE  /\ \A spec, state : Evolves(r, [r EXCEPT !.spec = spec, !.state = state, !.version = @ + 1])
           /\ r.finalizer => Evolves(r, [r EXCEPT !.deleting = TRUE, !.version = @ + 1])
BY DEF IsResource, Evolves, ResourceFields

(* The resources are what they were.                                        *)
LEMMA ResourcesStay ==
    ASSUME NEW res, NEW n \in Nat, ResourcesHold(res, n), NEW res2, DOMAIN res2 = JobNames,
           \A m \in JobNames : res2[m] = res[m]
    PROVE  Succeeds(res, n, res2, n)
<1>1. ResourcesHold(res2, n)
  BY Zenon DEF ResourcesHold
<1>2. ASSUME NEW m \in JobNames, NEW c, IsCopy(c, m, res, n) PROVE IsCopy(c, m, res2, n)
  BY Zenon, <1>2 DEF IsCopy
<1> QED
  BY Zenon, <1>1, <1>2 DEF Succeeds

(* Nothing changes, or one name's resource does: it gets another version,   *)
(* goes, or comes.                                                          *)
LEMMA ResourceWritten ==
    ASSUME ControllerInv, NEW name \in JobNames, NEW after, resource' = [resource EXCEPT ![name] = after],
           \/ after = resource[name] /\ created' = created
           \/ (\E r \in resource[name] : \E s : after = {s} /\ Evolves(r, s)) /\ created' = created
           \/ (\A r \in resource[name] : ~r.finalizer) /\ after = {} /\ created' = created
           \/ resource[name] = {} /\ created' = created + 1
                /\ \E s : after = {s} /\ IsResource(s, created + 1) /\ s.uid = ResourceUid(created)
    PROVE  Succeeds(resource, created, resource', created')
<1>0. created \in Nat /\ ResourcesHold(resource, created)
  BY Zenon DEF ControllerInv
<1>1. CASE after = resource[name] /\ created' = created
  <2>1. DOMAIN resource' = JobNames /\ \A m \in JobNames : resource'[m] = resource[m]
    BY Zenon, <1>0, <1>1 DEF ResourcesHold
  <2> QED
    BY Zenon, <1>0, <1>1, <2>1, ResourcesStay
<1>2. CASE (\E r \in resource[name] : \E s : after = {s} /\ Evolves(r, s)) /\ created' = created
  BY Zenon, <1>0, <1>2, ResourceEvolves
<1>3. CASE (\A r \in resource[name] : ~r.finalizer) /\ after = {} /\ created' = created
  BY Zenon, <1>0, <1>3, ResourceGoes
<1>4. CASE resource[name] = {} /\ created' = created + 1
                /\ \E s : after = {s} /\ IsResource(s, created + 1) /\ s.uid = ResourceUid(created)
  BY Zenon, <1>0, <1>4, ResourceComes
<1> QED
  BY Zenon, <1>1, <1>2, <1>3, <1>4

(* The stored resource of a name.                                           *)
LEMMA StoredIs ==
    ASSUME ControllerInv, NEW name \in JobNames
    PROVE  \/ resource[name] = {}
           \/ \E r : resource[name] = {r} /\ IsResource(r, created)
<1>1. ASSUME NEW r \in resource[name] PROVE IsResource(r, created) /\ resource[name] = {r}
  <2>1. IsResource(r, created) /\ \A s \in resource[name] : r = s
    BY Zenon DEF ControllerInv, ResourcesHold
  <2> QED
    BY Zenon, <2>1
<1> QED
  BY Zenon, <1>1

(* A user creates or changes a resource.                                    *)
LEMMA EditKeeps ==
    ASSUME ControllerInv, NEW name \in JobNames, NEW spec, NEW state, EditResource(name, spec, state) PROVE ControllerInv'
<1> DEFINE after == IF resource[name] = {} THEN {NewResource(ResourceUid(created), spec, state)}
                    ELSE {[r EXCEPT !.spec = spec, !.state = Defaulted(state), !.version = @ + 1] : r \in resource[name]}
<1>0. /\ created \in Nat /\ DOMAIN resource = JobNames /\ jobVars' = jobVars
      /\ cache' = cache /\ reconciler' = reconciler
  BY Zenon DEF ControllerInv, ResourcesHold, EditResource
<1>1. resource' = [resource EXCEPT ![name] = after] /\ Counted(name)
  BY Zenon DEF EditResource
<1>2. resource'[name] = after
  BY Zenon, <1>0, <1>1
<1>3. Succeeds(resource, created, resource', created')
  <2>1. CASE resource[name] = {}
    <3> DEFINE s == NewResource(ResourceUid(created), spec, state)
    <3>1. after = {s}
      BY Zenon, <2>1
    <3>2. IsResource(s, created + 1) /\ s.uid = ResourceUid(created)
      BY Zenon, <1>0, NewResourceIs
    <3> HIDE DEF s, after
    <3>3. created' = created + 1
      BY Zenon, <1>1, <1>2, <2>1, <3>1 DEF Counted
    <3> QED
      BY Zenon, <1>1, <2>1, <3>1, <3>2, <3>3, ResourceWritten
  <2>2. ASSUME NEW r, resource[name] = {r}, IsResource(r, created) PROVE Succeeds(resource, created, resource', created')
    <3> DEFINE s == [r EXCEPT !.spec = spec, !.state = Defaulted(state), !.version = @ + 1]
    <3>1. after = {s}
      BY Zenon, <2>2
    <3>2. Evolves(r, s)
      BY Zenon, <2>2, ResourceStays
    <3> HIDE DEF s, after
    <3>3. created' = created
      BY Zenon, <1>1, <2>2 DEF Counted
    <3> QED
      BY Zenon, <1>1, <2>2, <3>1, <3>2, <3>3, ResourceWritten
  <2> QED
    BY Zenon, <2>1, <2>2, StoredIs
<1>4. CallsHold(jobCalls') /\ UNCHANGED <<jobs, jobTombstones, jobIdempotency>>
  BY Zenon, <1>0 DEF ControllerInv, jobVars
<1> QED
  BY Zenon, <1>0, <1>3, <1>4, ResourcesMove

(* A user deletes a resource.                                               *)
LEMMA DeleteKeeps ==
    ASSUME ControllerInv, NEW name \in JobNames, DeleteResource(name) PROVE ControllerInv'
<1> DEFINE after == UNION {Deleted(r) : r \in resource[name]}
<1>0. jobVars' = jobVars /\ cache' = cache /\ reconciler' = reconciler /\ created' = created
  BY Zenon DEF DeleteResource
<1>1. resource' = [resource EXCEPT ![name] = after] /\ resource[name] # {}
  BY Zenon DEF DeleteResource
<1>2. PICK r : resource[name] = {r} /\ IsResource(r, created)
  BY Zenon, <1>1, StoredIs
<1>3. after = Deleted(r)
  BY Zenon, <1>2
<1> HIDE DEF after
<1>4. Succeeds(resource, created, resource', created')
  <2>1. CASE r.finalizer
    <3>1. after = {[r EXCEPT !.deleting = TRUE, !.version = @ + 1]}
      BY Zenon, <1>3, <2>1 DEF Deleted
    <3>2. Evolves(r, [r EXCEPT !.deleting = TRUE, !.version = @ + 1])
      BY Zenon, <1>2, <2>1, ResourceStays
    <3> QED
      BY Zenon, <1>0, <1>1, <1>2, <3>1, <3>2, ResourceWritten
  <2>2. CASE ~r.finalizer
    <3>1. after = {} /\ \A x \in resource[name] : ~x.finalizer
      BY Zenon, <1>2, <1>3, <2>2 DEF Deleted
    <3> QED
      BY Zenon, <1>0, <1>1, <3>1, ResourceWritten
  <2> QED
    BY Zenon, <2>1, <2>2
<1>5. CallsHold(jobCalls') /\ UNCHANGED <<jobs, jobTombstones, jobIdempotency>>
  BY Zenon, <1>0 DEF ControllerInv, jobVars
<1> QED
  BY Zenon, <1>0, <1>4, <1>5, ResourcesMove

(* The schema refuses what the Console writes.                              *)
LEMMA NothingAdmitted ==
    ASSUME NEW c, IsRequest(c.q), c.q.kind \in {"CREATE", "UPDATE"}
    PROVE  Posted(c) = {} /\ PutBack(c) = {}
<1>1. ASSUME NEW s \in c.q.spec, NEW uid PROVE jobSpecToCR(uid, s).spec.delivery \notin Deliveries
  <2>1. s.delivery \in Deliveries /\ "delivery" \in DOMAIN s
    BY Zenon, <1>1 DEF IsRequest
  <2>2. jobSpecToCR(uid, s).spec = [s EXCEPT !.delivery = GuaranteeNames[s.delivery]]
    BY DEF jobSpecToCR, NewResource
  <2>3. [s EXCEPT !.delivery = GuaranteeNames[s.delivery]].delivery = GuaranteeNames[s.delivery]
    BY Zenon, <2>1
  <2> QED
    BY Zenon, <2>1, <2>2, <2>3, GuaranteeNamesAssumption
<1>2. Posted(c) = {}
  BY Zenon, <1>1 DEF Posted, Admitted
<1>3. ASSUME NEW s \in c.q.spec, NEW x
      PROVE  ~Admitted(Replacing(x, s))
  <2>1. Replacing(x, s).spec = jobSpecToCR(x.uid, s).spec
    BY DEF Replacing, jobSpecToCR, NewResource
  <2> QED
    BY Zenon, <1>1, <2>1 DEF Admitted
<1>4. PutBack(c) = {}
  BY Zenon, <1>3 DEF PutBack
<1> QED
  BY Zenon, <1>2, <1>4

(* What the Console makes of the resource of a name.                        *)
LEMMA WrittenIs ==
    ASSUME NEW c, IsRequest(c.q), NEW r
    PROVE  WrittenCR(c, {}) = {} /\ (WrittenCR(c, {r}) = {r} \/ WrittenCR(c, {r}) = Deleted(r))
<1> DEFINE gone(y) == IF y.deleting THEN {y} ELSE Deleted(y)
<1>1. CASE c.q.kind \in {"CREATE", "UPDATE"}
  <2>1. Posted(c) = {} /\ PutBack(c) = {}
    BY Zenon, <1>1, NothingAdmitted
  <2>2. ~ \E w \in PutBack(c) : UpToDate(c.q.name, w)
    BY Zenon, <2>1
  <2>3. \A x : WrittenCR(c, x) = CASE c.q.kind = "CREATE" -> IF x = {} THEN {} ELSE x
                                   [] c.q.kind = "UPDATE" /\ c.pc = "put" -> x
                                   [] c.q.kind = "DELETE" -> UNION {gone(y) : y \in x}
                                   [] OTHER -> x
    BY Zenon, <2>1, <2>2 DEF WrittenCR
  <2> HIDE DEF gone
  <2>4. \A x : WrittenCR(c, x) = x
    BY <1>1, <2>3
  <2> QED
    BY Zenon, <2>4
<1>2. CASE c.q.kind = "DELETE"
  <2>1. \A x : WrittenCR(c, x) = UNION {gone(y) : y \in x}
    BY <1>2 DEF WrittenCR
  <2>2. gone(r) = {r} \/ gone(r) = Deleted(r)
    BY Zenon
  <2> HIDE DEF gone
  <2>3. UNION {gone(y) : y \in {}} = {} /\ UNION {gone(y) : y \in {r}} = gone(r)
    BY Zenon
  <2> QED
    BY Zenon, <2>1, <2>2, <2>3
<1>3. CASE c.q.kind \notin {"CREATE", "UPDATE", "DELETE"}
  <2>1. \A x : WrittenCR(c, x) = x
    BY <1>3 DEF WrittenCR
  <2> QED
    BY Zenon, <2>1
<1> QED
  BY Zenon, <1>1, <1>2, <1>3

(* A write ends, goes on to its PUT or is tried again.                      *)
LEMMA WriteAnswered ==
    ASSUME NEW c, IsCall(c), NEW r, r = {} \/ \E x : r = {x}, NEW d \in {AnsweredCR(c, r), executeWithRetry(c)}
    PROVE  d = {} \/ \E x : d = {x} /\ IsCall(x)
<1> DEFINE again == [c EXCEPT !.pc = "done", !.read = {}, !.tries = c.tries + 1]
           put(x) == [c EXCEPT !.pc = "put", !.read = {x}]
           A == {x \in executeWithRetry(c) : r # {} /\ Posted(c) # {}}
           B == {x \in executeWithRetry(c) : \E w \in PutBack(c) : ~UpToDate(c.q.name, w)}
           P == {put(x) : x \in r}
<1>0. DOMAIN c = CallFields
  BY Zenon DEF IsCall
<1>1. \A x : SameCall(c, x) => IsCall(x)
  BY Zenon DEF SameCall, IsCall
<1>2. IsCall(again) /\ \A x : IsCall(put(x))
  BY Zenon, <1>0, <1>1, CallStays
<1>3. executeWithRetry(c) \subseteq {again}
  BY Zenon DEF executeWithRetry
<1>4. AnsweredCR(c, r) = CASE c.q.kind = "CREATE" -> A
                           [] c.q.kind = "UPDATE" /\ c.pc = "put" -> B
                           [] c.q.kind = "UPDATE" /\ c.pc = "done" -> P
                           [] OTHER -> {}
  BY Zenon DEF AnsweredCR
<1>5. A \subseteq executeWithRetry(c) /\ B \subseteq executeWithRetry(c)
  BY Zenon
<1> HIDE DEF again, put, A, B
<1>6. P = {} \/ \E x : P = {put(x)}
  <2>1. CASE r = {}
    BY Zenon, <2>1
  <2>2. ASSUME NEW x, r = {x} PROVE P = {put(x)}
    BY Zenon, <2>2
  <2> QED
    BY Zenon, <2>1, <2>2
<1> HIDE DEF P
<1>7. AnsweredCR(c, r) = A \/ AnsweredCR(c, r) = B \/ AnsweredCR(c, r) = P \/ AnsweredCR(c, r) = {}
  BY <1>4
<1>8. CASE d \subseteq {again}
  BY Zenon, <1>2, <1>8
<1>9. CASE d = P
  BY Zenon, <1>2, <1>6, <1>9
<1> QED
  BY Zenon, <1>3, <1>5, <1>7, <1>8, <1>9

(* A request of the Console.                                                *)
LEMMA WriteKeeps ==
    ASSUME ControllerInv, NEW client \in Clients, WriteCR(client) PROVE ControllerInv'
<1>1. PICK c \in jobCalls[client] :
          /\ \/ resource' = [resource EXCEPT ![c.q.name] = WrittenCR(c, resource[c.q.name])]
             \/ resource' = resource
          /\ \E d \in {AnsweredCR(c, resource[c.q.name]), executeWithRetry(c)} :
                jobCalls' = [jobCalls EXCEPT ![client] = d]
          /\ Counted(c.q.name)
          /\ UNCHANGED <<jobs, jobTombstones, jobIdempotency>> /\ cache' = cache /\ reconciler' = reconciler
  BY Zenon DEF WriteCR
<1>2. CallsHold(jobCalls) /\ IsCall(c) /\ IsRequest(c.q) /\ c.q.name \in JobNames
  BY Zenon DEF ControllerInv, CallsHold, IsCall, IsRequest
<1> DEFINE name == c.q.name
           r == resource[c.q.name]
<1>4. created \in Nat /\ DOMAIN resource = JobNames
  BY Zenon DEF ControllerInv, ResourcesHold
<1>5. r = {} \/ \E x : r = {x} /\ IsResource(x, created)
  BY Zenon, <1>2, StoredIs
<1>3. CallsHold(jobCalls')
  <2>1. PICK d \in {AnsweredCR(c, r), executeWithRetry(c)} : jobCalls' = [jobCalls EXCEPT ![client] = d]
    BY Zenon, <1>1
  <2> HIDE DEF r
  <2>2. d = {} \/ \E x : d = {x} /\ IsCall(x)
    BY Zenon, <1>2, <1>5, <2>1, WriteAnswered
  <2> QED
    BY Zenon, <1>2, <2>1, <2>2, CallsMove
<1> DEFINE after == resource'[name]
<1>6. resource' = resource \/ (resource' = [resource EXCEPT ![name] = after] /\ after = WrittenCR(c, r))
  BY Zenon, <1>1, <1>2, <1>4
<1> HIDE DEF after
<1>7. CASE resource' = resource
  <2>1. created' = created
    BY Zenon, <1>1, <1>7 DEF Counted
  <2>2. Succeeds(resource, created, resource', created')
    BY Zenon, <1>7, <2>1 DEF Succeeds, ControllerInv
  <2> QED
    BY Zenon, <1>1, <1>3, <2>2, ResourcesMove
<1>a. CASE resource' = [resource EXCEPT ![name] = after] /\ after = r
  <2>1. created' = created
    BY Zenon, <1>1, <1>a DEF Counted, after
  <2>2. Succeeds(resource, created, resource', created')
    BY Zenon, <1>2, <1>a, <2>1, ResourceWritten
  <2> QED
    BY Zenon, <1>1, <1>3, <2>2, ResourcesMove
<1>8. ASSUME resource' = [resource EXCEPT ![name] = after], NEW x, r = {x}, IsResource(x, created), after = Deleted(x)
      PROVE  ControllerInv'
  <2>1. created' = created
    BY Zenon, <1>1, <1>8 DEF Counted
  <2>2. \/ (\A y \in resource[name] : ~y.finalizer) /\ after = {}
        \/ \E y \in resource[name] : \E s : after = {s} /\ Evolves(y, s)
    <3>1. CASE x.finalizer
      BY Zenon, <1>8, <3>1, ResourceStays DEF Deleted
    <3>2. CASE ~x.finalizer
      BY Zenon, <1>8, <3>2 DEF Deleted
    <3> QED
      BY Zenon, <3>1, <3>2
  <2>3. Succeeds(resource, created, resource', created')
    BY Zenon, <1>2, <1>8, <2>1, <2>2, ResourceWritten
  <2> QED
    BY Zenon, <1>1, <1>3, <2>3, ResourcesMove
<1>b. ASSUME after = WrittenCR(c, r) PROVE after = r \/ \E x : r = {x} /\ IsResource(x, created) /\ after = Deleted(x)
  <2> HIDE DEF r
  <2> QED
    BY Zenon, <1>2, <1>5, <1>b, WrittenIs
<1> QED
  BY Zenon, <1>6, <1>7, <1>8, <1>a, <1>b

(* What is stored is a copy of itself.                                      *)
LEMMA StoredIsCopy ==
    ASSUME ControllerInv, NEW name \in JobNames, NEW c \in resource[name] PROVE IsCopy(c, name, resource, created)
<1>1. /\ IsResource(c, created)
      /\ \A other \in JobNames : \A r \in resource[other] : r.uid = c.uid => other = name /\ r = c
  BY Zenon DEF ControllerInv, ResourcesHold
<1>2. c.version <= c.version
  <2>1. c.version \in Nat
    BY Zenon, <1>1 DEF IsResource
  <2> QED
    BY <2>1
<1> QED
  BY Zenon, <1>1, <1>2 DEF IsCopy, CopyOf

(* The cache catches up; the controller goes on or begins again.            *)
LEMMA CacheMoves ==
    ASSUME ControllerInv, UNCHANGED <<resource, created, jobs, jobTombstones, jobIdempotency, jobCalls>>,
           DOMAIN cache' = JobNames, \A m \in JobNames : cache'[m] = cache[m] \/ cache'[m] = resource[m],
           reconciler' = reconciler \/ reconciler' = Idle
    PROVE  ControllerInv'
<1>1. CacheHolds(cache', resource', created')
  <2>1. ASSUME NEW m \in JobNames, NEW c \in resource[m] PROVE \A d \in resource[m] : d = c
    BY Zenon, <2>1 DEF ControllerInv, ResourcesHold
  <2>2. ASSUME NEW m \in JobNames, NEW c \in cache'[m]
        PROVE  IsCopy(c, m, resource, created) /\ \A d \in cache'[m] : d = c
    <3>1. CASE cache'[m] = cache[m]
      BY Zenon, <2>2, <3>1 DEF ControllerInv, CacheHolds
    <3>2. CASE cache'[m] = resource[m]
      BY Zenon, <2>1, <2>2, <3>2, StoredIsCopy
    <3> QED
      BY Zenon, <3>1, <3>2
  <2> QED
    BY Zenon, <2>2 DEF CacheHolds
<1>2. ReconcilerHolds(reconciler', resource', cache', jobs', created')
  <2>1. CASE reconciler' = Idle
    BY Zenon, <2>1, IdleHolds
  <2>2. CASE reconciler' = reconciler
    <3>1. ReconcilerHolds(reconciler, resource, cache, jobs, created)
      BY Zenon DEF ControllerInv
    <3>2. ASSUME reconciler.name \in JobNames, NEW r, IsCopy(r, reconciler.name, resource, created),
                 PassHolds(reconciler, r, cache, jobs)
          PROVE  PassHolds(reconciler, r, cache', jobs)
      <4>1. \A c \in resource[reconciler.name] : c.uid = r.uid /\ r.deleting => c.deleting
        BY Zenon, <3>2 DEF IsCopy, CopyOf
      <4>2. cache'[reconciler.name] = cache[reconciler.name] \/ cache'[reconciler.name] = resource[reconciler.name]
        BY Zenon, <3>2
      <4> QED
        BY Zenon, <3>2, <4>1, <4>2 DEF PassHolds
    <3> QED
      BY Zenon, <2>2, <3>1, <3>2 DEF ReconcilerHolds
  <2> QED
    BY Zenon, <2>1, <2>2
<1> QED
  BY Zenon, <1>1, <1>2 DEF ControllerInv

(* A watch event arrives.                                                   *)
LEMMA WatchKeeps ==
    ASSUME ControllerInv, NEW name \in JobNames, Watch(name) PROVE ControllerInv'
<1>1. DOMAIN cache = JobNames /\ cache' = [cache EXCEPT ![name] = resource[name]]
  BY Zenon DEF ControllerInv, CacheHolds, Watch
<1>2. DOMAIN cache' = JobNames /\ \A m \in JobNames : cache'[m] = cache[m] \/ cache'[m] = resource[m]
  BY Zenon, <1>1
<1>3. UNCHANGED <<resource, created, jobs, jobTombstones, jobIdempotency, jobCalls>> /\ reconciler' = reconciler
  BY Zenon DEF Watch, jobVars
<1> QED
  BY Zenon, <1>2, <1>3, CacheMoves

(* The controller stops.                                                    *)
LEMMA StopKeeps ==
    ASSUME ControllerInv, StopController PROVE ControllerInv'
<1>1. DOMAIN cache' = JobNames /\ \A m \in JobNames : cache'[m] = cache[m] \/ cache'[m] = resource[m]
  BY Zenon DEF ControllerInv, ResourcesHold, StopController
<1>2. UNCHANGED <<resource, created, jobs, jobTombstones, jobIdempotency, jobCalls>> /\ reconciler' = Idle
  BY Zenon DEF StopController, jobVars
<1> QED
  BY Zenon, <1>1, <1>2, CacheMoves

---------------------------------------------------------------------------
(* The controller.                                                          *)

Converging == {"get", "create", "update"}
Deleting == {"deletion", "stop", "delete"}

(* A pass under way.                                                        *)
LEMMA PassIs ==
    ASSUME ControllerInv, reconciler.pc \in Converging \cup Deleting \cup {"project", "finalizer"}
    PROVE  /\ DOMAIN reconciler = ReconcilerFields /\ reconciler.name \in JobNames
           /\ \E r : /\ reconciler.resource = {r} /\ IsCopy(r, reconciler.name, resource, created)
                     /\ PassHolds(reconciler, r, cache, jobs)
           /\ \A j \in reconciler.stored \cup reconciler.next : IsJob(j) /\ j.name = reconciler.name
<1>1. reconciler # Idle
  BY DEF Idle, Converging, Deleting
<1> QED
  BY Zenon, <1>1 DEF ControllerInv, ReconcilerHolds

(* The pass goes on at pc.                                                  *)
Goes(rec, d, pc, stored, next) ==
    /\ DOMAIN d = ReconcilerFields /\ d.pc = pc /\ d.name = rec.name /\ d.resource = rec.resource
    /\ d.stored = stored /\ d.next = next

(* The updates of a pass that the steps write.                              *)
LEMMA PassFields ==
    ASSUME NEW rec, DOMAIN rec = ReconcilerFields, NEW pc, NEW s, NEW n, NEW a
    PROVE  /\ Goes(rec, [rec EXCEPT !.pc = pc], pc, rec.stored, rec.next)
           /\ Goes(rec, [rec EXCEPT !.pc = pc, !.stored = s], pc, s, rec.next)
           /\ Goes(rec, [rec EXCEPT !.stored = s, !.pc = pc], pc, s, rec.next)
           /\ Goes(rec, [rec EXCEPT !.pc = pc, !.stored = s, !.next = n], pc, s, n)
           /\ Goes(rec, [rec EXCEPT !.pc = pc, !.attempt = a, !.stored = s, !.next = n], pc, s, n)
BY DEF Goes, ReconcilerFields

(* A pass that converges goes on, whatever Jobs there are.                  *)
LEMMA ConvergeGoesOn ==
    ASSUME ControllerInv, reconciler.pc \in Converging, NEW js, NEW d, NEW pc \in Converging \cup {"project"},
           NEW s, NEW n, Goes(reconciler, d, pc, s, n), \A j \in s \cup n : IsJob(j) /\ j.name = reconciler.name
    PROVE  ReconcilerHolds(d, resource, cache, js, created)
<1>1. reconciler.name \in JobNames
  BY Zenon, PassIs
<1>2. PICK r : /\ reconciler.resource = {r} /\ IsCopy(r, reconciler.name, resource, created)
               /\ PassHolds(reconciler, r, cache, jobs)
  BY Zenon, PassIs
<1>3. r.finalizer /\ ~r.deleting
  BY Zenon, <1>2 DEF PassHolds, Converging
<1>4. pc \notin {"deletion", "stop", "delete", "finalizer"} /\ pc # "finalizer"
  BY DEF Converging
<1>5. pc \in {"get", "create", "update", "project", "deletion", "stop", "delete", "finalizer"}
  BY DEF Converging
<1>6. PassHolds(d, r, cache, js)
  BY Zenon, <1>3, <1>4 DEF PassHolds, Goes
<1> QED
  BY Zenon, <1>1, <1>2, <1>5, <1>6 DEF ReconcilerHolds, Goes

(* One that deletes goes on; the finalizer is its turn when no Job has the  *)
(* name.                                                                    *)
LEMMA DeletionGoesOn ==
    ASSUME ControllerInv, reconciler.pc \in Deleting, NEW js, JobsHold(js, resource),
           NEW d, NEW pc \in {"stop", "delete", "project", "finalizer"},
           NEW s, NEW n, Goes(reconciler, d, pc, s, n), \A j \in s \cup n : IsJob(j) /\ j.name = reconciler.name,
           pc = "finalizer" => \A j \in js : j.name # reconciler.name
    PROVE  ReconcilerHolds(d, resource, cache, js, created)
<1>1. reconciler.name \in JobNames
  BY Zenon, PassIs
<1>2. PICK r : /\ reconciler.resource = {r} /\ IsCopy(r, reconciler.name, resource, created)
               /\ PassHolds(reconciler, r, cache, jobs)
  BY Zenon, PassIs
<1>3. r.deleting
  BY Zenon, <1>2 DEF PassHolds, Deleting
<1>4. pc \notin {"get", "create", "update"}
  OBVIOUS
<1>5. pc \in {"get", "create", "update", "project", "deletion", "stop", "delete", "finalizer"}
  BY Zenon
<1>6. ASSUME pc = "finalizer", NEW j \in js PROVE j.uid # r.uid
  <2>1. SUFFICES ASSUME j.uid = r.uid PROVE FALSE
    BY Zenon
  <2>2. j.uid < 0
    BY Zenon, <1>2, <2>1 DEF IsCopy, IsResource
  <2>3. j.name \in JobNames /\ \E x \in resource[j.name] : x.uid = r.uid
    BY Zenon, <2>1, <2>2 DEF JobsHold
  <2>4. j.name = reconciler.name
    BY Zenon, <1>2, <2>3 DEF IsCopy
  <2> QED
    BY Zenon, <1>6, <2>4
<1>7. PassHolds(d, r, cache, js)
  BY Zenon, <1>2, <1>3, <1>4, <1>6 DEF PassHolds, Goes
<1> QED
  BY Zenon, <1>1, <1>2, <1>5, <1>7 DEF ReconcilerHolds, Goes

(* The controller moves, and writes Jobs.                                   *)
LEMMA ControllerMoves ==
    ASSUME ControllerInv, Stays, resource' = resource, JobsHold(jobs', resource),
           ReconcilerHolds(reconciler', resource, cache, jobs', created)
    PROVE  ControllerInv'
<1>1. UNCHANGED <<cache, created, jobTombstones, jobIdempotency, jobCalls>>
  BY Zenon DEF Stays
<1> QED
  BY Zenon, <1>1 DEF ControllerInv

(* Another attempt, or none.                                                *)
LEMMA AgainHolds ==
    ASSUME ControllerInv, reconciler.pc \in Converging, Again, NEW js PROVE ReconcilerHolds(reconciler', resource, cache, js, created)
<1>1. CASE reconciler' = Idle
  BY Zenon, <1>1, IdleHolds
<1>2. CASE reconciler' = [reconciler EXCEPT !.pc = "get", !.attempt = @ + 1, !.stored = {}, !.next = {}]
  <2>1. DOMAIN reconciler = ReconcilerFields
    BY Zenon, PassIs
  <2>2. Goes(reconciler, reconciler', "get", {}, {})
    BY Zenon, <1>2, <2>1, PassFields
  <2>3. "get" \in Converging \cup {"project"}
    BY DEF Converging
  <2>4. \A j \in {} \cup {} : IsJob(j) /\ j.name = reconciler.name
    OBVIOUS
  <2> QED
    BY Zenon, <2>2, <2>3, <2>4, ConvergeGoesOn
<1> QED
  BY Zenon, <1>1, <1>2 DEF Again

(* What a desired state makes of a Job, with the names of Target.           *)
Moved(x, r) ==
    IF x.desired = r.state THEN {x}
    ELSE IF r.state = "RUNNING"
         THEN IF StartSatisfied(x) THEN {x} ELSE {y \in {Started(x)} : StartAccepted(x)}
         ELSE {y \in {Stopped(x)} : StopAccepted(x)}

(* Converging leaves a Job its name and its UID.                            *)
LEMMA TargetIs ==
    ASSUME NEW j, IsJob(j), NEW r PROVE \A t \in Target(j, r) : SameJob(j, t)
<1>1. Target(j, r) = IF j.spec = r.spec THEN Moved(j, r)
                     ELSE IF JobActive(j.state) THEN IF StopSatisfied(j) THEN {j} ELSE {Stopped(j)}
                     ELSE UNION {Moved(x, r) : x \in ReplaceSpec(j, r.spec)}
  BY Zenon DEF Target, Moved
<1>2. ASSUME NEW x, IsJob(x), NEW t \in Moved(x, r) PROVE SameJob(x, t)
  <2>1. t = x \/ t = Started(x) \/ t = Stopped(x)
    BY Zenon, <1>2 DEF Moved
  <2> QED
    BY Zenon, <1>2, <2>1, JobStays
<1>3. ASSUME NEW x \in ReplaceSpec(j, r.spec) PROVE SameJob(j, x) /\ IsJob(x)
  <2>1. x = [j EXCEPT !.spec = r.spec]
    BY Zenon, <1>3 DEF ReplaceSpec
  <2>2. SameJob(j, [j EXCEPT !.spec = r.spec])
    BY Zenon, JobStays
  <2> QED
    BY Zenon, <2>1, <2>2 DEF SameJob
<1>4. ASSUME NEW t \in Target(j, r) PROVE SameJob(j, t)
  <2>1. \/ t \in Moved(j, r) \/ t = j \/ t = Stopped(j)
        \/ \E x \in ReplaceSpec(j, r.spec) : t \in Moved(x, r)
    BY ZenonT(60), <1>1, <1>4
  <2>2. CASE \E x \in ReplaceSpec(j, r.spec) : t \in Moved(x, r)
    <3>1. PICK x \in ReplaceSpec(j, r.spec) : t \in Moved(x, r)
      BY Zenon, <2>2
    <3>2. SameJob(j, x) /\ SameJob(x, t)
      BY Zenon, <1>2, <1>3, <3>1
    <3> QED
      BY Zenon, <3>2, SameJobs
  <2>3. CASE t \in Moved(j, r)
    BY Zenon, <1>2, <2>3
  <2>4. CASE t = j \/ t = Stopped(j)
    BY Zenon, <2>4, JobStays
  <2> QED
    BY Zenon, <2>1, <2>2, <2>3, <2>4
<1> QED
  BY Zenon, <1>4

(* The pass goes on with a stored Job.                                      *)
LEMMA WithHolds ==
    ASSUME ControllerInv, reconciler.pc \in Converging, NEW j, IsJob(j), j.name = reconciler.name, With(j), NEW js
    PROVE  ReconcilerHolds(reconciler', resource, cache, js, created)
<1> DEFINE r == CHOOSE x \in reconciler.resource : TRUE
           target == {t \in Target(j, r) : t.epoch <= MaxEpoch}
           pc == IF target = {j} THEN "project" ELSE "update"
<1>1. \/ reconciler' = Idle
      \/ reconciler' = [reconciler EXCEPT !.pc = pc, !.stored = {j}, !.next = target]
  BY Zenon DEF With
<1>2. pc \in Converging \cup {"project"}
  <2>1. pc = "project" \/ pc = "update"
    BY Zenon
  <2> QED
    BY <2>1 DEF Converging
<1>3. \A k \in {j} \cup target : IsJob(k) /\ k.name = reconciler.name
  <2>1. \A t \in target : SameJob(j, t)
    BY Zenon, TargetIs
  <2> QED
    BY Zenon, <2>1 DEF SameJob
<1> HIDE DEF target, pc
<1>4. DOMAIN reconciler = ReconcilerFields
  BY Zenon, PassIs
<1>5. CASE reconciler' = [reconciler EXCEPT !.pc = pc, !.stored = {j}, !.next = target]
  <2>1. Goes(reconciler, reconciler', pc, {j}, target)
    BY Zenon, <1>4, <1>5, PassFields
  <2> QED
    BY Zenon, <1>2, <1>3, <2>1, ConvergeGoesOn
<1> QED
  BY Zenon, <1>1, <1>5, IdleHolds

(* The stored Job of a name.                                                *)
LEMMA RowIs ==
    ASSUME ControllerInv, NEW name PROVE \A j \in Row(name) : j \in jobs /\ IsJob(j) /\ j.name = name /\ Row(name) = {j}
<1>1. ASSUME NEW j \in Row(name) PROVE j \in jobs /\ IsJob(j) /\ j.name = name /\ \A k \in Row(name) : k = j
  BY Zenon DEF Row, ControllerInv, JobsHold
<1>2. ASSUME NEW j \in Row(name) PROVE Row(name) = {j}
  BY Zenon, <1>1
<1> QED
  BY Zenon, <1>1, <1>2

(* converge reads the stored Job.                                           *)
LEMMA GetKeeps ==
    ASSUME ControllerInv, GetJob PROVE ControllerInv'
<1>0. reconciler.pc \in Converging
  BY DEF GetJob, Converging
<1>1. ReconcilerHolds(reconciler', resource, cache, jobs, created)
  <2>1. CASE Row(reconciler.name) = {}
    <3>1. reconciler' = [reconciler EXCEPT !.pc = "create"]
      BY Zenon, <2>1 DEF GetJob
    <3>2. /\ DOMAIN reconciler = ReconcilerFields
          /\ \A j \in reconciler.stored \cup reconciler.next : IsJob(j) /\ j.name = reconciler.name
      BY Zenon, <1>0, PassIs
    <3>3. Goes(reconciler, reconciler', "create", reconciler.stored, reconciler.next)
      BY Zenon, <3>1, <3>2, PassFields
    <3>4. "create" \in Converging \cup {"project"}
      BY DEF Converging
    <3> QED
      BY Zenon, <1>0, <3>2, <3>3, <3>4, ConvergeGoesOn
  <2>2. ASSUME NEW j \in Row(reconciler.name), With(j) PROVE ReconcilerHolds(reconciler', resource, cache, jobs, created)
    BY Zenon, <1>0, <2>2, RowIs, WithHolds
  <2> QED
    BY Zenon, <2>1, <2>2 DEF GetJob
<1>2. Stays /\ resource' = resource /\ jobs' = jobs
  BY Zenon DEF GetJob, Reads
<1> QED
  BY Zenon, <1>1, <1>2, ControllerMoves DEF ControllerInv

(* converge creates the Job of a resource that has its finalizer.           *)
LEMMA CreateKeeps ==
    ASSUME ControllerInv, CreateJob PROVE ControllerInv'
<1>0. reconciler.pc \in Converging
  BY DEF CreateJob, Converging
<1>1. PICK r \in reconciler.resource : LET j == JobRow(reconciler.name, r.uid, r.spec)
                                       IN  IF CreateAccepted(j) THEN Wrote({}, {j}) /\ With(j) ELSE Again /\ UNCHANGED jobs
  BY Zenon DEF CreateJob
<1> DEFINE j == JobRow(reconciler.name, r.uid, r.spec)
<1>2. reconciler.name \in JobNames /\ IsCopy(r, reconciler.name, resource, created) /\ r.finalizer /\ ~r.deleting
  <2>1. PICK x : reconciler.resource = {x} /\ IsCopy(x, reconciler.name, resource, created) /\ PassHolds(reconciler, x, cache, jobs)
    BY Zenon, <1>0, PassIs
  <2>2. x = r
    BY Zenon, <2>1
  <2>3. r.finalizer /\ ~r.deleting
    BY Zenon, <1>0, <2>1, <2>2 DEF PassHolds, Converging
  <2> QED
    BY Zenon, <1>0, <2>1, <2>2, <2>3, PassIs
<1>3. IsJob(j) /\ j.name = reconciler.name /\ j.uid = r.uid
  <2>1. r.uid \in Int
    BY Zenon, <1>2 DEF IsCopy, IsResource
  <2> QED
    BY <2>1, JobRowIs
<1>4. Stays /\ resource' = resource /\ JobsHold(jobs, resource)
  BY Zenon DEF CreateJob, ControllerInv
<1>5. CASE CreateAccepted(j)
  <2>1. With(j) /\ jobs' = jobs \cup {j} /\ \A i \in jobs : i.name # j.name
    <3>1. With(j) /\ jobs' = (jobs \ {}) \cup {j} /\ Row(j.name) = {}
      BY Zenon, <1>1, <1>5 DEF Wrote, CreateAccepted
    <3>2. jobs \ {} = jobs
      BY Zenon
    <3> HIDE DEF j
    <3> QED
      BY Zenon, <3>1, <3>2 DEF Row
  <2> HIDE DEF j
  <2>2. /\ IsFiniteSet(jobs \cup {j})
        /\ \A k \in jobs \cup {j} : IsJob(k) /\ \A l \in jobs \cup {j} : l.name = k.name => l = k
    BY Zenon, <1>3, <1>4, <2>1, JobJoins
  <2>3. j.name \in JobNames /\ \E x \in resource[j.name] : x.uid = j.uid /\ x.finalizer
    <3>1. PICK x \in resource[reconciler.name] : x.uid = r.uid
      BY Zenon, <1>2 DEF IsCopy
    <3>2. x.finalizer
      BY Zenon, <1>2, <3>1 DEF IsCopy, CopyOf
    <3> QED
      BY Zenon, <1>2, <1>3, <3>1, <3>2
  <2>4. \A k \in jobs \cup {j} : k.uid < 0 => k.name \in JobNames /\ \E x \in resource[k.name] : x.uid = k.uid /\ x.finalizer
    BY Zenon, <1>4, <2>3 DEF JobsHold
  <2>5. JobsHold(jobs', resource)
    BY Zenon, <2>1, <2>2, <2>4 DEF JobsHold
  <2>6. ReconcilerHolds(reconciler', resource, cache, jobs', created)
    BY Zenon, <1>0, <1>3, <2>1, WithHolds
  <2> QED
    BY Zenon, <1>4, <2>5, <2>6, ControllerMoves
<1>6. CASE ~CreateAccepted(j)
  <2>1. Again /\ jobs' = jobs
    BY Zenon, <1>1, <1>6
  <2> QED
    BY Zenon, <1>0, <1>4, <2>1, AgainHolds, ControllerMoves
<1> QED
  BY Zenon, <1>5, <1>6

(* A Job of the pass is written in the place of the stored one.             *)
LEMMA WrittenFollows ==
    ASSUME ControllerInv, NEW j, IsJob(j), Accepted(j), Wrote(Row(j.name), {Updated(j)}), UNCHANGED <<resource, cache, created>>
    PROVE  JobsHold(jobs', resource)
<1>1. PICK k \in Row(j.name) : k.uid = j.uid
  BY Zenon DEF Accepted
<1>2. k \in jobs /\ k.name = j.name
  BY Zenon, RowIs
<1>3. SameJob(k, Updated(j))
  <2>1. SameJob(j, Updated(j))
    BY Zenon, JobStays
  <2> QED
    BY Zenon, <1>1, <1>2, <2>1 DEF SameJob
<1>4. Row(j.name) = {i \in jobs : i.name = k.name}
  BY Zenon, <1>2 DEF Row
<1>5. jobs' = (jobs \ Row(j.name)) \cup {Updated(j)}
  BY Zenon DEF Wrote
<1>6. JobsFollow(jobs, (jobs \ Row(j.name)) \cup {Updated(j)})
  <2> DEFINE old == Row(j.name)
  <2>1. old \in {{k}, {i \in jobs : i.name = k.name}}
    BY Zenon, <1>4
  <2> HIDE DEF old
  <2>2. JobsFollow(jobs, (jobs \ old) \cup {Updated(j)})
    BY ZenonT(60), <1>2, <1>3, <2>1, JobReplaced DEF ControllerInv
  <2> QED
    BY Zenon, <2>2 DEF old
<1> QED
  BY Zenon, <1>5, <1>6, JobsMove

(* converge writes the Job.                                                 *)
LEMMA UpdateKeeps ==
    ASSUME ControllerInv, UpdateJob PROVE ControllerInv'
<1>0. reconciler.pc \in Converging
  BY DEF UpdateJob, Converging
<1>1. Stays /\ resource' = resource /\ JobsHold(jobs, resource) /\ UNCHANGED <<resource, cache, created>>
  BY Zenon DEF UpdateJob, ControllerInv, Stays
<1>2. PICK j \in reconciler.next :
        \/ /\ Accepted(j)
           /\ Wrote(Row(j.name), {Updated(j)})
           /\ reconciler' = [reconciler EXCEPT !.pc = "project", !.stored = {Updated(j)}, !.next = {}]
        \/ Again /\ UNCHANGED jobs
        \/ Requeue /\ UNCHANGED jobs
  BY Zenon DEF UpdateJob
<1>3. IsJob(j) /\ j.name = reconciler.name /\ DOMAIN reconciler = ReconcilerFields
  BY Zenon, <1>0, PassIs
<1>4. CASE Accepted(j) /\ Wrote(Row(j.name), {Updated(j)})
             /\ reconciler' = [reconciler EXCEPT !.pc = "project", !.stored = {Updated(j)}, !.next = {}]
  <2>1. JobsHold(jobs', resource)
    BY Zenon, <1>1, <1>3, <1>4, WrittenFollows
  <2>2. Goes(reconciler, reconciler', "project", {Updated(j)}, {})
    BY Zenon, <1>3, <1>4, PassFields
  <2>3. \A k \in {Updated(j)} \cup {} : IsJob(k) /\ k.name = reconciler.name
    <3>1. SameJob(j, Updated(j))
      BY Zenon, <1>3, JobStays
    <3> QED
      BY Zenon, <1>3, <3>1 DEF SameJob
  <2>4. "project" \in Converging \cup {"project"}
    BY Zenon
  <2>5. ReconcilerHolds(reconciler', resource, cache, jobs', created)
    BY Zenon, <1>0, <2>2, <2>3, <2>4, ConvergeGoesOn
  <2> QED
    BY Zenon, <1>1, <2>1, <2>5, ControllerMoves
<1>5. CASE Again /\ UNCHANGED jobs
  BY Zenon, <1>0, <1>1, <1>5, AgainHolds, ControllerMoves
<1>6. CASE Requeue /\ UNCHANGED jobs
  BY Zenon, <1>1, <1>6, IdleHolds, ControllerMoves DEF Requeue
<1> QED
  BY Zenon, <1>2, <1>4, <1>5, <1>6

(* The resource is being deleted: the stored Job is looked at.              *)
LEMMA DeletionKeeps ==
    ASSUME ControllerInv, reconcileDeletion PROVE ControllerInv'
<1>0. reconciler.pc \in Deleting
  BY Zenon DEF reconcileDeletion, Deleting
<1>1. Stays /\ resource' = resource /\ jobs' = jobs /\ JobsHold(jobs, resource)
  BY Zenon DEF reconcileDeletion, Reads, ControllerInv
<1>2. /\ DOMAIN reconciler = ReconcilerFields
      /\ \A j \in reconciler.stored \cup reconciler.next : IsJob(j) /\ j.name = reconciler.name
  BY Zenon, <1>0, PassIs
<1>3. CASE Row(reconciler.name) = {} /\ reconciler' = [reconciler EXCEPT !.pc = "finalizer"]
  <2>1. \A j \in jobs : j.name # reconciler.name
    BY Zenon, <1>3 DEF Row
  <2>2. Goes(reconciler, reconciler', "finalizer", reconciler.stored, reconciler.next)
    BY Zenon, <1>2, <1>3, PassFields
  <2>3. ReconcilerHolds(reconciler', resource, cache, jobs, created)
    BY Zenon, <1>0, <1>1, <1>2, <2>1, <2>2, DeletionGoesOn
  <2> QED
    BY Zenon, <1>1, <2>3, ControllerMoves
<1>4. ASSUME NEW j \in Row(reconciler.name), NEW pc \in {"stop", "delete", "project"},
             reconciler' = [reconciler EXCEPT !.stored = {j}, !.pc = pc]
      PROVE  ControllerInv'
  <2>1. Goes(reconciler, reconciler', pc, {j}, reconciler.next)
    BY Zenon, <1>2, <1>4, PassFields
  <2>2. \A k \in {j} \cup reconciler.next : IsJob(k) /\ k.name = reconciler.name
    BY Zenon, <1>2, RowIs
  <2>3. pc \in {"stop", "delete", "project", "finalizer"} /\ pc # "finalizer"
    BY <1>4
  <2>4. ReconcilerHolds(reconciler', resource, cache, jobs, created)
    BY Zenon, <1>0, <1>1, <2>1, <2>2, <2>3, DeletionGoesOn
  <2> QED
    BY Zenon, <1>1, <2>4, ControllerMoves
<1>5. \/ Row(reconciler.name) = {} /\ reconciler' = [reconciler EXCEPT !.pc = "finalizer"]
      \/ \E j \in Row(reconciler.name) : \E pc \in {"stop", "delete", "project"} :
            reconciler' = [reconciler EXCEPT !.stored = {j}, !.pc = pc]
  BY Zenon DEF reconcileDeletion
<1> QED
  BY Zenon, <1>3, <1>4, <1>5

(* The Job is stopped first.                                                *)
LEMMA StopJobKeeps ==
    ASSUME ControllerInv, StopJob PROVE ControllerInv'
<1>0. reconciler.pc \in Deleting
  BY DEF StopJob, Deleting
<1>1. Stays /\ resource' = resource /\ JobsHold(jobs, resource) /\ UNCHANGED <<resource, cache, created>>
  BY Zenon DEF StopJob, ControllerInv, Stays
<1>2. PICK j \in reconciler.stored :
        \/ /\ Accepted(Stopped(j)) /\ Wrote(Row(j.name), {Updated(Stopped(j))})
           /\ reconciler' = [reconciler EXCEPT !.pc = "project", !.stored = {Stopped(j)}]
        \/ Requeue /\ UNCHANGED jobs
  BY Zenon DEF StopJob
<1>3. /\ IsJob(j) /\ j.name = reconciler.name /\ DOMAIN reconciler = ReconcilerFields
      /\ \A k \in reconciler.next : IsJob(k) /\ k.name = reconciler.name
  BY Zenon, <1>0, PassIs
<1>4. IsJob(Stopped(j)) /\ Stopped(j).name = j.name
  <2>1. SameJob(j, Stopped(j))
    BY Zenon, <1>3, JobStays
  <2> QED
    BY Zenon, <2>1 DEF SameJob
<1>5. CASE /\ Accepted(Stopped(j)) /\ Wrote(Row(j.name), {Updated(Stopped(j))})
           /\ reconciler' = [reconciler EXCEPT !.pc = "project", !.stored = {Stopped(j)}]
  <2>1. JobsHold(jobs', resource)
    BY Zenon, <1>1, <1>4, <1>5, WrittenFollows
  <2>2. Goes(reconciler, reconciler', "project", {Stopped(j)}, reconciler.next)
    BY Zenon, <1>3, <1>5, PassFields
  <2>3. \A k \in {Stopped(j)} \cup reconciler.next : IsJob(k) /\ k.name = reconciler.name
    BY Zenon, <1>3, <1>4
  <2>4. "project" \in {"stop", "delete", "project", "finalizer"} /\ "project" # "finalizer"
    OBVIOUS
  <2>5. ReconcilerHolds(reconciler', resource, cache, jobs', created)
    BY Zenon, <1>0, <2>1, <2>2, <2>3, <2>4, DeletionGoesOn
  <2> QED
    BY Zenon, <1>1, <2>1, <2>5, ControllerMoves
<1>6. CASE Requeue /\ UNCHANGED jobs
  BY Zenon, <1>1, <1>6, IdleHolds, ControllerMoves DEF Requeue
<1> QED
  BY Zenon, <1>2, <1>5, <1>6

(* The Job is deleted, or is gone; the finalizer is next.                   *)
LEMMA DeleteJobKeeps ==
    ASSUME ControllerInv, DeleteJob PROVE ControllerInv'
<1>0. reconciler.pc \in Deleting
  BY DEF DeleteJob, Deleting
<1>1. /\ UNCHANGED <<cache, created, jobTombstones, jobIdempotency, jobCalls>> /\ resource' = resource
      /\ JobsHold(jobs, resource)
  BY Zenon DEF DeleteJob, ControllerInv
<1>2. PICK j \in reconciler.stored :
        \/ /\ Row(j.name) = {} /\ jobs' = jobs
           /\ reconciler' = [reconciler EXCEPT !.pc = "finalizer"]
        \/ \E k \in Row(j.name) : /\ Wrote({k}, {})
                                  /\ reconciler' = [reconciler EXCEPT !.pc = "finalizer"]
        \/ Requeue /\ jobs' = jobs
  BY Zenon DEF DeleteJob
<1>3. /\ j.name = reconciler.name /\ DOMAIN reconciler = ReconcilerFields
      /\ \A k \in reconciler.stored \cup reconciler.next : IsJob(k) /\ k.name = reconciler.name
  BY Zenon, <1>0, PassIs
<1>4. CASE Requeue /\ jobs' = jobs
  BY Zenon, <1>1, <1>4, IdleHolds DEF Requeue, ControllerInv
<1>5. ASSUME jobs' \subseteq jobs, \A k \in jobs' : k.name # reconciler.name,
             reconciler' = [reconciler EXCEPT !.pc = "finalizer"]
      PROVE  ControllerInv'
  <2>1. JobsHold(jobs', resource)
    <3>1. JobsFollow(jobs, jobs')
      BY Zenon, <1>1, <1>5, JobsGo
    <3> QED
      BY Zenon, <1>1, <3>1, JobsMove
  <2>2. Goes(reconciler, reconciler', "finalizer", reconciler.stored, reconciler.next)
    BY Zenon, <1>3, <1>5, PassFields
  <2>3. ReconcilerHolds(reconciler', resource, cache, jobs', created)
    BY Zenon, <1>0, <1>3, <1>5, <2>1, <2>2, DeletionGoesOn
  <2> QED
    BY Zenon, <1>1, <2>1, <2>3 DEF ControllerInv
<1>6. CASE Row(j.name) = {} /\ jobs' = jobs /\ reconciler' = [reconciler EXCEPT !.pc = "finalizer"]
  <2>1. \A k \in jobs' : k.name # reconciler.name
    BY Zenon, <1>3, <1>6 DEF Row
  <2> QED
    BY Zenon, <1>5, <1>6, <2>1
<1>7. ASSUME NEW k \in Row(j.name), Wrote({k}, {}), reconciler' = [reconciler EXCEPT !.pc = "finalizer"] PROVE ControllerInv'
  <2>1. jobs' \subseteq jobs /\ k \notin jobs'
    BY Zenon, <1>7 DEF Wrote
  <2>2. \A i \in jobs' : i.name # reconciler.name
    <3>1. Row(reconciler.name) = {k}
      BY Zenon, <1>3, <1>7, RowIs
    <3> QED
      BY Zenon, <2>1, <3>1 DEF Row
  <2> QED
    BY Zenon, <1>5, <1>7, <2>1, <2>2
<1> QED
  BY Zenon, <1>2, <1>4, <1>6, <1>7

---------------------------------------------------------------------------
(* The controller's writes of resources.                                    *)

(* A write that is accepted is based on what is stored.                     *)
LEMMA PutIs ==
    ASSUME ControllerInv, NEW name \in JobNames, NEW r, IsCopy(r, name, resource, created), UpToDate(name, r)
    PROVE  resource[name] = {r} /\ IsResource(r, created)
<1>1. PICK x \in resource[name] : x.uid = r.uid /\ x.version = r.version
  BY Zenon DEF UpToDate
<1>2. x = r
  BY Zenon, <1>1 DEF IsCopy, CopyOf
<1> QED
  BY Zenon, <1>1, <1>2, StoredIs

(* A finalizer or a status is added.                                        *)
LEMMA PutEvolves ==
    ASSUME ControllerInv, NEW name \in JobNames, NEW r, IsCopy(r, name, resource, created), NEW s,
           s.uid = r.uid, s.version = r.version, ~(s.deleting /\ ~s.finalizer), Evolves(r, [s EXCEPT !.version = @ + 1]),
           Put(name, s), created' = created
    PROVE  Succeeds(resource, created, resource', created')
<1>1. UpToDate(name, r)
  BY Zenon DEF Put, UpToDate
<1>2. resource[name] = {r}
  BY Zenon, <1>1, PutIs
<1>3. resource' = [resource EXCEPT ![name] = {[s EXCEPT !.version = @ + 1]}]
  BY Zenon DEF Put
<1> DEFINE after == {[s EXCEPT !.version = @ + 1]}
<1>4. \E x \in resource[name] : \E y : after = {y} /\ Evolves(x, y)
  BY Zenon, <1>2
<1> HIDE DEF after
<1>5. resource' = [resource EXCEPT ![name] = after]
  BY Zenon, <1>3 DEF after
<1> QED
  BY Zenon, <1>4, <1>5, ResourceWritten

(* The resources that a pass writes.                                        *)
LEMMA PassWrites ==
    ASSUME NEW r, NEW n, IsResource(r, n)
    PROVE  /\ LET s == [r EXCEPT !.finalizer = TRUE]
              IN  /\ s.uid = r.uid /\ s.version = r.version /\ s.finalizer
                  /\ Evolves(r, [s EXCEPT !.version = @ + 1])
           /\ \A status : LET s == [r EXCEPT !.status = status]
                          IN  /\ s.uid = r.uid /\ s.version = r.version /\ ~(s.deleting /\ ~s.finalizer)
                              /\ Evolves(r, [s EXCEPT !.version = @ + 1])
           /\ LET s == [r EXCEPT !.finalizer = FALSE]
              IN  s.uid = r.uid /\ s.version = r.version /\ s.deleting = r.deleting /\ ~s.finalizer
<1>0. DOMAIN r = ResourceFields
  BY Zenon DEF IsResource
<1>1. LET s == [r EXCEPT !.finalizer = TRUE]
      IN  /\ s.uid = r.uid /\ s.version = r.version /\ s.finalizer
          /\ Evolves(r, [s EXCEPT !.version = @ + 1])
  BY DEF IsResource, Evolves, ResourceFields
<1>2. ASSUME NEW status
      PROVE  LET s == [r EXCEPT !.status = status]
             IN  /\ s.uid = r.uid /\ s.version = r.version /\ ~(s.deleting /\ ~s.finalizer)
                 /\ Evolves(r, [s EXCEPT !.version = @ + 1])
  BY DEF IsResource, Evolves, ResourceFields
<1>3. LET s == [r EXCEPT !.finalizer = FALSE]
      IN  s.uid = r.uid /\ s.version = r.version /\ s.deleting = r.deleting /\ ~s.finalizer
  BY DEF IsResource, ResourceFields
<1> QED
  BY Zenon, <1>1, <1>2, <1>3

(* The finalizer is added before anything else is done.                     *)
LEMMA AddFinalizerKeeps ==
    ASSUME ControllerInv, NEW name \in JobNames, AddFinalizer(name) PROVE ControllerInv'
<1>1. PICK r \in cache[name] : ~r.deleting /\ ~r.finalizer /\ Put(name, [r EXCEPT !.finalizer = TRUE])
  BY Zenon DEF AddFinalizer
<1>2. IsCopy(r, name, resource, created) /\ IsResource(r, created)
  BY ZenonT(60) DEF ControllerInv, CacheHolds, IsCopy
<1>3. created' = created /\ UNCHANGED <<cache, jobs, jobTombstones, jobIdempotency>> /\ reconciler' = reconciler /\ CallsHold(jobCalls')
  BY Zenon DEF AddFinalizer, Stays, ControllerInv
<1> DEFINE s == [r EXCEPT !.finalizer = TRUE]
<1>4. /\ s.uid = r.uid /\ s.version = r.version /\ s.finalizer
      /\ Evolves(r, [s EXCEPT !.version = @ + 1]) /\ Put(name, s)
  BY Zenon, <1>1, <1>2, PassWrites
<1> HIDE DEF s
<1>5. Succeeds(resource, created, resource', created')
  BY Zenon, <1>2, <1>3, <1>4, PutEvolves
<1> QED
  BY Zenon, <1>3, <1>5, ResourcesMove

(* A pass shows the status of the Job, when the resource has not changed.   *)
LEMMA ProjectKeeps ==
    ASSUME ControllerInv, projectStatus PROVE ControllerInv'
<1>0. reconciler.pc \in Converging \cup Deleting \cup {"project", "finalizer"}
  BY Zenon DEF projectStatus
<1>1. PICK r \in reconciler.resource : \E status :
          \/ Put(reconciler.name, [r EXCEPT !.status = status])
          \/ UNCHANGED resource
  BY Zenon DEF projectStatus
<1>2. /\ created' = created /\ UNCHANGED <<cache, jobs, jobTombstones, jobIdempotency>> /\ reconciler' = Idle
      /\ CallsHold(jobCalls') /\ created \in Nat /\ ResourcesHold(resource, created) /\ DOMAIN resource = JobNames
  BY Zenon DEF projectStatus, Requeue, Stays, ControllerInv, ResourcesHold
<1>3. reconciler.name \in JobNames /\ IsCopy(r, reconciler.name, resource, created)
  BY Zenon, <1>0, PassIs
<1>4. IsResource(r, created)
  BY Zenon, <1>3 DEF IsCopy
<1>5. ASSUME NEW status, Put(reconciler.name, [r EXCEPT !.status = status])
      PROVE  Succeeds(resource, created, resource', created')
  <2> DEFINE s == [r EXCEPT !.status = status]
  <2>1. /\ s.uid = r.uid /\ s.version = r.version /\ ~(s.deleting /\ ~s.finalizer)
        /\ Evolves(r, [s EXCEPT !.version = @ + 1]) /\ Put(reconciler.name, s)
    BY Zenon, <1>4, <1>5, PassWrites
  <2> HIDE DEF s
  <2> QED
    BY Zenon, <1>2, <1>3, <2>1, PutEvolves
<1>6. CASE UNCHANGED resource
  <2>1. DOMAIN resource' = JobNames /\ \A m \in JobNames : resource'[m] = resource[m]
    BY Zenon, <1>2, <1>6
  <2>2. Succeeds(resource, created, resource', created')
    BY Zenon, <1>2, <2>1, ResourcesStay
  <2> QED
    BY Zenon, <1>2, <2>2, ResourcesMove
<1> QED
  BY Zenon, <1>1, <1>2, <1>5, <1>6, ResourcesMove

(* The finalizer goes, and the resource with it: no Job has its UID, and    *)
(* whoever holds a copy knows that it is being deleted.                     *)
LEMMA FinalizerKeeps ==
    ASSUME ControllerInv, removeFinalizer PROVE ControllerInv'
<1>0. reconciler.pc = "finalizer" /\ reconciler.pc \in Converging \cup Deleting \cup {"project", "finalizer"}
  BY Zenon DEF removeFinalizer
<1> DEFINE name == reconciler.name
<1>1. PICK r \in reconciler.resource :
          \/ UpToDate(name, r) /\ Put(name, [r EXCEPT !.finalizer = FALSE])
          \/ UNCHANGED resource
  BY Zenon DEF removeFinalizer
<1>2. /\ created' = created /\ UNCHANGED <<cache, jobs, jobTombstones, jobIdempotency>> /\ reconciler' = Idle
      /\ CallsHold(jobCalls') /\ created \in Nat /\ ResourcesHold(resource, created) /\ DOMAIN resource = JobNames
  BY Zenon DEF removeFinalizer, Requeue, Stays, ControllerInv, ResourcesHold
<1>3. name \in JobNames /\ IsCopy(r, name, resource, created) /\ PassHolds(reconciler, r, cache, jobs)
  BY Zenon, <1>0, PassIs
<1>4. r.deleting /\ (\A c \in cache[name] : c.uid = r.uid => c.deleting) /\ \A j \in jobs : j.uid # r.uid
  BY Zenon, <1>0, <1>3 DEF PassHolds
<1> HIDE DEF name
<1>5. CASE UNCHANGED resource
  <2>1. DOMAIN resource' = JobNames /\ \A m \in JobNames : resource'[m] = resource[m]
    BY Zenon, <1>2, <1>5
  <2>2. Succeeds(resource, created, resource', created')
    BY Zenon, <1>2, <2>1, ResourcesStay
  <2> QED
    BY Zenon, <1>2, <2>2, ResourcesMove
<1>6. CASE UpToDate(name, r) /\ Put(name, [r EXCEPT !.finalizer = FALSE])
  <2>1. resource[name] = {r} /\ IsResource(r, created)
    BY Zenon, <1>3, <1>6, PutIs
  <2>2. resource' = [resource EXCEPT ![name] = {}]
    <3> DEFINE s == [r EXCEPT !.finalizer = FALSE]
    <3>1. s.deleting = r.deleting /\ ~s.finalizer /\ Put(name, s)
      BY Zenon, <1>6, <2>1, PassWrites
    <3> HIDE DEF s
    <3> QED
      BY Zenon, <1>4, <3>1 DEF Put
  <2>3. DOMAIN resource' = JobNames /\ resource'[name] = {} /\ \A m \in JobNames : m # name => resource'[m] = resource[m]
    BY Zenon, <1>2, <1>3, <2>2
  <2>4. \A m \in JobNames : resource'[m] \subseteq resource[m]
    BY Zenon, <2>3
  <2>5. \A m \in JobNames : \A x \in resource[m] : x \in resource'[m] \/ (m = name /\ x = r)
    BY Zenon, <2>1, <2>3
  <2>6. ResourcesHold(resource', created)
    <3>1. ASSUME NEW m \in JobNames, NEW x \in resource'[m]
          PROVE  IsResource(x, created) /\ \A o \in JobNames : \A y \in resource'[o] : m = o \/ x.uid = y.uid => m = o /\ x = y
      BY ZenonT(60), <1>2, <2>4, <3>1 DEF ResourcesHold
    <3> QED
      BY Zenon, <2>3, <3>1 DEF ResourcesHold
  <2>7. ASSUME NEW m \in JobNames, NEW c \in cache[m] PROVE IsCopy(c, m, resource', created)
    <3>1. IsCopy(c, m, resource, created)
      BY Zenon, <2>7 DEF ControllerInv, CacheHolds
    <3>2. \A o \in JobNames : \A x \in resource'[o] : x.uid = c.uid => o = m /\ CopyOf(c, x)
      BY Zenon, <2>4, <3>1 DEF IsCopy
    <3>3. c.finalizer /\ ~c.deleting => \E x \in resource'[m] : x.uid = c.uid
      <4>1. ASSUME c.finalizer, ~c.deleting PROVE \E x \in resource'[m] : x.uid = c.uid
        <5>1. PICK x \in resource[m] : x.uid = c.uid
          BY Zenon, <3>1, <4>1 DEF IsCopy
        <5>2. ~(m = name /\ x = r)
          BY Zenon, <1>4, <2>7, <4>1, <5>1
        <5> QED
          BY Zenon, <2>5, <5>1, <5>2
      <4> QED
        BY Zenon, <4>1
    <3> QED
      BY Zenon, <3>1, <3>2, <3>3 DEF IsCopy
  <2>8. CacheHolds(cache, resource', created)
    BY Zenon, <2>7 DEF ControllerInv, CacheHolds
  <2>9. JobsHold(jobs, resource')
    <3>1. ASSUME NEW j \in jobs, j.uid < 0
          PROVE  j.name \in JobNames /\ \E x \in resource'[j.name] : x.uid = j.uid /\ x.finalizer
      <4>1. j.name \in JobNames /\ \E x \in resource[j.name] : x.uid = j.uid /\ x.finalizer
        BY Zenon, <3>1 DEF ControllerInv, JobsHold
      <4>2. PICK x \in resource[j.name] : x.uid = j.uid /\ x.finalizer
        BY Zenon, <4>1
      <4>3. x # r
        BY Zenon, <1>4, <4>2
      <4> QED
        BY Zenon, <2>5, <4>1, <4>2, <4>3
    <3> QED
      BY Zenon, <3>1 DEF ControllerInv, JobsHold
  <2> QED
    BY Zenon, <1>2, <2>6, <2>8, <2>9, IdleHolds DEF ControllerInv
<1> QED
  BY Zenon, <1>1, <1>5, <1>6

(* A pass begins with the copy in the cache.                                *)
LEMMA ReconcileKeeps ==
    ASSUME ControllerInv, NEW name \in JobNames, ReconcileResource(name) PROVE ControllerInv'
<1>1. PICK r \in cache[name] :
          /\ r.deleting \/ r.finalizer
          /\ reconciler' = [Idle EXCEPT !.pc = IF r.deleting THEN "deletion" ELSE "get", !.name = name, !.resource = {r}]
  BY Zenon DEF ReconcileResource
<1>2. IsCopy(r, name, resource, created) /\ \A d \in cache[name] : d = r
  BY Zenon DEF ControllerInv, CacheHolds
<1>3. /\ DOMAIN reconciler' = ReconcilerFields /\ reconciler'.name = name /\ reconciler'.resource = {r}
      /\ reconciler'.stored = {} /\ reconciler'.next = {}
      /\ reconciler'.pc = IF r.deleting THEN "deletion" ELSE "get"
  BY <1>1 DEF Idle, ReconcilerFields
<1>4. PassHolds(reconciler', r, cache, jobs)
  <2>1. CASE r.deleting
    <3>1. reconciler'.pc = "deletion" /\ reconciler'.pc # "finalizer" /\ reconciler'.pc \notin {"get", "create", "update"}
      BY <1>3, <2>1
    <3> QED
      BY Zenon, <1>2, <1>3, <2>1, <3>1 DEF PassHolds
  <2>2. CASE ~r.deleting
    <3>1. reconciler'.pc = "get" /\ reconciler'.pc # "finalizer" /\ reconciler'.pc \notin {"deletion", "stop", "delete", "finalizer"}
      BY <1>3, <2>2
    <3> QED
      BY Zenon, <1>1, <2>2, <3>1 DEF PassHolds
  <2> QED
    BY Zenon, <2>1, <2>2
<1>5. reconciler'.pc \in {"get", "create", "update", "project", "deletion", "stop", "delete", "finalizer"}
  BY Zenon, <1>3
<1>6. ReconcilerHolds(reconciler', resource, cache, jobs, created)
  BY Zenon, <1>2, <1>3, <1>4, <1>5 DEF ReconcilerHolds
<1>7. Stays /\ resource' = resource /\ jobs' = jobs /\ JobsHold(jobs, resource)
  BY Zenon DEF ReconcileResource, Reads, ControllerInv
<1> QED
  BY Zenon, <1>6, <1>7, ControllerMoves

---------------------------------------------------------------------------
(* The theorem.                                                             *)

(* No resource, no Job and no call.                                         *)
LEMMA ControllerStarts ==
    ASSUME jobs = {}, JobInit, ControllerInit PROVE ControllerInv
<1>1. created = 0 /\ created \in Nat /\ resource = [n \in JobNames |-> {}] /\ cache = resource /\ reconciler = Idle
  BY DEF ControllerInit
<1>2. jobTombstones = {} /\ jobIdempotency = {} /\ jobCalls = [c \in Clients |-> {}]
  BY Zenon DEF JobInit
<1>3. ResourcesHold(resource, created) /\ CacheHolds(cache, resource, created)
  BY Zenon, <1>1 DEF ResourcesHold, CacheHolds
<1>4. JobsHold(jobs, resource) /\ CallsHold(jobCalls) /\ IsFiniteSet(jobTombstones) /\ IsFiniteSet(jobIdempotency)
  BY Zenon, <1>2, FS_EmptySet DEF JobsHold, CallsHold
<1>5. ReconcilerHolds(reconciler, resource, cache, jobs, created)
  BY Zenon, <1>1, IdleHolds
<1> QED
  BY Zenon, <1>1, <1>3, <1>4, <1>5 DEF ControllerInv

(* Every step of the controller keeps the invariant.                        *)
LEMMA ControllerStepKeeps ==
    ASSUME ControllerInv, ControllerStep PROVE ControllerInv'
<1>1. ASSUME NEW n \in JobNames, AddFinalizer(n) \/ ReconcileResource(n) PROVE ControllerInv'
  BY Zenon, <1>1, AddFinalizerKeeps, ReconcileKeeps
<1> QED
  BY Zenon, <1>1, GetKeeps, CreateKeeps, UpdateKeeps, DeletionKeeps, StopJobKeeps, DeleteJobKeeps, FinalizerKeeps,
     ProjectKeeps DEF ControllerStep

(* Every step keeps the invariant.                                          *)
LEMMA StepKeeps ==
    ASSUME NEW requests, NEW asked, WellFormed(requests), ControllerInv, [ControllerNext(requests, asked)]_<<jobVars, controllerVars>>
    PROVE  ControllerInv'
<1>1. CASE UNCHANGED <<jobVars, controllerVars>>
  BY Zenon, <1>1 DEF jobVars, controllerVars, ControllerInv
<1>2. CASE JobApiStep(requests)
  BY Zenon, <1>2, ApiKeeps
<1>3. ASSUME NEW n \in JobNames, NEW state \in JobStates, Observe(n, state), UNCHANGED controllerVars PROVE ControllerInv'
  BY Zenon, <1>3, ObserveKeeps
<1>4. CASE ResourceStep(asked)
  <2>1. ASSUME NEW n \in JobNames, Watch(n) \/ DeleteResource(n) PROVE ControllerInv'
    BY Zenon, <2>1, WatchKeeps, DeleteKeeps
  <2>2. ASSUME NEW n \in JobNames, NEW a \in asked, EditResource(n, a.spec, a.state) PROVE ControllerInv'
    BY Zenon, <2>2, EditKeeps
  <2>3. ASSUME NEW c \in Clients, WriteCR(c) PROVE ControllerInv'
    BY Zenon, <2>3, WriteKeeps
  <2>4. CASE ControllerStep
    BY Zenon, <2>4, ControllerStepKeeps
  <2>5. CASE StopController
    BY Zenon, <2>5, StopKeeps
  <2> QED
    BY Zenon, <1>4, <2>1, <2>2, <2>3, <2>4, <2>5 DEF ResourceStep
<1> QED
  BY Zenon, <1>1, <1>2, <1>3, <1>4 DEF ControllerNext

(* The finalizer holds, for any names, clients, requests and edits of       *)
(* users, whatever the cache has missed and wherever the controller stops:  *)
(* a Job that was made from a resource has its resource as long as it       *)
(* exists, so no execution is left that nothing refers to                   *)
(* (syncjob_controller.go, reconcileDeletion).                              *)
THEOREM JobsHaveTheirResource ==
    ASSUME NEW requests, NEW asked, WellFormed(requests)
    PROVE  ControllerSpec(requests, asked) => []FinalizerHolds
<1>1. jobs = {} /\ JobInit /\ ControllerInit => ControllerInv
  BY Zenon, ControllerStarts
<1>2. ControllerInv /\ [ControllerNext(requests, asked)]_<<jobVars, controllerVars>> => ControllerInv'
  BY Zenon, StepKeeps
<1>3. ControllerInv => FinalizerHolds
  BY Zenon DEF ControllerInv, JobsHold, FinalizerHolds
<1> QED
  BY <1>1, <1>2, <1>3, PTL DEF ControllerSpec

===============================================================================
