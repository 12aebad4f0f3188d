--------------------------- MODULE ReplicationProofs ---------------------------
(***************************************************************************)
(* The replication log and the channel that carries it to the peer region, *)
(* for any Jobs, URIs, batch sizes, handlers, streams and faults.          *)
(*                                                                         *)
(* LogIsWhole is not inductive: a flush writes what is pending, so the     *)
(* invariant has to say how the pending entries are numbered.  They are    *)
(* consecutive and end at the writer's number, start at most one above the *)
(* last object, and where an object exists already it is the same entry.   *)
(*                                                                         *)
(* AdmittedOnce is not inductive either: the sender saves what a call      *)
(* answered some steps ago, and calls outlive the sender that made them.   *)
(* The invariant says that the replicator's batch is the log after since,  *)
(* that the one call it waits for is about the first entry of the batch,   *)
(* and that of the calls on one checkpoint at most one holds its admission.*)
(***************************************************************************)
EXTENDS CheckpointReplication, FiniteSetTheorems, TLAPS

(* No leaf depends on how busy the machine is: each prover may take longer  *)
(* than its default of a few seconds.                                       *)
USE SMTT(30), ZenonT(30)

-------------------------------------------------------------------------------
(* The log.                                                                 *)

Entries == [job : Jobs, epoch : 0 .. MaxSequence, uri : Uris, sequence : Nat]

(* The entries of batch are numbered up to last, join objects up to n, and  *)
(* agree with them.                                                         *)
Consecutive(batch, last) ==
    /\ batch \in Seq(Entries) /\ Len(batch) <= last
    /\ \A i \in 1 .. Len(batch) : batch[i].sequence = last - Len(batch) + i
Agrees(batch, stored, n) ==
    \A i \in 1 .. Len(batch) : batch[i].sequence <= n => stored[batch[i].sequence] = batch[i]

LogUpTo(n) ==
    /\ DOMAIN objects = 1 .. n
    /\ sequence \in Nat /\ n <= sequence
    /\ Consecutive(pending, sequence) /\ sequence - Len(pending) <= n
    /\ Agrees(pending, objects, n)
    /\ \A e \in published : e.sequence \in 1 .. n /\ objects[e.sequence] = e
LogInv == \E n \in Nat : LogUpTo(n)

---------------------------------------------------------------------------
(* The highest key of a log of n entries is n.                              *)
LEMMA HighestOfWhole == ASSUME NEW n \in Nat PROVE HighestKey(1 .. n) = n
<1>1. CASE n = 0
  BY <1>1 DEF HighestKey
<1>2. CASE n # 0
  <2>1. 1 .. n # {} /\ n \in 1 .. n /\ \A t \in 1 .. n : t <= n
    BY <1>2
  <2>2. \A s \in 1 .. n : (\A t \in 1 .. n : t <= s) => s = n
    BY <2>1
  <2>. QED BY <2>1, <2>2 DEF HighestKey
<1>. QED BY <1>1, <1>2

(* Writing the first k entries of such a batch extends the log without a    *)
(* gap, leaves every entry as it was, and the batch still agrees with it.   *)
LEMMA FlushExtends ==
    ASSUME NEW n \in Nat, NEW last \in Nat, NEW batch, NEW k \in 0 .. Len(batch),
           DOMAIN objects = 1 .. n, n <= last, Consecutive(batch, last),
           last - Len(batch) <= n, Agrees(batch, objects, n)
    PROVE  \E m \in Nat : /\ n <= m /\ m <= last /\ last - Len(batch) + k <= m
                          /\ DOMAIN PutObject(batch, k) = 1 .. m
                          /\ \A s \in 1 .. n : PutObject(batch, k)[s] = objects[s]
                          /\ Agrees(batch, PutObject(batch, k), m)
<1>. DEFINE written == {batch[i].sequence : i \in 1 .. k}
            m == IF last - Len(batch) + k <= n THEN n ELSE last - Len(batch) + k
<1>1. Len(batch) \in Nat /\ k \in Nat /\ k <= Len(batch) /\ Len(batch) <= last
  BY DEF Consecutive
<1>2. m \in Nat /\ n <= m /\ m <= last /\ last - Len(batch) + k <= m
  BY <1>1
<1>3. \A i \in 1 .. k : batch[i].sequence = last - Len(batch) + i
  BY <1>1 DEF Consecutive
<1>4. \A s \in written : s \in 1 .. m
  BY <1>1, <1>2, <1>3
<1>5. \A s \in 1 .. m : s \in 1 .. n \/ s \in written
  <2>. SUFFICES ASSUME NEW s \in 1 .. m, ~(s <= n) PROVE s \in written
    BY <1>2
  <2>1. s - (last - Len(batch)) \in 1 .. k
    BY <1>1, <1>2
  <2>2. batch[s - (last - Len(batch))].sequence = s
    BY <1>1, <1>3, <2>1
  <2>. QED BY <2>1, <2>2
<1>6. DOMAIN PutObject(batch, k) = 1 .. m
  <2>1. DOMAIN PutObject(batch, k) = (DOMAIN objects) \union written
    BY DEF PutObject
  <2>2. 1 .. n \subseteq 1 .. m
    BY <1>2
  <2>. QED BY Zenon, <1>4, <1>5, <2>1, <2>2
<1>7. \A i \in 1 .. k : PutObject(batch, k)[batch[i].sequence] = batch[i]
  <2>. SUFFICES ASSUME NEW i \in 1 .. k PROVE PutObject(batch, k)[batch[i].sequence] = batch[i]
    OBVIOUS
  <2>. DEFINE s == batch[i].sequence
              j == CHOOSE x \in 1 .. k : batch[x].sequence = s
  <2>1. j \in 1 .. k /\ batch[j].sequence = s
    BY Zenon
  <2>2. j = i
    BY <1>1, <1>3, <2>1
  <2>3. PutObject(batch, k)[s] = batch[j]
    BY Zenon DEF PutObject
  <2>. QED BY Zenon, <2>2, <2>3
<1>8. \A s \in 1 .. n : PutObject(batch, k)[s] = objects[s]
  <2>. SUFFICES ASSUME NEW s \in 1 .. n PROVE PutObject(batch, k)[s] = objects[s]
    OBVIOUS
  <2>1. CASE s \in written
    <3>1. PICK i \in 1 .. k : s = batch[i].sequence
      BY <2>1
    <3>2. i \in 1 .. Len(batch) /\ batch[i].sequence <= n
      BY <1>1, <3>1
    <3>. QED BY <1>7, <3>1, <3>2 DEF Agrees
  <2>2. CASE s \notin written
    BY <2>2 DEF PutObject
  <2>. QED BY <2>1, <2>2
<1>9. Agrees(batch, PutObject(batch, k), m)
  <2>. SUFFICES ASSUME NEW i \in 1 .. Len(batch), batch[i].sequence <= m
                PROVE  PutObject(batch, k)[batch[i].sequence] = batch[i]
    BY DEF Agrees
  <2>1. batch[i].sequence = last - Len(batch) + i
    BY DEF Consecutive
  <2>2. CASE i \in 1 .. k
    BY <1>7, <2>2
  <2>3. CASE i \notin 1 .. k
    <3>1. batch[i].sequence \in 1 .. n
      BY <1>1, <2>1, <2>3
    <3>2. objects[batch[i].sequence] = batch[i]
      BY <3>1 DEF Agrees
    <3>. QED BY <1>8, <3>1, <3>2
  <2>. QED BY <2>2, <2>3
<1>. QED BY <1>2, <1>6, <1>8, <1>9

(* Numbering a record keeps the batch consecutive and in agreement.         *)
LEMMA NumberedIsConsecutive ==
    ASSUME NEW n \in Nat, LogUpTo(n), NEW record \in [job : Jobs, epoch : 0 .. MaxSequence, uri : Uris]
    PROVE  /\ Consecutive(Numbered(record), sequence + 1)
           /\ Len(Numbered(record)) = Len(pending) + 1
           /\ Numbered(record)[Len(pending) + 1] = Entry(record, sequence + 1)
           /\ Agrees(Numbered(record), objects, n)
<1>. DEFINE e == Entry(record, sequence + 1)
<1>1. e \in Entries /\ e.sequence = sequence + 1
  BY DEF Entry, Entries, LogUpTo
<1>2. /\ pending \in Seq(Entries) /\ sequence \in Nat /\ n <= sequence /\ Len(pending) <= sequence
      /\ \A i \in 1 .. Len(pending) : pending[i].sequence = sequence - Len(pending) + i
  BY DEF LogUpTo, Consecutive
<1>. HIDE DEF e
<1>3. /\ Append(pending, e) \in Seq(Entries) /\ Len(Append(pending, e)) = Len(pending) + 1
      /\ Append(pending, e)[Len(pending) + 1] = e
      /\ \A i \in 1 .. Len(pending) : Append(pending, e)[i] = pending[i]
  BY <1>1, <1>2
<1>4. Numbered(record) = Append(pending, e)
  BY DEF Numbered, e
<1>5. \A i \in 1 .. Len(pending) + 1 : i \in 1 .. Len(pending) \/ i = Len(pending) + 1
  BY <1>2
<1>6. Consecutive(Append(pending, e), sequence + 1)
  BY <1>1, <1>2, <1>3, <1>5 DEF Consecutive
<1>7. Agrees(Append(pending, e), objects, n)
  <2>1. Agrees(pending, objects, n)
    BY DEF LogUpTo
  <2>. QED BY <1>1, <1>2, <1>3, <1>5, <2>1 DEF Agrees
<1>. QED BY <1>3, <1>4, <1>6, <1>7 DEF e

(* A flush of a batch that contains what is pending keeps the log whole.    *)
LEMMA FlushKeepsLog ==
    ASSUME NEW n \in Nat, NEW last \in Nat, NEW batch, NEW k \in 0 .. Len(batch), LogUpTo(n),
           sequence <= last, Consecutive(batch, last), last - Len(batch) <= n, Agrees(batch, objects, n),
           flushLocked(batch, k), sequence' = last
    PROVE  \E m \in Nat : /\ DOMAIN objects' = 1 .. m /\ n <= m /\ m <= sequence' /\ last - Len(batch) + k <= m
                          /\ Consecutive(pending', sequence') /\ sequence' - Len(pending') <= m
                          /\ Agrees(pending', objects', m) /\ Agrees(batch, objects', m)
                          /\ \A s \in 1 .. n : objects'[s] = objects[s]
<1>1. DOMAIN objects = 1 .. n /\ n <= last
  BY DEF LogUpTo
<1>2. PICK m \in Nat : /\ n <= m /\ m <= last /\ last - Len(batch) + k <= m
                       /\ DOMAIN PutObject(batch, k) = 1 .. m
                       /\ \A s \in 1 .. n : PutObject(batch, k)[s] = objects[s]
                       /\ Agrees(batch, PutObject(batch, k), m)
  BY Zenon, <1>1, FlushExtends
<1>3. objects' = PutObject(batch, k)
  BY DEF flushLocked
<1>4. CASE k = Len(batch)
  <2>1. pending' = <<>> /\ Len(batch) \in Nat
    BY <1>4 DEF flushLocked, Consecutive
  <2>2. Consecutive(<<>>, last) /\ Agrees(<<>>, objects', m)
    BY DEF Consecutive, Agrees
  <2>3. last - Len(<<>>) <= m
    BY <1>2, <1>4, <2>1
  <2>. QED BY <1>2, <1>3, <2>1, <2>2, <2>3
<1>5. CASE k # Len(batch)
  <2>1. pending' = batch
    BY <1>5 DEF flushLocked
  <2>2. last - Len(batch) <= m
    BY <1>2 DEF Consecutive
  <2>. QED BY <1>2, <1>3, <2>1, <2>2
<1>. QED BY <1>4, <1>5

(* Every step keeps the invariant and every entry.                          *)
LEMMA LogStepKeeps ==
    ASSUME NEW n \in Nat, LogUpTo(n), [LogNext]_logVars
    PROVE  /\ LogInv'
           /\ \A s \in DOMAIN objects : s \in DOMAIN objects' /\ objects'[s] = objects[s]
<1>. DEFINE Kept == LogInv' /\ \A s \in DOMAIN objects : s \in DOMAIN objects' /\ objects'[s] = objects[s]
<1>0. DOMAIN objects = 1 .. n /\ sequence \in Nat
  BY DEF LogUpTo
<1>a. ASSUME UNCHANGED <<objects, sequence, pending, published>> PROVE Kept
  BY <1>a DEF LogInv, LogUpTo
<1>b. ASSUME NEW record \in [job : Jobs, epoch : 0 .. MaxSequence, uri : Uris], AppendDurable(record) PROVE Kept
  <2>. DEFINE batch == Numbered(record)
              e == Entry(record, sequence + 1)
  <2>1. PICK k \in 0 .. Len(batch) :
           /\ flushLocked(batch, k)
           /\ published' = IF k = Len(batch) THEN published \union {e} ELSE published
    BY <1>b DEF AppendDurable
  <2>2. /\ Consecutive(batch, sequence + 1) /\ Len(batch) = Len(pending) + 1
        /\ batch[Len(pending) + 1] = e /\ Agrees(batch, objects, n)
    BY NumberedIsConsecutive
  <2>3. sequence' = sequence + 1 /\ Len(pending) \in Nat /\ sequence - Len(pending) <= n
    BY <1>b DEF AppendDurable, LogUpTo, Consecutive
  <2>4. e.sequence = sequence + 1
    BY DEF Entry
  <2>. HIDE DEF batch, e
  <2>5. (sequence + 1) - Len(batch) <= n /\ sequence <= sequence + 1 /\ sequence + 1 \in Nat
    BY <1>0, <2>2, <2>3
  <2>6. PICK m \in Nat :
           /\ DOMAIN objects' = 1 .. m /\ n <= m /\ m <= sequence' /\ (sequence + 1) - Len(batch) + k <= m
           /\ Consecutive(pending', sequence') /\ sequence' - Len(pending') <= m
           /\ Agrees(pending', objects', m) /\ Agrees(batch, objects', m)
           /\ \A s \in 1 .. n : objects'[s] = objects[s]
    BY Zenon, <2>1, <2>2, <2>3, <2>5, FlushKeepsLog
  <2>7. \A x \in published : x.sequence \in 1 .. m /\ objects'[x.sequence] = x
    BY <2>6 DEF LogUpTo
  <2>8. k = Len(batch) => e.sequence \in 1 .. m /\ objects'[e.sequence] = e
    <3> SUFFICES ASSUME k = Len(batch) PROVE e.sequence \in 1 .. m /\ objects'[e.sequence] = e
      OBVIOUS
    <3>1. sequence + 1 <= m /\ sequence \in Nat /\ Len(pending) + 1 \in 1 .. Len(batch)
      BY <1>0, <2>2, <2>3, <2>5, <2>6
    <3>2. Agrees(batch, objects', m) /\ batch[Len(pending) + 1] = e
      BY <2>2, <2>6
    <3>3. e.sequence <= m => objects'[e.sequence] = e
      BY <3>1, <3>2 DEF Agrees
    <3> QED
      BY <2>4, <3>1, <3>3
  <2>9. \A x \in published' : x.sequence \in 1 .. m /\ objects'[x.sequence] = x
    BY <2>1, <2>7, <2>8
  <2>10. LogUpTo(m)'
    <3>1. sequence' \in Nat
      BY <2>3, <2>5
    <3> QED
      BY Zenon, <2>6, <2>9, <3>1 DEF LogUpTo
  <2>. QED BY <1>0, <2>6, <2>10 DEF LogInv
<1>c. ASSUME NEW record \in [job : Jobs, epoch : 0 .. MaxSequence, uri : Uris], AppendLater(record) PROVE Kept
  <2>1. /\ Consecutive(Numbered(record), sequence + 1) /\ Len(Numbered(record)) = Len(pending) + 1
        /\ Agrees(Numbered(record), objects, n)
    BY NumberedIsConsecutive
  <2>2. /\ sequence' = sequence + 1 /\ Len(pending) \in Nat /\ sequence - Len(pending) <= n
        /\ UNCHANGED published
    BY <1>c DEF AppendLater, LogUpTo, Consecutive
  <2>3. (sequence + 1) - Len(Numbered(record)) <= n /\ sequence <= sequence + 1 /\ sequence + 1 \in Nat
    BY <1>0, <2>1, <2>2
  <2>4. CASE pending' = Numbered(record) /\ UNCHANGED objects
    <3>1. LogUpTo(n)'
      BY <2>1, <2>2, <2>3, <2>4 DEF LogUpTo
    <3>. QED BY <2>4, <3>1 DEF LogInv
  <2>5. CASE \E k \in 0 .. Len(Numbered(record)) : flushLocked(Numbered(record), k)
    <3>1. PICK k \in 0 .. Len(Numbered(record)) : flushLocked(Numbered(record), k)
      BY <2>5
    <3>2. PICK m \in Nat :
             /\ DOMAIN objects' = 1 .. m /\ n <= m /\ m <= sequence'
             /\ Consecutive(pending', sequence') /\ sequence' - Len(pending') <= m
             /\ Agrees(pending', objects', m) /\ \A s \in 1 .. n : objects'[s] = objects[s]
      BY Zenon, <2>1, <2>2, <2>3, <3>1, FlushKeepsLog
    <3>3. \A x \in published' : x.sequence \in 1 .. m /\ objects'[x.sequence] = x
      BY <2>2, <3>2 DEF LogUpTo
    <3>4. LogUpTo(m)'
      BY <1>0, <2>2, <3>2, <3>3 DEF LogUpTo
    <3>. QED BY <1>0, <3>2, <3>4 DEF LogInv
  <2>. QED BY <1>c, <2>4, <2>5 DEF AppendLater
<1>d. ASSUME NEW k \in 0 .. Len(pending), flushLocked(pending, k), UNCHANGED <<sequence, published>> PROVE Kept
  <2>1. /\ Consecutive(pending, sequence) /\ sequence - Len(pending) <= n /\ Agrees(pending, objects, n)
        /\ sequence <= sequence
    BY <1>0 DEF LogUpTo
  <2>2. PICK m \in Nat :
           /\ DOMAIN objects' = 1 .. m /\ n <= m /\ m <= sequence'
           /\ Consecutive(pending', sequence') /\ sequence' - Len(pending') <= m
           /\ Agrees(pending', objects', m) /\ \A s \in 1 .. n : objects'[s] = objects[s]
    BY Zenon, <1>0, <1>d, <2>1, FlushKeepsLog
  <2>3. \A x \in published' : x.sequence \in 1 .. m /\ objects'[x.sequence] = x
    BY <1>d, <2>2 DEF LogUpTo
  <2>4. LogUpTo(m)'
    BY <1>0, <1>d, <2>2, <2>3 DEF LogUpTo
  <2>. QED BY <1>0, <2>2, <2>4 DEF LogInv
<1>e. ASSUME NewWriter PROVE Kept
  <2>1. sequence' = n /\ pending' = <<>> /\ UNCHANGED <<objects, published>>
    BY <1>0, <1>e, HighestOfWhole DEF NewWriter
  <2>2. Consecutive(<<>>, n) /\ Agrees(<<>>, objects, n) /\ n - Len(<<>>) <= n
    BY DEF Consecutive, Agrees
  <2>3. LogUpTo(n)'
    BY <2>1, <2>2 DEF LogUpTo
  <2>. QED BY <2>1, <2>3 DEF LogInv
<1>1. CASE \E j \in Jobs, u \in Uris, e \in 0 .. MaxSequence :
              LET record == [job |-> j, epoch |-> e, uri |-> u]
              IN  Publish(record) \/ AppendDurable(record) \/ AppendRefused(record) \/ AppendLater(record)
  <2>1. PICK record \in [job : Jobs, epoch : 0 .. MaxSequence, uri : Uris] :
           Publish(record) \/ AppendDurable(record) \/ AppendRefused(record) \/ AppendLater(record)
    BY <1>1
  <2>. QED BY <1>a, <1>b, <1>c, <2>1 DEF Publish, AppendRefused
<1>2. CASE Flush
  BY <1>2, <1>d DEF Flush
<1>3. CASE Closed
  BY Zenon, <1>3, <1>d DEF Closed
<1>4. CASE NewWriter
  BY <1>4, <1>e
<1>5. CASE Close \/ ReadNext \/ (\E k \in 1 .. MaxSequence : ReadBatch(k)) \/ (\E s \in DOMAIN objects : Damage(s))
  BY Zenon, <1>5, <1>a DEF Close, ReadNext, ReadBatch, Damage
<1>6. CASE UNCHANGED logVars
  BY <1>6, <1>a DEF logVars
<1>. QED BY Zenon, <1>1, <1>2, <1>3, <1>4, <1>5, <1>6 DEF LogNext

---------------------------------------------------------------------------
(* LogInv holds in every state of the log (wal.go:263-418).                 *)
THEOREM LogInvariant == LogSpec => []LogInv
<1>1. LogInit => LogInv
  <2>. SUFFICES ASSUME LogInit PROVE LogUpTo(0)
    BY DEF LogInv
  <2>1. DOMAIN objects = 1 .. 0 /\ sequence = 0 /\ pending = <<>> /\ published = {}
    BY DEF LogInit
  <2>. QED BY <2>1 DEF LogUpTo, Consecutive, Agrees
<1>2. LogInv /\ [LogNext]_logVars => LogInv'
  BY LogStepKeeps DEF LogInv
<1>. QED BY <1>1, <1>2, PTL DEF LogSpec

(* The log has no gap and holds every published checkpoint, whatever flush  *)
(* fails half-way and whenever a writer is closed or started again.         *)
THEOREM LogStaysWhole == LogSpec => []LogIsWhole
<1>1. LogInv => LogIsWhole
  BY HighestOfWhole DEF LogInv, LogUpTo, LogIsWhole
<1>. QED BY <1>1, LogInvariant, PTL

(* No entry of the log is ever replaced or removed.                         *)
THEOREM LogEntriesStay == LogSpec => LogIsAppendOnly
<1>1. LogInv /\ [LogNext]_logVars => [\A s \in DOMAIN objects : s \in DOMAIN objects' /\ objects'[s] = objects[s]]_logVars
  BY LogStepKeeps DEF LogInv
<1>. QED BY <1>1, LogInvariant, PTL DEF LogSpec, LogIsAppendOnly

-------------------------------------------------------------------------------
(* Replication.                                                             *)

Holding == {"deliver", "commit", "release"}
Stored == {objects[s] : s \in DOMAIN objects}
HandlerCalls(stored) == [entry : stored, phase : {"claim", "explain"} \union Holding, todo : SUBSET Streams, gone : BOOLEAN]
SameCheckpoint(e, f) == e.job = f.job /\ e.sequence = f.sequence
IsCommitted(rows, e) == \E a \in rows : SameCheckpoint(a.entry, e) /\ a.committed

(* The replicator is started once in the life of its process.               *)
RuntimeHolds(rt, rep) ==
    /\ rt \in [state : {"created", "starting", "running", "failed", "closed"}, started : BOOLEAN, closed : BOOLEAN,
              start : {"none", "dialling", "connected", "refused", "launched", "failed", "closed"},
              connected : BOOLEAN, channel : {"open", "closed"}]
    /\ rt.start \in {"dialling", "connected", "refused"} => ~rt.started
    /\ ~rt.started => rep.phase = "off"
(* Its batch is the part of the log after since, and since is no further    *)
(* than what is acknowledged, all of which was admitted for good.           *)
ReplicatorHolds(rep, saved, rows, stored) ==
    /\ rep \in [phase : {"off", "read", "send", "wait", "acknowledge", "ended"}, since : Nat, batch : Seq(stored)]
    /\ saved \in Nat /\ rep.since <= Largest(ResumeFrom, saved)
    /\ rep.phase \in {"send", "wait", "acknowledge"} => rep.batch # <<>>
    /\ \A i \in 1 .. Len(rep.batch) :
          /\ rep.since + i \in DOMAIN objects /\ rep.batch[i] = objects[rep.since + i]
          /\ rep.batch[i].sequence = rep.since + i
    /\ rep.phase = "acknowledge" => IsCommitted(rows, rep.batch[1])
    /\ \A s \in ResumeFrom + 1 .. saved : s \in DOMAIN objects /\ IsCommitted(rows, objects[s])
AdmissionsHold(rows, stored) ==
    /\ rows \subseteq [entry : stored, committed : BOOLEAN]
    /\ \A a, b \in rows : SameCheckpoint(a.entry, b.entry) => a = b
(* A call the sender waits for is about the first entry of its batch, and   *)
(* one that delivers or commits has its admission, not committed yet.       *)
HandlerTrue(c, rows, rep) ==
    /\ c.phase \in {"deliver", "commit"} => [entry |-> c.entry, committed |-> FALSE] \in rows
    /\ c.phase = "release" => \E a \in rows : a.entry = c.entry
    /\ ~c.gone => rep.phase = "wait" /\ c.entry = rep.batch[1]
(* One call is waited for, and no two work on the same checkpoint.          *)
Separate(c, d) ==
    /\ c.gone \/ d.gone
    /\ c.phase \in Holding /\ d.phase \in Holding => ~SameCheckpoint(c.entry, d.entry)
HandlersHold(hs, rows, rep, stored) ==
    /\ hs \in [Handlers -> SUBSET HandlerCalls(stored)]
    /\ \A h \in Handlers : \A c, d \in hs[h] : c = d
    /\ \A h \in Handlers : \A c \in hs[h] : HandlerTrue(c, rows, rep)
    /\ \A h, k \in Handlers : h # k => \A c \in hs[h], d \in hs[k] : Separate(c, d)
StreamsHold(ss, stored) ==
    ss \in [Streams -> [state : {"new", "open", "closed"}, job : SUBSET Jobs, from : Int, queue : Seq(stored)]]

ChannelInv ==
    /\ RuntimeHolds(runtime, replicator)
    /\ ReplicatorHolds(replicator, progress, admissions, Stored)
    /\ AdmissionsHold(admissions, Stored)
    /\ HandlersHold(handlers, admissions, replicator, Stored)
    /\ StreamsHold(streams, Stored)

(* How a step of a call may change the admissions: it keeps the committed   *)
(* ones and those of other checkpoints.                                     *)
Spares(c) ==
    /\ AdmissionsHold(admissions', Stored)
    /\ \A a \in admissions : a.committed => a \in admissions'
    /\ \A a \in admissions : a \in admissions' \/ (c.phase \in Holding /\ SameCheckpoint(a.entry, c.entry))

(* A handler's call is the one in its set.                                  *)
LEMMA TheCall ==
  ASSUME ChannelInv, NEW h \in Handlers, handlers[h] # {}
  PROVE  /\ handlers[h] = {Call(h)} /\ Call(h) \in HandlerCalls(Stored)
         /\ HandlerTrue(Call(h), admissions, replicator)
<1>1. Call(h) \in handlers[h] /\ \A c \in handlers[h] : c = Call(h)
  BY DEF Call, ChannelInv, HandlersHold
<1> QED
  BY <1>1 DEF ChannelInv, HandlersHold

(* A handler whose call goes on as one of new, which is at most one, leaves *)
(* the others as they were.                                                 *)
LEMMA HandlerMoves ==
  ASSUME ChannelInv, NEW h \in Handlers, handlers[h] # {}, Spares(Call(h)),
         NEW new \in SUBSET HandlerCalls(Stored), \A c, d \in new : c = d,
         handlers' = [handlers EXCEPT ![h] = new], UNCHANGED replicator \/ ~Call(h).gone,
         \A c \in new : /\ HandlerTrue(c, admissions', replicator') /\ (Call(h).gone => c.gone)
                        /\ c.entry = Call(h).entry
                        /\ \/ c.phase \in Holding => Call(h).phase \in Holding
                           \/ \A a \in admissions : ~SameCheckpoint(a.entry, c.entry)
  PROVE  HandlersHold(handlers', admissions', replicator', Stored)
<1> DEFINE c == Call(h)
<1>1. handlers[h] = {c} /\ c \in HandlerCalls(Stored)
  BY TheCall
<1>2. /\ handlers \in [Handlers -> SUBSET HandlerCalls(Stored)]
      /\ \A k \in Handlers : \A d, e \in handlers[k] : d = e
      /\ \A k \in Handlers : \A d \in handlers[k] : HandlerTrue(d, admissions, replicator)
      /\ \A k, l \in Handlers : k # l => \A d \in handlers[k], e \in handlers[l] : Separate(d, e)
  BY Zenon DEF ChannelInv, HandlersHold
<1>3. /\ handlers' \in [Handlers -> SUBSET HandlerCalls(Stored)] /\ handlers'[h] = new
      /\ \A k \in Handlers : k # h => handlers'[k] = handlers[k]
  BY Zenon, <1>2
<1>4. ASSUME NEW k \in Handlers, k # h, NEW d \in handlers[k]
      PROVE  HandlerTrue(d, admissions', replicator')
  <2>1. HandlerTrue(d, admissions, replicator) /\ Separate(d, c)
    BY <1>1, <1>2, <1>4
  <2>2. d.phase \in {"deliver", "commit"} => [entry |-> d.entry, committed |-> FALSE] \in admissions'
    <3> SUFFICES ASSUME d.phase \in {"deliver", "commit"}
                 PROVE  [entry |-> d.entry, committed |-> FALSE] \in admissions'
      BY Zenon
    <3>1. [entry |-> d.entry, committed |-> FALSE] \in admissions /\ d.phase \in Holding
      BY Zenon, <2>1 DEF HandlerTrue, Holding
    <3>2. ~(c.phase \in Holding /\ SameCheckpoint(d.entry, c.entry))
      BY Zenon, <2>1, <3>1 DEF Separate
    <3> QED
      BY Zenon, <3>1, <3>2 DEF Spares
  <2>3. d.phase = "release" => \E a \in admissions' : a.entry = d.entry
    <3> SUFFICES ASSUME d.phase = "release" PROVE \E a \in admissions' : a.entry = d.entry
      BY Zenon
    <3>1. PICK a \in admissions : a.entry = d.entry
      BY Zenon, <2>1 DEF HandlerTrue
    <3>2. ~(c.phase \in Holding /\ SameCheckpoint(d.entry, c.entry))
      BY Zenon, <2>1 DEF Separate, Holding
    <3> QED
      BY Zenon, <3>1, <3>2 DEF Spares
  <2>4. ~d.gone => replicator'.phase = "wait" /\ d.entry = replicator'.batch[1]
    BY Zenon, <2>1 DEF HandlerTrue, Separate
  <2> QED
    BY Zenon, <2>2, <2>3, <2>4 DEF HandlerTrue
<1>5. ASSUME NEW k \in Handlers, k # h, NEW d \in handlers[k], NEW n \in new
      PROVE  Separate(d, n) /\ Separate(n, d)
  <2>1. HandlerTrue(d, admissions, replicator) /\ Separate(d, c)
    BY <1>1, <1>2, <1>5
  <2>2. d.gone \/ n.gone
    BY Zenon, <2>1 DEF Separate
  <2>3. CASE n.phase \in Holding => c.phase \in Holding
    BY Zenon, <2>1, <2>2, <2>3 DEF Separate, SameCheckpoint
  <2>4. CASE \A a \in admissions : ~SameCheckpoint(a.entry, n.entry)
    <3>1. d.phase \in Holding => \E a \in admissions : a.entry = d.entry
      <4>1. CASE d.phase = "release"
        BY Zenon, <2>1, <4>1 DEF HandlerTrue
      <4>2. CASE d.phase \in {"deliver", "commit"}
        <5>1. [entry |-> d.entry, committed |-> FALSE] \in admissions
          BY Zenon, <2>1, <4>2 DEF HandlerTrue
        <5> QED
          BY Zenon, <5>1
      <4> QED
        BY Zenon, <4>1, <4>2 DEF Holding
    <3> QED
      BY Zenon, <2>2, <2>4, <3>1 DEF Separate, SameCheckpoint
  <2> QED
    BY Zenon, <2>3, <2>4
<1> HIDE DEF c
<1>6. \A k \in Handlers : \A d, e \in handlers'[k] : d = e
  BY Zenon, <1>2, <1>3
<1>7. \A k \in Handlers : \A d \in handlers'[k] : HandlerTrue(d, admissions', replicator')
  BY Zenon, <1>3, <1>4
<1>8. \A k, l \in Handlers : k # l => \A d \in handlers'[k], e \in handlers'[l] : Separate(d, e)
  <2> SUFFICES ASSUME NEW k \in Handlers, NEW l \in Handlers, k # l, NEW d \in handlers'[k], NEW e \in handlers'[l]
               PROVE  Separate(d, e)
    BY Zenon
  <2> QED
    BY Zenon, <1>2, <1>3, <1>5
<1> QED
  BY Zenon, <1>3, <1>6, <1>7, <1>8 DEF HandlersHold

(* A claim adds the admission of a checkpoint that has none.                *)
LEMMA ClaimSpares ==
  ASSUME ChannelInv, NEW c, NEW e \in Stored, \A a \in admissions : ~SameCheckpoint(a.entry, e),
         admissions' = admissions \union {[entry |-> e, committed |-> FALSE]}
  PROVE  Spares(c)
<1> DEFINE row == [entry |-> e, committed |-> FALSE]
<1>1. row \in [entry : Stored, committed : BOOLEAN] /\ row.entry = e
  OBVIOUS
<1> HIDE DEF row
<1>2. \A a \in admissions : ~SameCheckpoint(e, a.entry)
  BY DEF SameCheckpoint
<1>3. AdmissionsHold(admissions, Stored) /\ admissions' = admissions \union {row}
  BY Zenon DEF ChannelInv, row
<1> QED
  BY <1>1, <1>2, <1>3 DEF Spares, AdmissionsHold

(* A release removes at most the admission of its own call.                 *)
LEMMA ReleaseSpares ==
  ASSUME ChannelInv, NEW c, c.phase \in Holding, Released(c.entry)
  PROVE  Spares(c)
<1>1. AdmissionsHold(admissions, Stored)
  BY DEF ChannelInv
<1>2. CASE UNCHANGED admissions
  BY <1>1, <1>2 DEF Spares
<1>3. CASE admissions' = ReleasedWith(admissions, c.entry)
  BY Zenon, <1>1, <1>3 DEF Spares, AdmissionsHold, ReleasedWith, SameCheckpoint
<1> QED
  BY <1>2, <1>3 DEF Released

(* A commit changes at most the admission of its own call.                  *)
LEMMA CommitSpares ==
  ASSUME ChannelInv, NEW c, c.phase \in Holding, [entry |-> c.entry, committed |-> FALSE] \in admissions
  PROVE  /\ admissions' = admissions => Spares(c) /\ \E a \in admissions' : a.entry = c.entry
         /\ admissions' = CommittedWith(c.entry) =>
               Spares(c) /\ IsCommitted(admissions', c.entry) /\ \E a \in admissions' : a.entry = c.entry
<1> DEFINE own == [entry |-> c.entry, committed |-> FALSE]
           Row(a) == [a EXCEPT !.committed = @ \/ a.entry = c.entry]
<1>1. AdmissionsHold(admissions, Stored) /\ own \in admissions /\ own.entry = c.entry
  BY DEF ChannelInv
<1>2. ASSUME NEW a \in admissions
      PROVE  /\ Row(a) \in [entry : Stored, committed : BOOLEAN] /\ Row(a).entry = a.entry
             /\ a.entry = c.entry => Row(a).committed
             /\ a.committed \/ a.entry # c.entry => Row(a) = a
  <2>1. a \in [entry : Stored, committed : BOOLEAN]
    BY <1>1 DEF AdmissionsHold
  <2>2. CASE a.entry = c.entry
    <3>1. Row(a) = [a EXCEPT !.committed = TRUE]
      BY Zenon, <2>1, <2>2
    <3> QED
      BY Zenon, <2>1, <2>2, <3>1
  <2>3. CASE a.entry # c.entry
    <3>1. Row(a) = [a EXCEPT !.committed = a.committed]
      BY <2>1, <2>3
    <3> QED
      BY <2>1, <2>3, <3>1
  <2> QED
    BY <2>2, <2>3
<1>3. CommittedWith(c.entry) = {Row(a) : a \in admissions}
  BY DEF CommittedWith
<1> HIDE DEF Row, own
<1>4. ASSUME admissions' = admissions PROVE Spares(c) /\ \E a \in admissions' : a.entry = c.entry
  BY <1>1, <1>4 DEF Spares
<1>5. ASSUME admissions' = CommittedWith(c.entry)
      PROVE  Spares(c) /\ IsCommitted(admissions', c.entry) /\ \E a \in admissions' : a.entry = c.entry
  <2>1. Row(own) \in admissions' /\ Row(own).entry = c.entry /\ Row(own).committed
    BY <1>1, <1>2, <1>3, <1>5
  <2>2. AdmissionsHold(admissions', Stored)
    BY <1>1, <1>2, <1>3, <1>5 DEF AdmissionsHold
  <2>3. \A a \in admissions : a \in admissions' \/ a.entry = c.entry
    BY Zenon, <1>2, <1>3, <1>5
  <2>4. \A a \in admissions : a.committed => a \in admissions'
    BY Zenon, <1>2, <1>3, <1>5
  <2> QED
    BY Zenon, <2>1, <2>2, <2>3, <2>4 DEF Spares, IsCommitted, SameCheckpoint
<1> QED
  BY Zenon, <1>4, <1>5

(* While committed admissions stay, what the replicator relies on stays.    *)
LEMMA ReplicatorStays ==
  ASSUME ChannelInv, \A a \in admissions : a.committed => a \in admissions'
  PROVE  /\ ReplicatorHolds(replicator, progress, admissions', Stored)
         /\ \A e : IsCommitted(admissions, e) => IsCommitted(admissions', e)
<1>1. \A e : IsCommitted(admissions, e) => IsCommitted(admissions', e)
  BY DEF IsCommitted
<1> QED
  BY Zenon, <1>1 DEF ChannelInv, ReplicatorHolds

(* The replicator after its phase changed, or after it ended.               *)
LEMMA ReplicatorPhases ==
  ASSUME NEW rep, NEW saved, NEW rows, ReplicatorHolds(rep, saved, rows, Stored)
  PROVE  /\ rep.phase \in {"send", "wait", "acknowledge"} =>
               ReplicatorHolds([rep EXCEPT !.phase = "send"], saved, rows, Stored)
         /\ rep.phase = "wait" /\ IsCommitted(rows, rep.batch[1]) =>
               ReplicatorHolds([rep EXCEPT !.phase = "acknowledge"], saved, rows, Stored)
         /\ ReplicatorHolds(Ended(rep), saved, rows, Stored) /\ Ended(rep).phase = "ended"
<1>1. rep \in [phase : {"off", "read", "send", "wait", "acknowledge", "ended"}, since : Nat, batch : Seq(Stored)]
  BY DEF ReplicatorHolds
<1>2. ASSUME NEW ph \in {"send", "acknowledge"}, rep.phase \in {"send", "wait", "acknowledge"},
             ph = "acknowledge" => IsCommitted(rows, rep.batch[1])
      PROVE  ReplicatorHolds([rep EXCEPT !.phase = ph], saved, rows, Stored)
  <2> DEFINE n == [rep EXCEPT !.phase = ph]
  <2>1. /\ n \in [phase : {"off", "read", "send", "wait", "acknowledge", "ended"}, since : Nat, batch : Seq(Stored)]
        /\ n.phase = ph /\ n.since = rep.since /\ n.batch = rep.batch
    BY <1>1
  <2> HIDE DEF n
  <2>2. ReplicatorHolds(n, saved, rows, Stored)
    BY Zenon, <1>2, <2>1 DEF ReplicatorHolds
  <2> QED
    BY <2>2 DEF n
<1>3. ReplicatorHolds(Ended(rep), saved, rows, Stored) /\ Ended(rep).phase = "ended"
  <2> DEFINE n == Ended(rep)
  <2>1. /\ n \in [phase : {"off", "read", "send", "wait", "acknowledge", "ended"}, since : Nat, batch : Seq(Stored)]
        /\ n.phase = "ended" /\ n.since = rep.since /\ n.batch = <<>>
    <3>1. <<>> \in Seq(Stored)
      OBVIOUS
    <3> QED
      BY Zenon, <1>1, <3>1 DEF Ended
  <2> HIDE DEF n
  <2>2. ReplicatorHolds(n, saved, rows, Stored)
    BY <2>1 DEF ReplicatorHolds
  <2> QED
    BY <2>1, <2>2 DEF n
<1> QED
  BY <1>2, <1>3

(* The invariant of the next state from its parts, while the log stands.    *)
LEMMA ChannelParts ==
  ASSUME UNCHANGED objects, RuntimeHolds(runtime', replicator'),
         ReplicatorHolds(replicator', progress', admissions', Stored), AdmissionsHold(admissions', Stored),
         HandlersHold(handlers', admissions', replicator', Stored), StreamsHold(streams', Stored)
  PROVE  ChannelInv'
<1>1. Stored' = Stored
  BY Zenon DEF Stored
<1>2. ReplicatorHolds(replicator, progress, admissions, Stored)'
  BY Zenon, <1>1 DEF ReplicatorHolds
<1> QED
  BY <1>1, <1>2 DEF ChannelInv

(* A runtime whose replicator runs stays consistent when it fails.          *)
LEMMA RuntimeFails ==
  ASSUME ChannelInv, replicator.phase # "off", NEW rep
  PROVE  RuntimeHolds(runtime, rep) /\ RuntimeHolds(Failing, rep)
<1>1. RuntimeHolds(runtime, replicator) /\ runtime.started
  BY DEF ChannelInv, RuntimeHolds
<1>2. RuntimeHolds(runtime, rep)
  BY <1>1 DEF RuntimeHolds
<1>3. CASE runtime.closed
  <2>1. Failing = runtime
    BY <1>1, <1>3 DEF Failing, RuntimeHolds
  <2> QED
    BY <1>2, <2>1
<1>4. CASE ~runtime.closed
  <2>1. Failing = [runtime EXCEPT !.state = "failed"]
    BY <1>4 DEF Failing
  <2> QED
    BY <1>1, <2>1 DEF RuntimeHolds
<1> QED
  BY <1>2, <1>3, <1>4

(* A call that returns, whatever it answers; an OK means the admission of   *)
(* its entry is committed.                                                  *)
LEMMA LeavesHold ==
  ASSUME ChannelInv, NEW h \in Handlers, handlers[h] # {}, Spares(Call(h)), NEW code, Leaves(h, code),
         code = "OK" => IsCommitted(admissions', Call(h).entry), UNCHANGED <<progress, streams, objects>>
  PROVE  ChannelInv'
<1>1. handlers' = [handlers EXCEPT ![h] = {}]
  BY DEF Leaves
<1>2. HandlerTrue(Call(h), admissions, replicator)
  BY Zenon, TheCall
<1>3. AdmissionsHold(admissions', Stored) /\ StreamsHold(streams', Stored)
  BY Zenon DEF Spares, ChannelInv
<1>4. ReplicatorHolds(replicator, progress, admissions', Stored)
  BY Zenon, ReplicatorStays DEF Spares
<1>5. CASE Call(h).gone
  <2>1. UNCHANGED <<replicator, runtime>>
    BY <1>5 DEF Leaves
  <2>2. HandlersHold(handlers', admissions', replicator', Stored)
    <3> DEFINE new == {}
    <3>1. new \in SUBSET HandlerCalls(Stored) /\ handlers' = [handlers EXCEPT ![h] = new] /\ \A c \in new : FALSE
      BY <1>1
    <3> HIDE DEF new
    <3> QED
      BY Zenon, <2>1, <3>1, HandlerMoves
  <2> QED
    BY Zenon, <1>3, <1>4, <2>1, <2>2, ChannelParts DEF ChannelInv
<1>6. CASE ~Call(h).gone
  <2>1. replicator.phase = "wait" /\ Call(h).entry = replicator.batch[1]
    BY Zenon, <1>2, <1>6 DEF HandlerTrue
  <2>2. HandlersHold(handlers', admissions', replicator', Stored)
    <3> DEFINE new == {}
    <3>1. new \in SUBSET HandlerCalls(Stored) /\ handlers' = [handlers EXCEPT ![h] = new] /\ \A c \in new : FALSE
      BY <1>1
    <3> HIDE DEF new
    <3> QED
      BY Zenon, <1>6, <3>1, HandlerMoves
  <2>3. RuntimeHolds(runtime', replicator')
    <3>1. runtime' \in {runtime, Failing}
      BY <1>6 DEF Leaves
    <3> QED
      BY <2>1, <3>1, RuntimeFails
  <2>4. \/ code = "OK" /\ replicator' = [replicator EXCEPT !.phase = "acknowledge"]
        \/ replicator' = [replicator EXCEPT !.phase = "send"]
        \/ replicator' = Ended(replicator)
    BY <1>6 DEF Leaves
  <2>5. ReplicatorHolds(replicator', progress, admissions', Stored)
    <3>1. CASE code = "OK" /\ replicator' = [replicator EXCEPT !.phase = "acknowledge"]
      BY Zenon, <1>4, <2>1, <3>1, ReplicatorPhases
    <3>2. CASE replicator' = [replicator EXCEPT !.phase = "send"]
      BY Zenon, <1>4, <2>1, <3>2, ReplicatorPhases
    <3>3. CASE replicator' = Ended(replicator)
      BY Zenon, <1>4, <3>3, ReplicatorPhases
    <3> QED
      BY <2>4, <3>1, <3>2, <3>3
  <2> QED
    BY Zenon, <1>3, <2>2, <2>3, <2>5, ChannelParts
<1> QED
  BY Zenon, <1>5, <1>6

(* A call that goes on as n while the sender keeps waiting for it.          *)
LEMMA MovedHolds ==
  ASSUME ChannelInv, NEW h \in Handlers, handlers[h] # {}, Spares(Call(h)), NEW n \in HandlerCalls(Stored),
         Moved(h, n), HandlerTrue(n, admissions', replicator), n.gone = Call(h).gone, n.entry = Call(h).entry,
         n.phase \in Holding => Call(h).phase \in Holding \/ \A a \in admissions : ~SameCheckpoint(a.entry, n.entry),
         UNCHANGED <<replicator, runtime, progress, objects>>, StreamsHold(streams', Stored)
  PROVE  ChannelInv'
<1>1. handlers' = [handlers EXCEPT ![h] = {n}]
  BY Zenon DEF Moved
<1>2. HandlersHold(handlers', admissions', replicator', Stored)
  <2> DEFINE new == {n}
  <2>1. new \in SUBSET HandlerCalls(Stored) /\ handlers' = [handlers EXCEPT ![h] = new] /\ \A c \in new : c = n
    BY Zenon, <1>1
  <2> HIDE DEF new
  <2> QED
    BY Zenon, <2>1, HandlerMoves
<1>3. ReplicatorHolds(replicator, progress, admissions', Stored) /\ AdmissionsHold(admissions', Stored)
  BY Zenon, ReplicatorStays DEF Spares
<1> QED
  BY Zenon, <1>2, <1>3, ChannelParts DEF ChannelInv

(* The admissions may also stay as they are.                                *)
LEMMA NoneSpared ==
  ASSUME ChannelInv, UNCHANGED admissions, NEW c
  PROVE  Spares(c)
BY DEF ChannelInv, Spares

(* A call in another phase, still about its entry.                          *)
CallBecomes(n, c, ph) == n \in HandlerCalls(Stored) /\ n.phase = ph /\ n.gone = c.gone /\ n.entry = c.entry
(* The fields of a call that moves, of one that starts to deliver, and of   *)
(* one that delivered to a stream.                                          *)
LEMMA CallFields ==
  ASSUME NEW c \in HandlerCalls(Stored), NEW ph \in {"claim", "explain"} \union Holding,
         NEW todo \in SUBSET Streams
  PROVE  /\ CallBecomes([c EXCEPT !.phase = ph], c, ph)
         /\ CallBecomes([c EXCEPT !.phase = ph, !.todo = todo], c, ph)
         /\ CallBecomes([c EXCEPT !.todo = todo], c, c.phase)
<1>1. CallBecomes([c EXCEPT !.phase = ph], c, ph)
  BY DEF HandlerCalls, CallBecomes
<1>2. CallBecomes([c EXCEPT !.phase = ph, !.todo = todo], c, ph)
  BY Zenon DEF HandlerCalls, CallBecomes
<1>3. CallBecomes([c EXCEPT !.todo = todo], c, c.phase)
  BY DEF HandlerCalls, CallBecomes
<1> QED
  BY <1>1, <1>2, <1>3

(* The claim, and the read that explains a conflict.                        *)
LEMMA ClaimHolds ==
  ASSUME ChannelInv, NEW h \in Handlers, Unary(h) \/ ClaimCheckpoint(h) \/ Explain(h), UNCHANGED objects
  PROVE  ChannelInv' /\ \A a \in admissions : a.committed => a \in admissions'
<1> DEFINE c == Call(h)
<1>1. /\ handlers[h] # {} /\ c \in HandlerCalls(Stored) /\ HandlerTrue(c, admissions, replicator)
      /\ c.entry \in Stored
  BY TheCall DEF Unary, ClaimCheckpoint, Explain, HandlerCalls
<1>2. UNCHANGED <<progress, streams>> /\ StreamsHold(streams', Stored)
  BY DEF Unary, ClaimCheckpoint, Explain, ChannelInv
<1>3. ASSUME ClaimCheckpoint(h), Admitted(c.entry) = {}, ~c.gone,
             admissions' = ClaimedWith(c.entry),
             Moved(h, [c EXCEPT !.phase = "deliver", !.todo = Open]), UNCHANGED <<replicator, runtime>>
      PROVE  ChannelInv' /\ Spares(c)
  <2> DEFINE n == [c EXCEPT !.phase = "deliver", !.todo = Open]
  <2>1. \A a \in admissions : ~SameCheckpoint(a.entry, c.entry)
    BY <1>3 DEF Admitted, SameCheckpoint
  <2>2. n \in HandlerCalls(Stored) /\ n.phase = "deliver" /\ n.gone = c.gone /\ n.entry = c.entry
    <3>1. Open \in SUBSET Streams /\ "deliver" \in Holding
      BY DEF Open, Holding
    <3>2. CallBecomes(n, c, "deliver")
      BY Zenon, <1>1, <3>1, CallFields
    <3> QED
      BY <3>2 DEF CallBecomes
  <2> HIDE DEF n
  <2>3. Spares(c)
    BY <1>1, <1>3, <2>1, ClaimSpares DEF ClaimedWith
  <2>4. HandlerTrue(n, admissions', replicator)
    BY <1>1, <1>3, <2>2 DEF HandlerTrue, ClaimedWith
  <2>5. Moved(h, n)
    BY <1>3 DEF n
  <2> QED
    <3>1. n.phase \in Holding => c.phase \in Holding \/ \A a \in admissions : ~SameCheckpoint(a.entry, n.entry)
      BY Zenon, <2>1, <2>2
    <3> QED
      BY Zenon, <1>1, <1>2, <1>3, <2>2, <2>3, <2>4, <2>5, <3>1, MovedHolds
<1>4. ASSUME ClaimCheckpoint(h), ~c.gone, Moved(h, [c EXCEPT !.phase = "explain"]),
             UNCHANGED <<admissions, replicator, runtime>>
      PROVE  ChannelInv' /\ Spares(c)
  <2> DEFINE n == [c EXCEPT !.phase = "explain"]
  <2>1. n \in HandlerCalls(Stored) /\ n.phase = "explain" /\ n.gone = c.gone /\ n.entry = c.entry
    BY Zenon, <1>1, CallFields DEF CallBecomes
  <2> HIDE DEF n
  <2>2. Spares(c)
    BY <1>4, NoneSpared
  <2>3. HandlerTrue(n, admissions', replicator)
    BY <1>1, <1>4, <2>1 DEF HandlerTrue
  <2>4. Moved(h, n) /\ n.phase \notin Holding
    BY <1>4, <2>1 DEF n, Holding
  <2> QED
    BY <1>1, <1>2, <1>4, <2>1, <2>2, <2>3, <2>4, MovedHolds
<1>5. ASSUME NEW code, Leaves(h, code), UNCHANGED admissions, code = "OK" => IsCommitted(admissions, c.entry)
      PROVE  ChannelInv' /\ Spares(c)
  <2>1. Spares(c)
    BY <1>5, NoneSpared
  <2> QED
    BY Zenon, <1>1, <1>2, <1>5, <2>1, LeavesHold
<1>6. CASE Explain(h)
  <2> DEFINE found == Admitted(c.entry)
             code == IF found = {} THEN "INTERNAL"
                     ELSE IF \E a \in found : a.entry # c.entry THEN "ALREADY_EXISTS"
                     ELSE IF Committed(c.entry) THEN "OK" ELSE "RESOURCE_EXHAUSTED"
  <2>1. Leaves(h, code) /\ UNCHANGED admissions
    BY Zenon, <1>6 DEF Explain
  <2>2. code = "OK" => IsCommitted(admissions, c.entry)
    BY Zenon DEF Committed, Admitted, IsCommitted, SameCheckpoint
  <2> HIDE DEF code
  <2> QED
    BY <1>5, <2>1, <2>2 DEF Spares
<1>7. CASE ClaimCheckpoint(h)
  <2>1. CASE Leaves(h, "INTERNAL") /\ UNCHANGED admissions
    BY <1>5, <2>1 DEF Spares
  <2>2. CASE Leaves(h, "INTERNAL") /\ Admitted(c.entry) = {} /\ admissions' = ClaimedWith(c.entry)
    <3>1. \A a \in admissions : ~SameCheckpoint(a.entry, c.entry)
      BY <2>2 DEF Admitted, SameCheckpoint
    <3>2. Spares(c)
      BY <1>1, <2>2, <3>1, ClaimSpares DEF ClaimedWith
    <3>3. ChannelInv'
      BY Zenon, <1>1, <1>2, <2>2, <3>2, LeavesHold
    <3> QED
      BY <3>2, <3>3 DEF Spares
  <2> QED
    BY Zenon, <1>3, <1>4, <1>7, <2>1, <2>2 DEF ClaimCheckpoint, Spares
<1>8. CASE Unary(h)
  <2>1. Leaves(h, "UNAUTHENTICATED") /\ UNCHANGED admissions
    BY <1>8 DEF Unary
  <2> QED
    BY <1>5, <2>1 DEF Spares
<1> QED
  BY <1>6, <1>7, <1>8

(* What the receiver forgets when it stops.                                 *)
LEMMA ReceiverGoneHolds ==
  ASSUME ChannelInv, ReceiverGone, UNCHANGED objects
  PROVE  ChannelInv' /\ UNCHANGED admissions
<1>1. UNCHANGED <<admissions, progress, runtime>>
  BY Zenon DEF ReceiverGone
<1>2. HandlersHold(handlers', admissions', replicator', Stored)
  BY Zenon DEF ReceiverGone, HandlersHold
<1>3. StreamsHold(streams', Stored)
  <2>1. <<>> \in Seq(Stored) /\ StreamsHold(streams, Stored)
    BY DEF ChannelInv
  <2>2. ASSUME NEW s \in Streams
        PROVE  (IF streams[s].state = "open" THEN [streams[s] EXCEPT !.state = "closed", !.queue = <<>>] ELSE streams[s])
                  \in [state : {"new", "open", "closed"}, job : SUBSET Jobs, from : Int, queue : Seq(Stored)]
    <3> DEFINE x == streams[s]
    <3>1. x \in [state : {"new", "open", "closed"}, job : SUBSET Jobs, from : Int, queue : Seq(Stored)]
      BY <2>1, <2>2 DEF StreamsHold
    <3> HIDE DEF x
    <3>2. [x EXCEPT !.state = "closed", !.queue = <<>>]
             \in [state : {"new", "open", "closed"}, job : SUBSET Jobs, from : Int, queue : Seq(Stored)]
      BY Zenon, <2>1, <3>1
    <3> QED
      BY <3>1, <3>2 DEF x
  <2> QED
    BY Zenon, <2>2 DEF ReceiverGone, StreamsHold
<1>4. ReplicatorHolds(replicator', progress', admissions', Stored) /\ RuntimeHolds(runtime', replicator')
  <2>1. CASE replicator.phase = "wait"
    <3>1. replicator' = [replicator EXCEPT !.phase = "send"]
      BY Zenon, <2>1 DEF ReceiverGone
    <3>2. RuntimeHolds(runtime', replicator')
      BY <1>1, <2>1, RuntimeFails
    <3> QED
      BY Zenon, <1>1, <2>1, <3>1, <3>2, ReplicatorPhases DEF ChannelInv
  <2>2. CASE replicator.phase # "wait"
    BY Zenon, <1>1, <2>2 DEF ReceiverGone, ChannelInv
  <2> QED
    BY <2>1, <2>2
<1>5. AdmissionsHold(admissions', Stored)
  BY <1>1 DEF ChannelInv
<1> QED
  BY <1>1, <1>2, <1>3, <1>4, <1>5, ChannelParts

(* What every step of the channel keeps besides the invariant: committed    *)
(* admissions stay, and an entry that joins a queue is not committed.       *)
CommittedStay == \A a \in admissions : a.committed => a \in admissions'
FreshOnly ==
    \A s \in Streams : streams[s].state = "open" /\ Len(streams[s].queue) < Len(streams'[s].queue)
       => ~IsCommitted(admissions, streams'[s].queue[Len(streams'[s].queue)])
StreamRecords == [state : {"new", "open", "closed"}, job : SUBSET Jobs, from : Int, queue : Seq(Stored)]

(* Nothing joins a queue of streams that stand.                             *)
LEMMA StreamsStand ==
  ASSUME ChannelInv, UNCHANGED streams
  PROVE  FreshOnly /\ StreamsHold(streams', Stored)
<1>1. StreamsHold(streams, Stored)
  BY DEF ChannelInv
<1>2. \A s \in Streams : Len(streams[s].queue) \in Nat
  BY <1>1 DEF StreamsHold
<1> QED
  BY <1>1, <1>2 DEF FreshOnly

(* One stream changes into x, whose queue is no longer than it was.         *)
LEMMA StreamBecomes ==
  ASSUME ChannelInv, NEW s \in Streams, NEW x \in StreamRecords, streams' = [streams EXCEPT ![s] = x],
         \/ streams[s].state # "open" \/ Len(x.queue) <= Len(streams[s].queue)
         \/ x.queue # <<>> /\ ~IsCommitted(admissions, x.queue[Len(x.queue)])
  PROVE  FreshOnly /\ StreamsHold(streams', Stored)
<1>1. StreamsHold(streams, Stored)
  BY DEF ChannelInv
<1>2. \A t \in Streams : Len(streams[t].queue) \in Nat
  BY <1>1 DEF StreamsHold
<1>3. Len(x.queue) \in Nat
  BY DEF StreamRecords
<1>4. streams'[s] = x /\ \A t \in Streams : t # s => streams'[t] = streams[t]
  BY <1>1 DEF StreamsHold
<1>5. StreamsHold(streams', Stored)
  BY <1>1 DEF StreamsHold, StreamRecords
<1>6. FreshOnly
  BY <1>2, <1>3, <1>4 DEF FreshOnly
<1> QED
  BY <1>5, <1>6

(* A call that holds the admission of its entry holds the only one of that  *)
(* checkpoint, and it is not committed.                                     *)
LEMMA HeldIsFresh ==
  ASSUME ChannelInv, NEW h \in Handlers, handlers[h] # {}, Call(h).phase \in {"deliver", "commit"}
  PROVE  ~IsCommitted(admissions, Call(h).entry)
<1> DEFINE c == Call(h)
           own == [entry |-> c.entry, committed |-> FALSE]
<1>1. own \in admissions /\ own.entry = c.entry /\ ~own.committed
  BY Zenon, TheCall DEF HandlerTrue
<1>2. AdmissionsHold(admissions, Stored)
  BY Zenon DEF ChannelInv
<1> HIDE DEF own, c
<1>3. \A a \in admissions : SameCheckpoint(a.entry, c.entry) => a = own
  BY Zenon, <1>1, <1>2 DEF AdmissionsHold
<1> QED
  BY Zenon, <1>1, <1>3 DEF IsCommitted, c

(* A stream that ends or restarts has an empty queue.                       *)
LEMMA GoneIsFresh ==
  ASSUME ChannelInv, ReceiverGone
  PROVE  FreshOnly
<1>1. StreamsHold(streams, Stored)
  BY DEF ChannelInv
<1>2. ASSUME NEW s \in Streams, streams[s].state = "open"
      PROVE  streams'[s].queue = <<>> /\ Len(streams[s].queue) \in Nat
  <2>1. streams[s] \in StreamRecords
    BY <1>1 DEF StreamsHold, StreamRecords
  <2>2. streams'[s] = [streams[s] EXCEPT !.state = "closed", !.queue = <<>>]
    BY Zenon, <1>2 DEF ReceiverGone
  <2> QED
    BY <2>1, <2>2 DEF StreamRecords
<1> QED
  BY <1>2 DEF FreshOnly

(* A delivery to one stream: passed over, queued, refused, or the end of    *)
(* the receiver.                                                            *)
LEMMA DeliverHolds ==
  ASSUME ChannelInv, NEW h \in Handlers, NEW s \in Streams, Deliver(h, s), UNCHANGED objects
  PROVE  ChannelInv' /\ CommittedStay /\ FreshOnly
<1> DEFINE c == Call(h)
           n == [c EXCEPT !.todo = @ \ {s}]
<1>1. /\ handlers[h] # {} /\ c \in HandlerCalls(Stored) /\ HandlerTrue(c, admissions, replicator)
      /\ c.entry \in Stored /\ c.phase = "deliver" /\ c.phase \in Holding
  BY TheCall DEF Deliver, HandlerCalls, Holding
<1>2. /\ n \in HandlerCalls(Stored) /\ n.phase = "deliver" /\ n.gone = c.gone /\ n.entry = c.entry
  <2>1. c.todo \ {s} \in SUBSET Streams
    BY Zenon, <1>1 DEF HandlerCalls
  <2> QED
    BY <1>1, <2>1 DEF HandlerCalls
<1>3. HandlerTrue(n, admissions, replicator)
  BY <1>1, <1>2 DEF HandlerTrue
<1>4. \/ /\ Moved(h, n) /\ UNCHANGED <<admissions, streams, replicator, runtime, progress>>
      \/ /\ streams[s].state = "open" /\ streams' = [streams EXCEPT ![s].queue = Append(@, c.entry)]
         /\ Moved(h, n) /\ UNCHANGED <<admissions, replicator, runtime, progress>>
      \/ \E code \in {"CANCELED", "RESOURCE_EXHAUSTED"} :
            Released(c.entry) /\ Leaves(h, code) /\ UNCHANGED <<streams, progress>>
      \/ ReceiverGone
  BY DEF Deliver
<1> HIDE DEF n
<1>5. ASSUME Moved(h, n), UNCHANGED <<admissions, replicator, runtime, progress>>, StreamsHold(streams', Stored)
      PROVE  ChannelInv' /\ CommittedStay
  <2>1. Spares(c)
    BY <1>5, NoneSpared
  <2> QED
    BY Zenon, <1>1, <1>2, <1>3, <1>5, <2>1, MovedHolds DEF CommittedStay
<1>6. CASE Moved(h, n) /\ UNCHANGED <<admissions, streams, replicator, runtime, progress>>
  BY <1>5, <1>6, StreamsStand
<1>7. CASE /\ streams[s].state = "open" /\ streams' = [streams EXCEPT ![s].queue = Append(@, c.entry)]
           /\ Moved(h, n) /\ UNCHANGED <<admissions, replicator, runtime, progress>>
  <2> DEFINE q == Append(streams[s].queue, c.entry)
             x == [streams[s] EXCEPT !.queue = q]
  <2>1. streams[s] \in StreamRecords
    BY Zenon DEF ChannelInv, StreamsHold, StreamRecords
  <2>2. q \in Seq(Stored) /\ q # <<>> /\ q[Len(q)] = c.entry
    <3>1. streams[s].queue \in Seq(Stored)
      BY <2>1 DEF StreamRecords
    <3> HIDE DEF c
    <3> QED
      BY <1>1, <3>1
  <2>3. streams' = [streams EXCEPT ![s] = x]
    BY <1>7
  <2> HIDE DEF q
  <2>4. x \in StreamRecords /\ x.queue = q
    BY Zenon, <2>1, <2>2 DEF StreamRecords
  <2> HIDE DEF x
  <2>5. ~IsCommitted(admissions, x.queue[Len(x.queue)]) /\ x.queue # <<>>
    BY Zenon, <1>1, <2>2, <2>4, HeldIsFresh
  <2>6. FreshOnly /\ StreamsHold(streams', Stored)
    BY Zenon, <2>3, <2>4, <2>5, StreamBecomes
  <2> QED
    BY <1>5, <1>7, <2>6
<1>8. ASSUME NEW code \in {"CANCELED", "RESOURCE_EXHAUSTED"}, Released(c.entry), Leaves(h, code),
             UNCHANGED <<streams, progress>>
      PROVE  ChannelInv' /\ CommittedStay /\ FreshOnly
  <2>1. Spares(c)
    BY Zenon, <1>1, <1>8, ReleaseSpares
  <2>2. ChannelInv'
    BY Zenon, <1>1, <1>8, <2>1, LeavesHold
  <2> QED
    BY <1>8, <2>1, <2>2, StreamsStand DEF Spares, CommittedStay
<1>9. CASE ReceiverGone
  BY <1>9, ReceiverGoneHolds, GoneIsFresh DEF CommittedStay
<1> QED
  BY <1>4, <1>6, <1>7, <1>8, <1>9

(* The acknowledgement, the commit and the release of an admission.         *)
LEMMA AdmissionEnds ==
  ASSUME ChannelInv, NEW h \in Handlers, Acknowledge(h) \/ CommitCheckpoint(h) \/ ReleaseCheckpoint(h),
         UNCHANGED objects
  PROVE  ChannelInv' /\ CommittedStay /\ FreshOnly
<1> DEFINE c == Call(h)
<1>1. /\ handlers[h] # {} /\ c \in HandlerCalls(Stored) /\ HandlerTrue(c, admissions, replicator)
      /\ c.phase \in Holding
  BY TheCall DEF Acknowledge, CommitCheckpoint, ReleaseCheckpoint, Holding
<1>2. UNCHANGED <<progress, streams>> /\ StreamsHold(streams', Stored) /\ FreshOnly
  <2>1. UNCHANGED <<progress, streams>>
    BY DEF Acknowledge, CommitCheckpoint, ReleaseCheckpoint
  <2> QED
    BY <2>1, StreamsStand
<1>3. ASSUME NEW ph \in {"commit", "release"}, Moved(h, [c EXCEPT !.phase = ph]), Spares(c),
             UNCHANGED <<replicator, runtime>>,
             ph = "commit" => [entry |-> c.entry, committed |-> FALSE] \in admissions',
             \E a \in admissions' : a.entry = c.entry
      PROVE  ChannelInv'
  <2> DEFINE n == [c EXCEPT !.phase = ph]
  <2>1. n \in HandlerCalls(Stored) /\ n.phase = ph /\ n.gone = c.gone /\ n.entry = c.entry
    BY <1>1, <1>3 DEF HandlerCalls, Holding
  <2>2. Moved(h, n)
    BY <1>3
  <2> HIDE DEF n
  <2>3. HandlerTrue(n, admissions', replicator)
    BY <1>1, <1>3, <2>1 DEF HandlerTrue
  <2> QED
    BY <1>1, <1>2, <1>3, <2>1, <2>2, <2>3, MovedHolds
<1>4. CASE Acknowledge(h)
  <2>1. /\ Moved(h, [c EXCEPT !.phase = "commit"]) /\ c.phase = "deliver"
        /\ UNCHANGED <<replicator, runtime, admissions>>
    BY <1>4 DEF Acknowledge
  <2>2. [entry |-> c.entry, committed |-> FALSE] \in admissions'
    BY <1>1, <2>1 DEF HandlerTrue
  <2>3. \E a \in admissions' : a.entry = c.entry
    BY <2>2
  <2>4. Spares(c)
    BY <2>1, NoneSpared
  <2> QED
    BY <1>2, <1>3, <2>1, <2>2, <2>3, <2>4 DEF CommittedStay
<1>5. CASE CommitCheckpoint(h)
  <2>1. c.phase = "commit" /\ [entry |-> c.entry, committed |-> FALSE] \in admissions
    BY <1>1, <1>5 DEF CommitCheckpoint, HandlerTrue
  <2>2. /\ admissions' = admissions => Spares(c) /\ \E a \in admissions' : a.entry = c.entry
        /\ admissions' = CommittedWith(c.entry) =>
              Spares(c) /\ IsCommitted(admissions', c.entry) /\ \E a \in admissions' : a.entry = c.entry
    BY Zenon, <1>1, <2>1, CommitSpares
  <2>3. CASE admissions' = CommittedWith(c.entry) /\ Leaves(h, "OK")
    <3>1. Spares(c) /\ IsCommitted(admissions', c.entry)
      BY Zenon, <2>2, <2>3
    <3>2. ChannelInv'
      BY Zenon, <1>1, <1>2, <2>3, <3>1, LeavesHold
    <3> QED
      BY <1>2, <3>1, <3>2 DEF Spares, CommittedStay
  <2>4. CASE /\ admissions' \in {admissions, CommittedWith(c.entry)}
             /\ Moved(h, [c EXCEPT !.phase = "release"]) /\ UNCHANGED <<replicator, runtime>>
    <3>1. Spares(c) /\ \E a \in admissions' : a.entry = c.entry
      BY <2>2, <2>4
    <3>2. ChannelInv'
      BY <1>3, <2>4, <3>1
    <3> QED
      BY Zenon, <1>2, <3>1, <3>2 DEF Spares, CommittedStay
  <2> QED
    BY <1>5, <2>3, <2>4 DEF CommitCheckpoint
<1>6. CASE ReleaseCheckpoint(h)
  <2>1. Released(c.entry) /\ Leaves(h, "INTERNAL")
    BY Zenon, <1>6 DEF ReleaseCheckpoint
  <2>2. Spares(c)
    BY Zenon, <1>1, <2>1, ReleaseSpares
  <2>3. ChannelInv'
    BY Zenon, <1>1, <1>2, <2>1, <2>2, LeavesHold
  <2> QED
    BY Zenon, <1>2, <2>2, <2>3 DEF Spares, CommittedStay
<1> QED
  BY <1>4, <1>5, <1>6

(* Every step of a call at the receiver.                                    *)
LEMMA HandlerHolds ==
  ASSUME ChannelInv, NEW h \in Handlers, HandlerStep(h), UNCHANGED objects
  PROVE  ChannelInv' /\ CommittedStay /\ FreshOnly
<1>1. CASE Unary(h) \/ ClaimCheckpoint(h) \/ Explain(h)
  <2>1. UNCHANGED streams
    BY <1>1 DEF Unary, ClaimCheckpoint, Explain
  <2> QED
    BY <1>1, <2>1, ClaimHolds, StreamsStand DEF CommittedStay
<1>2. CASE \E s \in Streams : Deliver(h, s)
  BY <1>2, DeliverHolds
<1>3. CASE Acknowledge(h) \/ CommitCheckpoint(h) \/ ReleaseCheckpoint(h)
  BY <1>3, AdmissionEnds
<1> QED
  BY <1>1, <1>2, <1>3 DEF HandlerStep

(* The streams of the receiver, and what is reported to it.                 *)
LEMMA StreamSteps ==
  ASSUME ChannelInv, NEW s \in Streams, UNCHANGED objects,
         \/ \E job \in {{}} \union {{j} : j \in Jobs}, from \in Int : StreamCheckpoints(s, job, from)
         \/ StreamSend(s) \/ StreamEnds(s)
  PROVE  ChannelInv' /\ CommittedStay /\ FreshOnly
<1>1. UNCHANGED <<runtime, replicator, progress, admissions, handlers>>
  BY DEF StreamCheckpoints, StreamSend, StreamEnds
<1>2. streams[s] \in StreamRecords /\ StreamsHold(streams, Stored)
  BY Zenon DEF ChannelInv, StreamsHold, StreamRecords
<1>3. FreshOnly /\ StreamsHold(streams', Stored)
  <2>1. ASSUME NEW job \in {{}} \union {{j} : j \in Jobs}, NEW from \in Int, StreamCheckpoints(s, job, from)
        PROVE  FreshOnly /\ StreamsHold(streams', Stored)
    <3> DEFINE x == [state |-> "open", job |-> job, from |-> from, queue |-> <<>>]
    <3>1. job \in SUBSET Jobs /\ <<>> \in Seq(Stored)
      BY <2>1
    <3>2. x \in StreamRecords
      BY <2>1, <3>1 DEF StreamRecords
    <3>3. streams' = [streams EXCEPT ![s] = x] /\ streams[s].state # "open"
      BY Zenon, <2>1 DEF StreamCheckpoints
    <3> HIDE DEF x
    <3> QED
      BY Zenon, <3>2, <3>3, StreamBecomes
  <2>2. ASSUME StreamSend(s) PROVE FreshOnly /\ StreamsHold(streams', Stored)
    <3> DEFINE q == Tail(streams[s].queue)
               x == [streams[s] EXCEPT !.queue = q]
    <3>1. streams[s].queue \in Seq(Stored) /\ streams[s].queue # <<>>
      BY <1>2, <2>2 DEF StreamSend, StreamRecords
    <3>2. q \in Seq(Stored) /\ Len(q) <= Len(streams[s].queue)
      BY <3>1
    <3>3. streams' = [streams EXCEPT ![s] = x]
      BY <2>2 DEF StreamSend
    <3> HIDE DEF q
    <3>4. x \in StreamRecords /\ x.queue = q
      BY <1>2, <3>2 DEF StreamRecords
    <3> HIDE DEF x
    <3> QED
      BY Zenon, <3>2, <3>3, <3>4, StreamBecomes
  <2>3. ASSUME StreamEnds(s) PROVE FreshOnly /\ StreamsHold(streams', Stored)
    <3> DEFINE x == [streams[s] EXCEPT !.state = "closed", !.queue = <<>>]
    <3>1. <<>> \in Seq(Stored) /\ Len(<<>>) <= Len(streams[s].queue)
      BY <1>2 DEF StreamRecords
    <3>2. streams' = [streams EXCEPT ![s] = x]
      BY Zenon, <1>2, <2>3 DEF StreamEnds, StreamsHold
    <3>3. x \in StreamRecords /\ x.queue = <<>>
      BY Zenon, <1>2, <3>1 DEF StreamRecords
    <3> HIDE DEF x
    <3> QED
      BY Zenon, <3>1, <3>2, <3>3, StreamBecomes
  <2> QED
    BY <2>1, <2>2, <2>3
<1> QED
  BY Zenon, <1>1, <1>3, ChannelParts DEF ChannelInv, CommittedStay

(* A sender that does not wait has given up all calls that still run.       *)
LEMMA AllGone ==
  ASSUME ChannelInv, replicator.phase # "wait"
  PROVE  \A h \in Handlers : \A c \in handlers[h] : c.gone
BY Zenon DEF ChannelInv, HandlersHold, HandlerTrue

(* They stand whatever becomes of the replicator.                           *)
LEMMA GoneStand ==
  ASSUME ChannelInv, replicator.phase # "wait", UNCHANGED <<admissions, handlers>>
  PROVE  HandlersHold(handlers', admissions', replicator', Stored)
BY Zenon, AllGone DEF ChannelInv, HandlersHold, HandlerTrue

(* The sender gives up its calls: those it waited for, or all.              *)
LEMMA GivenUp ==
  ASSUME ChannelInv, UNCHANGED admissions, DOMAIN handlers' = Handlers, handlers' = [h \in Handlers |-> handlers'[h]],
         \A h \in Handlers : \/ handlers'[h] = {[c EXCEPT !.gone = TRUE] : c \in handlers[h]}
                             \/ handlers'[h] = handlers[h] /\ \A c \in handlers[h] : c.gone
  PROVE  HandlersHold(handlers', admissions', replicator', Stored)
<1>1. HandlersHold(handlers, admissions, replicator, Stored)
  BY DEF ChannelInv
<1>2. ASSUME NEW h \in Handlers, NEW d \in handlers'[h]
      PROVE  \E c \in handlers[h] : /\ d \in HandlerCalls(Stored) /\ d.gone /\ d.entry = c.entry /\ d.phase = c.phase
                                    /\ d = [c EXCEPT !.gone = TRUE] \/ d = c
  <2>1. CASE handlers'[h] = {[c EXCEPT !.gone = TRUE] : c \in handlers[h]}
    <3>1. PICK c \in handlers[h] : d = [c EXCEPT !.gone = TRUE]
      BY <1>2, <2>1
    <3>2. c \in HandlerCalls(Stored)
      BY <1>1, <1>2 DEF HandlersHold
    <3>3. d \in HandlerCalls(Stored) /\ d.gone /\ d.entry = c.entry /\ d.phase = c.phase
      BY Zenon, <3>1, <3>2 DEF HandlerCalls
    <3> QED
      BY Zenon, <3>1, <3>3
  <2>2. CASE handlers'[h] = handlers[h] /\ \A c \in handlers[h] : c.gone
    <3>1. d \in handlers[h] /\ d.gone
      BY <1>2, <2>2
    <3>2. d \in HandlerCalls(Stored)
      BY <1>1, <1>2, <3>1 DEF HandlersHold
    <3> QED
      BY <3>1, <3>2
  <2> QED
    BY <1>2, <2>1, <2>2
<1>3. handlers' \in [Handlers -> SUBSET HandlerCalls(Stored)]
  <2>1. \A h \in Handlers : handlers'[h] \in SUBSET HandlerCalls(Stored)
    BY <1>2
  <2> QED
    BY <2>1
<1>4. ASSUME NEW h \in Handlers PROVE \A c, d \in handlers'[h] : c = d
  <2>1. \A c, d \in handlers[h] : c = d
    BY <1>1 DEF HandlersHold
  <2> DEFINE G(c) == [c EXCEPT !.gone = TRUE]
  <2>2. handlers'[h] = {G(c) : c \in handlers[h]} \/ handlers'[h] = handlers[h]
    OBVIOUS
  <2> HIDE DEF G
  <2> QED
    BY <2>1, <2>2
<1>5. \A h \in Handlers : \A c \in handlers'[h] : HandlerTrue(c, admissions', replicator')
  <2> SUFFICES ASSUME NEW h \in Handlers, NEW d \in handlers'[h] PROVE HandlerTrue(d, admissions', replicator')
    OBVIOUS
  <2>1. PICK c \in handlers[h] : d.gone /\ d.entry = c.entry /\ d.phase = c.phase
    BY <1>2
  <2>2. HandlerTrue(c, admissions, replicator)
    BY <1>1 DEF HandlersHold
  <2> QED
    BY <2>1, <2>2 DEF HandlerTrue
<1>6. \A h, k \in Handlers : h # k => \A c \in handlers'[h], d \in handlers'[k] : Separate(c, d)
  <2> SUFFICES ASSUME NEW h \in Handlers, NEW k \in Handlers, h # k, NEW x \in handlers'[h], NEW y \in handlers'[k]
               PROVE  Separate(x, y)
    OBVIOUS
  <2>1. PICK c \in handlers[h] : x.gone /\ x.entry = c.entry /\ x.phase = c.phase
    BY <1>2
  <2>2. PICK d \in handlers[k] : y.gone /\ y.entry = d.entry /\ y.phase = d.phase
    BY <1>2
  <2>3. Separate(c, d)
    BY <1>1 DEF HandlersHold
  <2> QED
    BY <2>1, <2>2, <2>3 DEF Separate
<1> QED
  BY <1>3, <1>4, <1>5, <1>6 DEF HandlersHold

(* The sender's start, up to the launch of its replicator, and its end.     *)
LEMMA RuntimeSteps ==
  ASSUME ChannelInv, Start \/ Dial \/ Launch \/ StartReturns \/ watchCancellation \/ CloseRuntime, UNCHANGED objects
  PROVE  ChannelInv' /\ CommittedStay /\ FreshOnly
<1> DEFINE Runtimes == [state : {"created", "starting", "running", "failed", "closed"}, started : BOOLEAN,
                        closed : BOOLEAN, connected : BOOLEAN, channel : {"open", "closed"},
                        start : {"none", "dialling", "connected", "refused", "launched", "failed", "closed"}]
<1>1. UNCHANGED <<progress, admissions, handlers, streams>>
  BY DEF Start, Dial, Launch, StartReturns, watchCancellation, CloseRuntime
<1>2. FreshOnly /\ StreamsHold(streams', Stored) /\ CommittedStay
  BY <1>1, StreamsStand DEF CommittedStay
<1>3. /\ runtime \in Runtimes /\ (runtime.start \in {"dialling", "connected", "refused"} => ~runtime.started)
      /\ ~runtime.started => replicator.phase = "off"
  BY DEF ChannelInv, RuntimeHolds
<1>4. ASSUME NEW r, r \in Runtimes, r.started = runtime.started, runtime' = r, UNCHANGED replicator,
             r.start \in {"dialling", "connected", "refused"} => ~r.started
      PROVE  ChannelInv'
  <2>1. RuntimeHolds(runtime', replicator')
    BY <1>3, <1>4 DEF RuntimeHolds
  <2> QED
    BY <1>1, <1>2, <1>4, <2>1, ChannelParts DEF ChannelInv
<1>5. CASE Start
  <2> DEFINE r == [runtime EXCEPT !.start = "dialling", !.state = "starting"]
  <2>1. r \in Runtimes /\ r.started = runtime.started /\ ~r.started
    BY Zenon, <1>3, <1>5 DEF Start
  <2>2. runtime' = r /\ UNCHANGED replicator
    BY <1>5 DEF Start
  <2> HIDE DEF r, Runtimes
  <2> QED
    BY <1>2, <1>4, <2>1, <2>2
<1>6. CASE Dial
  <2> DEFINE r == [runtime EXCEPT !.start = "connected", !.connected = TRUE]
             q == [runtime EXCEPT !.start = "refused"]
  <2>1. /\ r \in Runtimes /\ r.started = runtime.started /\ ~r.started
        /\ q \in Runtimes /\ q.started = runtime.started
    BY Zenon, <1>3, <1>6 DEF Dial
  <2>2. runtime' \in {r, q} /\ UNCHANGED replicator
    BY <1>6 DEF Dial
  <2> HIDE DEF r, q, Runtimes
  <2> QED
    BY Zenon, <1>2, <1>4, <2>1, <2>2
<1>7. CASE StartReturns \/ watchCancellation \/ CloseRuntime
  <2>1. UNCHANGED replicator
    BY <1>7 DEF StartReturns, watchCancellation, CloseRuntime
  <2>2. CASE StartReturns
    <3>1. runtime.start \in {"launched", "failed", "closed"}
      BY <2>2 DEF StartReturns
    <3>2. runtime' \in Runtimes /\ runtime'.started = runtime.started /\ runtime'.start = "none"
      BY Zenon, <1>3, <2>2 DEF StartReturns, ChannelClosed
    <3> HIDE DEF Runtimes
    <3> QED
      BY <1>2, <1>4, <2>1, <3>2
  <2>3. CASE watchCancellation \/ CloseRuntime
    <3>1. runtime' \in Runtimes /\ runtime'.started = runtime.started /\ runtime'.start = runtime.start
      BY Zenon, <1>3, <2>3 DEF watchCancellation, CloseRuntime, ChannelClosed
    <3> HIDE DEF Runtimes
    <3> QED
      BY <1>2, <1>3, <1>4, <2>1, <3>1
  <2> QED
    BY <1>7, <2>2, <2>3
<1>8. CASE Launch
  <2>1. ~runtime.started /\ replicator.phase = "off"
    BY <1>3, <1>8 DEF Launch
  <2>2. ASSUME NEW st \in {"failed", "closed"}, runtime' = [runtime EXCEPT !.start = st], UNCHANGED replicator
        PROVE  ChannelInv'
    <3>1. runtime' \in Runtimes /\ runtime'.started = runtime.started /\ runtime'.start = st
      BY <1>3, <2>2
    <3> HIDE DEF Runtimes
    <3> QED
      BY Zenon, <1>4, <2>2, <3>1
  <2>3. CASE /\ runtime' = [runtime EXCEPT !.start = "launched", !.started = TRUE]
             /\ replicator' = [Idle EXCEPT !.phase = "read", !.since = Largest(ResumeFrom, progress)]
    <3>1. RuntimeHolds(runtime', replicator')
      BY Zenon, <1>3, <2>3 DEF RuntimeHolds
    <3>2. replicator' = [phase |-> "read", since |-> Largest(ResumeFrom, progress), batch |-> <<>>]
      BY Zenon, <2>3 DEF Idle
    <3>3. ReplicatorHolds(replicator', progress', admissions', Stored)
      <4>1. /\ ReplicatorHolds(replicator, progress, admissions, Stored) /\ progress \in Nat
            /\ Largest(ResumeFrom, progress) \in Nat /\ Largest(ResumeFrom, progress) <= Largest(ResumeFrom, progress)
        <5>1. ReplicatorHolds(replicator, progress, admissions, Stored)
          BY DEF ChannelInv
        <5>2. progress \in Nat
          BY Zenon, <5>1 DEF ReplicatorHolds
        <5> QED
          BY <5>1, <5>2, ChannelAssumption DEF Largest
      <4>2. <<>> \in Seq(Stored) /\ Len(<<>>) = 0
        OBVIOUS
      <4> QED
        BY <1>1, <3>2, <4>1, <4>2 DEF ReplicatorHolds
    <3>4. HandlersHold(handlers', admissions', replicator', Stored)
      BY <1>1, <2>1, GoneStand
    <3>5. AdmissionsHold(admissions', Stored)
      BY <1>1 DEF ChannelInv
    <3> QED
      BY <1>2, <3>1, <3>3, <3>4, <3>5, ChannelParts
  <2> QED
    BY <1>2, <1>8, <2>2, <2>3 DEF Launch
<1> QED
  BY <1>5, <1>6, <1>7, <1>8

(* What a reader of the whole log finds after a sequence number.            *)
LEMMA FoundAfter ==
  ASSUME NEW n \in Nat, DOMAIN objects = 1 .. n, NEW since \in Nat, NEW found, found # {},
         found = {s \in DOMAIN objects : since < s}
  PROVE  /\ found = since + 1 .. n /\ since < n /\ Cardinality(found) = n - since
         /\ (CHOOSE s \in found : \A t \in found : s <= t) = since + 1
<1>1. found = since + 1 .. n
  OBVIOUS
<1>2. since < n
  BY <1>1
<1>3. Cardinality(found) = n - since
  <2>1. since + 1 \in Int /\ n \in Int
    OBVIOUS
  <2>2. Cardinality(since + 1 .. n) = n - (since + 1) + 1
    BY <1>2, <2>1, FS_Interval
  <2>3. n - (since + 1) + 1 = n - since
    OBVIOUS
  <2> QED
    BY Zenon, <1>1, <2>2, <2>3
<1>4. since + 1 \in found /\ \A t \in found : since + 1 <= t
  BY <1>1, <1>2
<1>5. \A s \in found : (\A t \in found : s <= t) => s = since + 1
  BY <1>1, <1>4
<1> QED
  BY <1>1, <1>2, <1>3, <1>4, <1>5

(* The replicator takes the next entries of the log, or fails.              *)
LEMMA ReadHolds ==
  ASSUME ChannelInv, LogInv, ReadEntries, UNCHANGED objects
  PROVE  ChannelInv' /\ CommittedStay /\ FreshOnly
<1> DEFINE since == replicator.since
           found == {s \in DOMAIN objects : since < s}
           first == CHOOSE s \in found : \A t \in found : s <= t
           whole == \A s \in found : Decodes(s) /\ (s # first => s - 1 \in found)
           count == IF Cardinality(found) < ReplicatorBatch THEN Cardinality(found) ELSE ReplicatorBatch
           batch == [i \in 1 .. count |-> objects[first + i - 1]]
<1>1. PICK n \in Nat : LogUpTo(n)
  BY DEF LogInv
<1>2. /\ replicator.phase = "read" /\ found # {} /\ UNCHANGED <<progress, admissions, handlers, streams>>
      /\ \/ whole /\ replicator' = [replicator EXCEPT !.phase = "send", !.batch = batch] /\ UNCHANGED runtime
         \/ replicator' = Ended(replicator) /\ runtime' = Failing
  BY DEF ReadEntries
<1>3. /\ ReplicatorHolds(replicator, progress, admissions, Stored) /\ since \in Nat
      /\ FreshOnly /\ StreamsHold(streams', Stored) /\ CommittedStay
  BY <1>2, StreamsStand DEF ChannelInv, ReplicatorHolds, CommittedStay
<1>4. /\ DOMAIN objects = 1 .. n /\ found = since + 1 .. n /\ since < n /\ Cardinality(found) = n - since
      /\ first = since + 1
  <2>1. DOMAIN objects = 1 .. n
    BY <1>1 DEF LogUpTo
  <2> HIDE DEF since
  <2> QED
    BY Zenon, <1>2, <1>3, <2>1, FoundAfter
<1>5. count \in Nat /\ 1 <= count /\ since + count <= n
  BY <1>3, <1>4, ChannelAssumption
<1>6. HandlersHold(handlers', admissions', replicator', Stored) /\ AdmissionsHold(admissions', Stored)
  BY <1>2, GoneStand DEF ChannelInv
<1>7. RuntimeHolds(runtime', replicator')
  BY <1>2, RuntimeFails
<1>8. ReplicatorHolds(replicator', progress', admissions', Stored)
  <2>1. CASE replicator' = Ended(replicator)
    BY Zenon, <1>2, <1>3, <2>1, ReplicatorPhases
  <2>2. CASE whole /\ replicator' = [replicator EXCEPT !.phase = "send", !.batch = batch]
    <3>1. ASSUME NEW i \in 1 .. count
          PROVE  /\ since + i \in DOMAIN objects /\ batch[i] = objects[since + i] /\ batch[i] \in Stored
                 /\ batch[i].sequence = since + i
      <4>0. i \in Nat /\ 1 <= i /\ i <= count
        BY <1>5, <3>1
      <4>1. since + i \in found /\ first + i - 1 = since + i
        <5> HIDE DEF count, since, found, first
        <5>1. since + i \in since + 1 .. n /\ since + 1 + i - 1 = since + i
          BY <1>3, <1>5, <4>0
        <5> QED
          BY <1>4, <5>1
      <4>2. Decodes(since + i)
        BY <2>2, <4>1
      <4>3. batch[i] = objects[since + i]
        BY Zenon, <4>1
      <4> QED
        BY Zenon, <1>4, <4>1, <4>2, <4>3 DEF Decodes, Stored
    <3>2. batch \in Seq(Stored) /\ Len(batch) = count /\ batch # <<>>
      <4>1. batch = [i \in 1 .. count |-> batch[i]]
        OBVIOUS
      <4> HIDE DEF batch, count
      <4>2. batch \in [1 .. count -> Stored]
        BY <3>1, <4>1
      <4> QED
        BY <1>5, <4>2
    <3> HIDE DEF batch, count, whole, found
    <3>3. /\ replicator' \in [phase : {"off", "read", "send", "wait", "acknowledge", "ended"}, since : Nat,
                              batch : Seq(Stored)]
          /\ replicator'.phase = "send" /\ replicator'.since = since /\ replicator'.batch = batch
      BY Zenon, <1>3, <2>2, <3>2 DEF ReplicatorHolds
    <3> QED
      BY <1>2, <1>3, <3>1, <3>2, <3>3 DEF ReplicatorHolds
  <2> QED
    BY <1>2, <2>1, <2>2
<1> QED
  BY <1>3, <1>6, <1>7, <1>8, ChannelParts

(* The first entry of the batch is sent to a handler that is free.          *)
LEMMA SendHolds ==
  ASSUME ChannelInv, SendEvent, UNCHANGED objects
  PROVE  ChannelInv' /\ CommittedStay /\ FreshOnly
<1> DEFINE n == [entry |-> Head(replicator.batch), phase |-> "claim", todo |-> {}, gone |-> FALSE]
<1>1. /\ replicator.phase = "send" /\ replicator' = [replicator EXCEPT !.phase = "wait"]
      /\ UNCHANGED <<runtime, progress, admissions, streams>>
  BY DEF SendEvent
<1>2. PICK h \in Handlers : handlers[h] = {} /\ handlers' = [handlers EXCEPT ![h] = {n}]
  BY Zenon DEF SendEvent
<1>3. /\ ReplicatorHolds(replicator, progress, admissions, Stored)
      /\ FreshOnly /\ StreamsHold(streams', Stored) /\ CommittedStay /\ AdmissionsHold(admissions', Stored)
  BY <1>1, StreamsStand DEF ChannelInv, CommittedStay
<1>4. Head(replicator.batch) = replicator.batch[1] /\ replicator.batch[1] \in Stored
  <2>1. replicator.batch \in Seq(Stored) /\ replicator.batch # <<>>
    BY <1>1, <1>3 DEF ReplicatorHolds
  <2> QED
    BY <2>1
<1>5. /\ n \in HandlerCalls(Stored) /\ n.entry = replicator.batch[1] /\ n.phase = "claim" /\ ~n.gone
      /\ n.phase \notin Holding
  BY Zenon, <1>4 DEF HandlerCalls, Holding
<1> HIDE DEF n
<1>6. /\ replicator' \in [phase : {"off", "read", "send", "wait", "acknowledge", "ended"}, since : Nat,
                          batch : Seq(Stored)]
      /\ replicator'.phase = "wait" /\ replicator'.since = replicator.since /\ replicator'.batch = replicator.batch
  BY <1>1, <1>3 DEF ReplicatorHolds
<1>7. ReplicatorHolds(replicator', progress', admissions', Stored)
  BY <1>1, <1>3, <1>6 DEF ReplicatorHolds
<1>8. HandlersHold(handlers', admissions', replicator', Stored)
  <2>1. HandlersHold(handlers, admissions, replicator, Stored) /\ \A k \in Handlers : \A d \in handlers[k] : d.gone
    BY <1>1, AllGone DEF ChannelInv
  <2>2. /\ handlers' \in [Handlers -> SUBSET HandlerCalls(Stored)] /\ handlers'[h] = {n}
        /\ \A k \in Handlers : k # h => handlers'[k] = handlers[k]
    <3>1. handlers \in [Handlers -> SUBSET HandlerCalls(Stored)]
      BY Zenon, <2>1 DEF HandlersHold
    <3> QED
      BY Zenon, <1>2, <1>5, <3>1
  <2>3. HandlerTrue(n, admissions', replicator')
    BY Zenon, <1>5, <1>6 DEF HandlerTrue
  <2>4. \A k \in Handlers : k # h => \A d \in handlers[k] : HandlerTrue(d, admissions', replicator')
    BY Zenon, <1>1, <2>1 DEF HandlersHold, HandlerTrue
  <2>5. \A k \in Handlers : k # h => \A d \in handlers[k] : Separate(d, n) /\ Separate(n, d)
    BY Zenon, <1>5, <2>1 DEF Separate
  <2> QED
    BY <2>1, <2>2, <2>3, <2>4, <2>5 DEF HandlersHold
<1>9. RuntimeHolds(runtime', replicator')
  BY <1>1, RuntimeFails
<1> QED
  BY Zenon, <1>3, <1>7, <1>8, <1>9, ChannelParts

(* What is left of a batch after its first entry.                           *)
LEMMA RestOfBatch ==
  ASSUME NEW S, NEW b \in Seq(S), b # <<>>
  PROVE  /\ Head(b) = b[1] /\ Tail(b) \in Seq(S) /\ Len(Tail(b)) + 1 = Len(b) /\ 1 \in 1 .. Len(b)
         /\ \A i \in 1 .. Len(Tail(b)) : Tail(b)[i] = b[i + 1] /\ i + 1 \in 1 .. Len(b)
OBVIOUS

(* The progress of an entry is saved after its admission was committed.     *)
LEMMA SaveHolds ==
  ASSUME ChannelInv, SaveReplicationProgress, UNCHANGED objects
  PROVE  ChannelInv' /\ CommittedStay /\ FreshOnly
<1> DEFINE since == replicator.since
           b == replicator.batch
           saved == Head(b).sequence
           rest == Tail(b)
           ph == IF rest = <<>> THEN "read" ELSE "send"
<1>1. /\ replicator.phase = "acknowledge" /\ UNCHANGED <<admissions, handlers, streams>>
      /\ \/ /\ progress' = Largest(progress, saved) /\ replicator' = [phase |-> ph, since |-> saved, batch |-> rest]
            /\ UNCHANGED runtime
         \/ replicator' = Ended(replicator) /\ runtime' = Failing /\ UNCHANGED progress
  BY Zenon DEF SaveReplicationProgress
<1>2. /\ ReplicatorHolds(replicator, progress, admissions, Stored) /\ AdmissionsHold(admissions', Stored)
      /\ FreshOnly /\ StreamsHold(streams', Stored) /\ CommittedStay
  BY Zenon, <1>1, StreamsStand DEF ChannelInv, CommittedStay
<1>3. HandlersHold(handlers', admissions', replicator', Stored) /\ RuntimeHolds(runtime', replicator')
  BY Zenon, <1>1, GoneStand, RuntimeFails
<1>4. ReplicatorHolds(replicator', progress', admissions', Stored)
  <2>1. CASE replicator' = Ended(replicator) /\ UNCHANGED progress
    BY Zenon, <1>1, <1>2, <2>1, ReplicatorPhases
  <2>2. CASE progress' = Largest(progress, saved) /\ replicator' = [phase |-> ph, since |-> saved, batch |-> rest]
    <3>1. /\ since \in Nat /\ progress \in Nat /\ since <= Largest(ResumeFrom, progress) /\ b \in Seq(Stored)
          /\ b # <<>> /\ IsCommitted(admissions, b[1])
          /\ \A i \in 1 .. Len(b) : /\ since + i \in DOMAIN objects /\ b[i] = objects[since + i]
                                    /\ b[i].sequence = since + i
          /\ \A s \in ResumeFrom + 1 .. progress : s \in DOMAIN objects /\ IsCommitted(admissions, objects[s])
      BY Zenon, <1>1, <1>2 DEF ReplicatorHolds
    <3> HIDE DEF since, b
    <3>2. /\ Head(b) = b[1] /\ rest \in Seq(Stored) /\ Len(rest) + 1 = Len(b) /\ 1 \in 1 .. Len(b)
          /\ \A i \in 1 .. Len(rest) : rest[i] = b[i + 1] /\ i + 1 \in 1 .. Len(b)
      BY Zenon, <3>1, RestOfBatch
    <3>3. /\ saved = since + 1 /\ saved \in Nat /\ saved \in DOMAIN objects /\ IsCommitted(admissions, objects[saved])
      BY <3>1, <3>2
    <3> HIDE DEF rest, saved
    <3>4. progress' \in Nat /\ saved <= Largest(ResumeFrom, progress')
      BY <2>2, <3>1, <3>3, ChannelAssumption DEF Largest
    <3>5. \A s \in ResumeFrom + 1 .. progress' : s \in ResumeFrom + 1 .. progress \/ s = saved
      BY <2>2, <3>1, <3>3, ChannelAssumption DEF Largest
    <3>6. ASSUME NEW i \in 1 .. Len(rest)
          PROVE  /\ saved + i \in DOMAIN objects /\ rest[i] = objects[saved + i] /\ rest[i].sequence = saved + i
      <4>1. since + (i + 1) = saved + i
        BY <3>1, <3>3
      <4> QED
        BY Zenon, <3>1, <3>2, <4>1
    <3>7. /\ replicator' \in [phase : {"off", "read", "send", "wait", "acknowledge", "ended"}, since : Nat,
                              batch : Seq(Stored)]
          /\ replicator'.since = saved /\ replicator'.batch = rest
          /\ replicator'.phase \in {"read", "send"} /\ (replicator'.phase = "send" => rest # <<>>)
      BY Zenon, <2>2, <3>2, <3>3
    <3> QED
      BY Zenon, <1>1, <3>1, <3>3, <3>4, <3>5, <3>6, <3>7 DEF ReplicatorHolds
  <2> QED
    BY Zenon, <1>1, <2>1, <2>2
<1> QED
  BY <1>2, <1>3, <1>4, ChannelParts

(* The sender gives up: a lost connection, its cancellation, its restart.   *)
LEMMA GiveUpHolds ==
  ASSUME ChannelInv, ConnectionLost \/ Canceled \/ SenderRestarts, UNCHANGED objects
  PROVE  ChannelInv' /\ CommittedStay /\ FreshOnly
<1>1. UNCHANGED <<progress, admissions, streams>>
  BY DEF ConnectionLost, Canceled, SenderRestarts
<1>2. /\ ReplicatorHolds(replicator, progress, admissions, Stored) /\ AdmissionsHold(admissions', Stored)
      /\ FreshOnly /\ StreamsHold(streams', Stored) /\ CommittedStay
  BY Zenon, <1>1, StreamsStand DEF ChannelInv, CommittedStay
<1>3. HandlersHold(handlers', admissions', replicator', Stored)
  <2>0. HandlersHold(handlers, admissions, replicator, Stored)
    BY DEF ChannelInv
  <2>1. CASE Canceled \/ SenderRestarts
    <3>1. handlers' = [h \in Handlers |-> {[c EXCEPT !.gone = TRUE] : c \in handlers[h]}]
      BY <2>1 DEF Canceled, SenderRestarts
    <3>2. \A h \in Handlers : handlers'[h] = {[c EXCEPT !.gone = TRUE] : c \in handlers[h]}
      BY <3>1
    <3>3. DOMAIN handlers' = Handlers /\ handlers' = [h \in Handlers |-> handlers'[h]]
      BY <3>1
    <3> QED
      BY <1>1, <3>2, <3>3, GivenUp
  <2>2. CASE ConnectionLost
    <3>1. PICK h \in Handlers : handlers[h] # {} /\ ~Call(h).gone /\ handlers' = Abandoned(h)
      BY <2>2 DEF ConnectionLost
    <3>2. Call(h) \in handlers[h]
      BY Zenon, <3>1, TheCall
    <3>3. \A k \in Handlers : k # h => \A c \in handlers[k] : c.gone
      BY Zenon, <2>0, <3>1, <3>2 DEF HandlersHold, Separate
    <3>4. /\ DOMAIN handlers' = Handlers /\ handlers' = [k \in Handlers |-> handlers'[k]]
          /\ handlers'[h] = {[c EXCEPT !.gone = TRUE] : c \in handlers[h]}
          /\ \A k \in Handlers : k # h => handlers'[k] = handlers[k]
      BY Zenon, <2>0, <3>1 DEF Abandoned, HandlersHold
    <3>5. \A k \in Handlers : \/ handlers'[k] = {[c EXCEPT !.gone = TRUE] : c \in handlers[k]}
                              \/ handlers'[k] = handlers[k] /\ \A c \in handlers[k] : c.gone
      BY <3>3, <3>4
    <3> QED
      BY <1>1, <3>4, <3>5, GivenUp
  <2> QED
    BY <2>1, <2>2
<1>4. ReplicatorHolds(replicator', progress', admissions', Stored) /\ RuntimeHolds(runtime', replicator')
  <2>1. CASE ConnectionLost
    <3>1. replicator.phase = "wait" /\ replicator' = [replicator EXCEPT !.phase = "send"] /\ UNCHANGED runtime
      BY <2>1 DEF ConnectionLost
    <3>2. RuntimeHolds(runtime', replicator')
      BY <3>1, RuntimeFails
    <3> QED
      BY Zenon, <1>1, <1>2, <3>1, <3>2, ReplicatorPhases
  <2>2. CASE Canceled
    <3>1. replicator.phase # "off" /\ replicator' = Ended(replicator) /\ UNCHANGED runtime
      BY <2>2 DEF Canceled
    <3>2. RuntimeHolds(runtime', replicator')
      BY <3>1, RuntimeFails
    <3> QED
      BY Zenon, <1>1, <1>2, <3>1, <3>2, ReplicatorPhases
  <2>3. CASE SenderRestarts
    <3>1. runtime' = Created /\ replicator' = [phase |-> "off", since |-> 0, batch |-> <<>>]
      BY <2>3 DEF SenderRestarts, Idle
    <3>2. RuntimeHolds(runtime', replicator')
      BY Zenon, <3>1 DEF RuntimeHolds, Created
    <3>3. <<>> \in Seq(Stored) /\ Len(<<>>) = 0 /\ progress \in Nat /\ 0 <= Largest(ResumeFrom, progress)
      <4>1. progress \in Nat
        BY Zenon, <1>2 DEF ReplicatorHolds
      <4> QED
        BY <4>1, ChannelAssumption DEF Largest
    <3>4. /\ replicator' \in [phase : {"off", "read", "send", "wait", "acknowledge", "ended"}, since : Nat, batch : Seq(Stored)]
          /\ replicator'.since = 0 /\ replicator'.phase = "off" /\ replicator'.batch = <<>>
      BY Zenon, <3>1, <3>3
    <3>5. ReplicatorHolds(replicator', progress', admissions', Stored)
      <4>1. 1 .. Len(<<>>) = {} /\ "off" \notin {"send", "wait", "acknowledge"}
        OBVIOUS
      <4> QED
        BY Zenon, <1>1, <1>2, <3>3, <3>4, <4>1 DEF ReplicatorHolds
    <3> QED
      BY Zenon, <3>2, <3>5
  <2> QED
    BY Zenon, <2>1, <2>2, <2>3
<1> QED
  BY Zenon, <1>2, <1>3, <1>4, ChannelParts

(* Every step of the channel.                                               *)
LEMMA ChannelSteps ==
  ASSUME ChannelInv, LogInv, ChannelNext, UNCHANGED objects
  PROVE  ChannelInv' /\ CommittedStay /\ FreshOnly
<1>1. CASE RuntimeStep \/ CloseRuntime
  BY <1>1, RuntimeSteps, ReadHolds, SendHolds, SaveHolds, GiveUpHolds DEF RuntimeStep
<1>2. CASE ConnectionLost \/ SenderRestarts
  BY <1>2, GiveUpHolds
<1>3. CASE ReceiverRestarts
  BY <1>3, ReceiverGoneHolds, GoneIsFresh DEF ReceiverRestarts, CommittedStay
<1>4. CASE \E h \in Handlers : HandlerStep(h)
  BY <1>4, HandlerHolds
<1>5. CASE \E s \in Streams : \/ \E job \in {{}} \union {{j} : j \in Jobs}, from \in Int : StreamCheckpoints(s, job, from)
                              \/ StreamSend(s) \/ StreamEnds(s)
  BY <1>5, StreamSteps
<1>6. CASE \E number \in Int : ReportReplicationStatus(number)
  <2>1. UNCHANGED <<runtime, replicator, progress, admissions, handlers, streams>>
    BY <1>6 DEF ReportReplicationStatus
  <2> QED
    BY Zenon, <2>1, StreamsStand, ChannelParts DEF ChannelInv, CommittedStay
<1> QED
  BY <1>1, <1>2, <1>3, <1>4, <1>5, <1>6 DEF ChannelNext

(* The channel does not notice that the log grows.                          *)
LEMMA LogGrows ==
  ASSUME ChannelInv, UNCHANGED channelVars, \A s \in DOMAIN objects : s \in DOMAIN objects' /\ objects'[s] = objects[s]
  PROVE  ChannelInv'
<1>1. UNCHANGED <<runtime, replicator, progress, admissions, handlers, streams>>
  BY Zenon DEF channelVars
<1>2. Stored \subseteq Stored'
  BY Zenon DEF Stored
<1>3. \A q \in Seq(Stored) : q \in Seq(Stored')
  <2> SUFFICES ASSUME NEW q \in Seq(Stored) PROVE q \in Seq(Stored')
    OBVIOUS
  <2>1. Len(q) \in Nat /\ q \in [1 .. Len(q) -> Stored']
    BY <1>2
  <2> QED
    BY <2>1
<1>4. HandlerCalls(Stored) \subseteq HandlerCalls(Stored')
  BY Zenon, <1>2 DEF HandlerCalls
<1>5. StreamsHold(streams, Stored)'
  <2>1. StreamsHold(streams, Stored)
    BY Zenon DEF ChannelInv
  <2> QED
    BY Zenon, <1>1, <1>3, <2>1 DEF StreamsHold
<1>6. HandlersHold(handlers, admissions, replicator, Stored)'
  <2>1. HandlersHold(handlers, admissions, replicator, Stored)
    BY Zenon DEF ChannelInv
  <2> QED
    BY Zenon, <1>1, <1>4, <2>1 DEF HandlersHold
<1>7. AdmissionsHold(admissions, Stored)'
  <2>1. AdmissionsHold(admissions, Stored)
    BY Zenon DEF ChannelInv
  <2> QED
    BY <1>1, <1>2, <2>1 DEF AdmissionsHold
<1>8. ReplicatorHolds(replicator, progress, admissions, Stored)'
  <2>1. ReplicatorHolds(replicator, progress, admissions, Stored)
    BY Zenon DEF ChannelInv
  <2>2. replicator \in [phase : {"off", "read", "send", "wait", "acknowledge", "ended"}, since : Nat, batch : Seq(Stored')]
    BY Zenon, <1>3, <2>1 DEF ReplicatorHolds
  <2> QED
    BY Zenon, <1>1, <2>1, <2>2 DEF ReplicatorHolds
<1> QED
  BY Zenon, <1>1, <1>5, <1>6, <1>7, <1>8 DEF ChannelInv

(* Every step of the log beside the channel.                                *)
LEMMA ReplicationSteps ==
  ASSUME LogInv, ChannelInv, [ReplicationNext]_<<logVars, channelVars, peerAuth>>
  PROVE  LogInv' /\ ChannelInv' /\ CommittedStay /\ FreshOnly
<1>1. PICK n \in Nat : LogUpTo(n)
  BY DEF LogInv
<1>2. [LogNext]_logVars
  BY DEF ReplicationNext
<1>3. LogInv' /\ \A s \in DOMAIN objects : s \in DOMAIN objects' /\ objects'[s] = objects[s]
  BY <1>1, <1>2, LogStepKeeps
<1>4. CASE UNCHANGED channelVars
  <2>1. UNCHANGED <<admissions, streams>>
    BY <1>4 DEF channelVars
  <2> QED
    BY Zenon, <1>3, <1>4, <2>1, LogGrows, StreamsStand DEF CommittedStay
<1>5. CASE ChannelNext /\ UNCHANGED logVars
  <2>1. UNCHANGED objects
    BY <1>5 DEF logVars
  <2> QED
    BY <1>3, <1>5, <2>1, ChannelSteps
<1> QED
  BY <1>4, <1>5 DEF ReplicationNext

(* LogInv and ChannelInv hold in every state of the log and of the channel  *)
(* that replicates it, whatever calls are lost, repeated or outlive their   *)
(* sender and whichever side restarts (replicator.go:64-136,                *)
(* service.go:223-279, admission.go:22-81).                                 *)
THEOREM ReplicationInvariant == ReplicationSpec => [](LogInv /\ ChannelInv)
<1>1. LogInit /\ ChannelInit => LogInv /\ ChannelInv
  <2> SUFFICES ASSUME LogInit, ChannelInit PROVE LogInv /\ ChannelInv
    OBVIOUS
  <2>1. LogUpTo(0)
    <3>1. DOMAIN objects = 1 .. 0 /\ sequence = 0 /\ pending = <<>> /\ published = {}
      BY DEF LogInit
    <3> QED
      BY <3>1 DEF LogUpTo, Consecutive, Agrees
  <2>2. RuntimeHolds(runtime, replicator)
    BY Zenon DEF ChannelInit, RuntimeHolds, Created, Idle
  <2>3. ReplicatorHolds(replicator, progress, admissions, Stored)
    <3>1. <<>> \in Seq(Stored) /\ Len(<<>>) = 0 /\ 0 <= Largest(ResumeFrom, 0)
      BY ChannelAssumption DEF Largest
    <3>2. replicator = [phase |-> "off", since |-> 0, batch |-> <<>>] /\ progress = 0
      BY Zenon DEF ChannelInit, Idle
    <3>3. \A s \in ResumeFrom + 1 .. 0 : FALSE
      BY ChannelAssumption
    <3> QED
      BY <3>1, <3>2, <3>3 DEF ReplicatorHolds
  <2>4. AdmissionsHold(admissions, Stored) /\ HandlersHold(handlers, admissions, replicator, Stored)
    BY Zenon DEF ChannelInit, AdmissionsHold, HandlersHold
  <2>5. StreamsHold(streams, Stored)
    <3>1. [state |-> "new", job |-> {}, from |-> 0, queue |-> <<>>]
             \in [state : {"new", "open", "closed"}, job : SUBSET Jobs, from : Int, queue : Seq(Stored)]
      OBVIOUS
    <3> QED
      BY Zenon, <3>1 DEF ChannelInit, StreamsHold
  <2> QED
    BY <2>1, <2>2, <2>3, <2>4, <2>5 DEF LogInv, ChannelInv
<1>2. LogInv /\ ChannelInv /\ [ReplicationNext]_<<logVars, channelVars, peerAuth>> => (LogInv /\ ChannelInv)'
  BY ReplicationSteps
<1> QED
  BY <1>1, <1>2, PTL DEF ReplicationSpec

(* What the replicator has recorded as acknowledged is admitted for good,   *)
(* a committed admission is never withdrawn, and no entry with a committed  *)
(* admission is delivered to a stream again.                                *)
THEOREM EntriesAreAdmittedOnce == ReplicationSpec => AdmittedOnce
<1> DEFINE Kept ==
      /\ \A a \in admissions : a.committed => a \in admissions'
      /\ \A s \in Streams : streams[s].state = "open" /\ Len(streams[s].queue) < Len(streams'[s].queue)
            => ~Committed(streams'[s].queue[Len(streams'[s].queue)])
<1>1. ChannelInv => AcknowledgedIsAdmitted
  <2> SUFFICES ASSUME ChannelInv PROVE AcknowledgedIsAdmitted
    OBVIOUS
  <2>1. \A s \in ResumeFrom + 1 .. progress : s \in DOMAIN objects /\ IsCommitted(admissions, objects[s])
    BY Zenon DEF ChannelInv, ReplicatorHolds
  <2> QED
    BY Zenon, <2>1 DEF AcknowledgedIsAdmitted, IsCommitted, Committed, Admitted, SameCheckpoint
<1>2. LogInv /\ ChannelInv /\ [ReplicationNext]_<<logVars, channelVars, peerAuth>> => [Kept]_channelVars
  <2> SUFFICES ASSUME LogInv, ChannelInv, [ReplicationNext]_<<logVars, channelVars, peerAuth>> PROVE Kept
    BY Zenon
  <2>1. CommittedStay /\ FreshOnly
    BY ReplicationSteps
  <2>2. \A e : Committed(e) => IsCommitted(admissions, e)
    BY Zenon DEF IsCommitted, Committed, Admitted, SameCheckpoint
  <2> QED
    BY Zenon, <2>1, <2>2 DEF CommittedStay, FreshOnly
<1> QED
  BY <1>1, <1>2, ReplicationInvariant, PTL DEF ReplicationSpec, AdmittedOnce
===============================================================================
