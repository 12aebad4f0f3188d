---------------------------- MODULE ReplicationLog ----------------------------
(***************************************************************************)
(* The write-ahead log by which a region announces its completed           *)
(* checkpoints: one object per entry, numbered by the writer               *)
(* (replication/wal/wal.go), the publisher that checks the epoch of a      *)
(* checkpoint before appending it (replication/checkpoint/publisher.go)    *)
(* and the object store below (replication/objectstore/filesystem.go).     *)
(*                                                                         *)
(* An object is the entry it encodes: the store renames a finished file    *)
(* into place, so that no reader sees half of one.  A damaged object is    *)
(* one whose checksum fails.                                               *)
(***************************************************************************)
EXTENDS Integers, Sequences, FiniteSets

CONSTANTS
    Jobs,               \* Jobs of the region
    Uris,               \* URIs of checkpoint manifests
    BatchSize,          \* appends that fill a batch
    MaxSequence         \* bound: entries a behaviour numbers

ASSUME LogAssumption == MaxSequence \in Nat

VARIABLES
    epochs,             \* Job -> its epoch in astrasync_replication_job_epochs
    publishing,         \* checkpoints whose epoch was current when it was read
    objects,            \* sequence -> entry, the objects of the region's prefix
    damaged,            \* sequences whose object no longer decodes
    sequence,           \* Writer.sequence
    pending,            \* Writer.pending
    writer,             \* "open", "closing" or "closed"
    flusher,            \* whether runFlusher still ticks
    lastRead,           \* Reader.lastReadSeq
    published           \* entries Publish has returned to its caller

logVars == <<publishing, objects, damaged, sequence, pending, writer, flusher, lastRead, published>>

Entry(record, number) == [job |-> record.job, epoch |-> record.epoch, uri |-> record.uri, sequence |-> number]

---------------------------------------------------------------------------
(* The publisher reads the Job's epoch, then appends.                       *)

Publish(record) ==
    /\ epochs[record.job] = record.epoch
    /\ publishing' = publishing \union {record}
    /\ UNCHANGED <<objects, damaged, sequence, pending, writer, flusher, lastRead, published>>

(* flushLocked puts the batch in order and stops at the first failure: the  *)
(* first n objects are written, and the batch is kept unless all are.       *)
PutObject(batch, n) ==
    LET written == {batch[i].sequence : i \in 1 .. n}
    IN  [s \in (DOMAIN objects) \union written |->
            IF s \in written THEN batch[CHOOSE i \in 1 .. n : batch[i].sequence = s] ELSE objects[s]]
(* Mutant: a batch that was not written whole is dropped.                   *)
FlushedOnce(batch, n) == objects' = PutObject(batch, n) /\ pending' = <<>>
flushLocked(batch, n) ==
    /\ objects' = PutObject(batch, n)
    /\ pending' = IF n = Len(batch) THEN <<>> ELSE batch

(* The number is taken once the entry encodes, and kept by the entry even   *)
(* when its flush fails.                                                    *)
Numbered(record) == Append(pending, Entry(record, sequence + 1))
AppendDurable(record) ==
    /\ record \in publishing /\ publishing' = publishing \ {record}
    /\ writer = "open" /\ sequence < MaxSequence
    /\ sequence' = sequence + 1
    /\ \E n \in 0 .. Len(Numbered(record)) :
          /\ flushLocked(Numbered(record), n)
          /\ published' = IF n = Len(Numbered(record)) THEN published \union {Entry(record, sequence + 1)}
                          ELSE published
    /\ UNCHANGED <<damaged, writer, flusher, lastRead>>

AppendRefused(record) ==
    /\ record \in publishing /\ publishing' = publishing \ {record}
    /\ writer # "open"
    /\ UNCHANGED <<objects, damaged, sequence, pending, writer, flusher, lastRead, published>>

(* Append leaves the entry to the flusher unless it fills the batch.        *)
AppendLater(record) ==
    /\ writer = "open" /\ sequence < MaxSequence
    /\ sequence' = sequence + 1
    /\ \/ /\ Len(Numbered(record)) < BatchSize /\ pending' = Numbered(record) /\ UNCHANGED objects
       \/ /\ Len(Numbered(record)) >= BatchSize
          /\ \E n \in 0 .. Len(Numbered(record)) : flushLocked(Numbered(record), n)
    /\ UNCHANGED <<publishing, damaged, writer, flusher, lastRead, published>>

---------------------------------------------------------------------------
(* The flusher's tick.  Close first ends the flusher, then flushes; when    *)
(* that fails the writer is open again, without a flusher.                  *)

Flush ==
    /\ flusher /\ writer = "open" /\ pending # <<>>
    /\ \E n \in 0 .. Len(pending) : flushLocked(pending, n)
    /\ UNCHANGED <<publishing, damaged, sequence, writer, flusher, lastRead, published>>

Close ==
    /\ writer = "open" /\ writer' = "closing" /\ flusher' = FALSE
    /\ UNCHANGED <<publishing, objects, damaged, sequence, pending, lastRead, published>>
Closed ==
    /\ writer = "closing"
    /\ \E n \in 0 .. Len(pending) :
          flushLocked(pending, n) /\ writer' = IF n = Len(pending) THEN "closed" ELSE "open"
    /\ UNCHANGED <<publishing, damaged, sequence, flusher, lastRead, published>>

(* The process ends and another one counts on from the highest key.         *)
HighestKey(keys) == IF keys = {} THEN 0 ELSE CHOOSE s \in keys : \A t \in keys : t <= s
NewWriter ==
    /\ publishing' = {} /\ pending' = <<>> /\ writer' = "open" /\ flusher' = TRUE
    /\ sequence' = HighestKey(DOMAIN objects)
    /\ UNCHANGED <<objects, damaged, lastRead, published>>

---------------------------------------------------------------------------
(* A reader takes the entries after the last one it read, as long as they   *)
(* follow each other and decode.                                            *)

Decodes(s) == s \in DOMAIN objects /\ s \notin damaged /\ objects[s].sequence = s

ReadNext ==
    /\ Decodes(lastRead + 1) /\ lastRead' = lastRead + 1
    /\ UNCHANGED <<publishing, objects, damaged, sequence, pending, writer, flusher, published>>

ReadBatch(maxCount) ==
    LET found == {s \in DOMAIN objects : lastRead < s}
        count == IF Cardinality(found) < maxCount THEN Cardinality(found) ELSE maxCount
    IN  /\ found # {} /\ \A i \in 1 .. count : Decodes(lastRead + i)
        /\ lastRead' = lastRead + count
        /\ UNCHANGED <<publishing, objects, damaged, sequence, pending, writer, flusher, published>>

Damage(s) ==
    /\ s \in DOMAIN objects /\ damaged' = damaged \union {s}
    /\ UNCHANGED <<publishing, objects, sequence, pending, writer, flusher, lastRead, published>>

---------------------------------------------------------------------------
LogInit ==
    /\ publishing = {} /\ objects = [s \in {} |-> s] /\ damaged = {} /\ sequence = 0 /\ pending = <<>>
    /\ writer = "open" /\ flusher = TRUE /\ lastRead = 0 /\ published = {}
LogNext ==
    \/ \E j \in Jobs, u \in Uris, e \in 0 .. MaxSequence :
          LET record == [job |-> j, epoch |-> e, uri |-> u]
          IN  Publish(record) \/ AppendDurable(record) \/ AppendRefused(record) \/ AppendLater(record)
    \/ Flush \/ Close \/ Closed \/ NewWriter \/ ReadNext
    \/ \E n \in 1 .. MaxSequence : ReadBatch(n)
    \/ \E s \in DOMAIN objects : Damage(s)
LogSpec == LogInit /\ [][LogNext]_logVars

(* The log has no gap, and every checkpoint whose publication was reported  *)
(* is in it under its number, whatever flush failed half-way and whenever   *)
(* the writer was closed or started again (wal.go:307-418).                 *)
LogIsWhole ==
    /\ DOMAIN objects = 1 .. HighestKey(DOMAIN objects)
    /\ \A e \in published : e.sequence \in DOMAIN objects /\ objects[e.sequence] = e

(* An entry once written is never replaced by another: a batch that is      *)
(* flushed again writes the same objects, and a writer that starts again    *)
(* counts on from the highest (wal.go:263-293, 404-418).                    *)
LogIsAppendOnly == [][\A s \in DOMAIN objects : s \in DOMAIN objects' /\ objects'[s] = objects[s]]_logVars
===============================================================================
