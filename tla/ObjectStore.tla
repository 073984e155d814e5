---------------------------- MODULE ObjectStore ----------------------------
(***************************************************************************)
(* The storage port of backend/services/objectstore.py over its two media, *)
(* with the digest memo of backend/services/digest.py and the write of     *)
(* backend/services/fileio.py behind it: a directory, where a put streams  *)
(* to a sibling temporary file that is renamed, and a bucket, where it     *)
(* spools and sends one request.  A client may go away in mid-stream, a    *)
(* request may fail before or after it took effect, and the process may    *)
(* die.  Bytes are identified with the put that wrote them.                *)
(***************************************************************************)
EXTENDS Integers, FiniteSets

CONSTANTS
    StoreCallers,   \* threads that use the store
    StoreKeys,      \* object keys
    FreshKeys,      \* TRUE: a put takes a key never used before, as new_key() gives
    Chunks,         \* chunks of every stream
    DELETE_BATCH,   \* keys in one request of the bucket's delete_many
    MaxCalls,       \* bound: calls
    MaxTicks        \* bound: ticks of the clock that stamps objects

ASSUME ObjectStoreAssumption ==
    /\ Chunks \in Nat \ {0} /\ DELETE_BATCH \in Nat \ {0} /\ FreshKeys \in BOOLEAN
    /\ MaxCalls \in Nat /\ MaxTicks \in Nat

VARIABLES
    backend,    \* OBJECT_BACKEND: "local" or "s3"
    medium,     \* medium[k]: [put, n, at], the put, the chunks of it and its time; or NoObject
    litter,     \* temporary files nobody will remove
    calls,      \* calls[c]: the call under way
    memo,       \* the digests remembered: [stamp, digest] pairs
    used,       \* keys some put has named
    made, ticks

storeVars == <<backend, medium, litter, calls, memo, used, made, ticks>>

NoObject == [put |-> 0, n |-> 0, at |-> 0]
Free == [pc |-> "idle", key |-> "", put |-> 0, n |-> 0, todo |-> {}, handle |-> NoObject, answer |-> "", digest |-> 0]

StoreInit ==
    /\ backend \in {"local", "s3"} /\ medium = [k \in StoreKeys |-> NoObject] /\ litter = 0
    /\ calls = [c \in StoreCallers |-> Free] /\ memo = {} /\ used = {} /\ made = 0 /\ ticks = 0

In(c, pc) == calls[c].pc = pc
Turns(c, new) == calls' = [calls EXCEPT ![c] = new]
Answers(c, what) == Turns(c, [calls[c] EXCEPT !.pc = "idle", !.answer = what, !.handle = NoObject])
Begins(c, new) == In(c, "idle") /\ made < MaxCalls /\ made' = made + 1 /\ Turns(c, new)

ClockTicks == ticks < MaxTicks /\ ticks' = ticks + 1 /\ UNCHANGED <<backend, medium, litter, calls, memo, used, made>>

-----------------------------------------------------------------------------
(* put                                                                     *)

store_put(c, k) ==
    /\ FreshKeys => k \notin used
    /\ Begins(c, [Free EXCEPT !.pc = "stream", !.key = k, !.put = made + 1]) /\ used' = used \cup {k}
    /\ UNCHANGED <<backend, medium, litter, memo, ticks>>

atomic_write_stream_in_place(c) ==
    /\ In(c, "stream") /\ calls[c].n < Chunks /\ Turns(c, [calls[c] EXCEPT !.n = @ + 1])
    /\ medium' = [medium EXCEPT ![calls[c].key] = [put |-> calls[c].put, n |-> calls[c].n + 1, at |-> ticks]]
    /\ UNCHANGED <<backend, litter, memo, used, made, ticks>>

\* A chunk goes to the temporary file, or to the spool.
atomic_write_stream(c) ==
    /\ In(c, "stream") /\ calls[c].n < Chunks /\ Turns(c, [calls[c] EXCEPT !.n = @ + 1])
    /\ UNCHANGED <<backend, medium, litter, memo, used, made, ticks>>

\* The client goes away: the stream raises, and the temporary file is removed.
StreamEnds(c) ==
    /\ In(c, "stream") /\ Answers(c, "failed") /\ UNCHANGED <<backend, medium, litter, memo, used, made, ticks>>

Whole(c) == [put |-> calls[c].put, n |-> calls[c].n, at |-> ticks]

\* os.replace: done, or refused and nothing changed.
replace(c) ==
    /\ backend = "local" /\ In(c, "stream") /\ calls[c].n = Chunks
    /\ \/ medium' = [medium EXCEPT ![calls[c].key] = Whole(c)] /\ Answers(c, "stored")
       \/ UNCHANGED medium /\ Answers(c, "failed")
    /\ UNCHANGED <<backend, litter, memo, used, made, ticks>>

\* put_object: done, or an error, which may have come after the bucket stored it.
put_object(c) ==
    /\ backend = "s3" /\ In(c, "stream") /\ calls[c].n = Chunks
    /\ \/ medium' = [medium EXCEPT ![calls[c].key] = Whole(c)] /\ Answers(c, "stored")
       \/ medium' \in {medium, [medium EXCEPT ![calls[c].key] = Whole(c)]} /\ Answers(c, "failed")
    /\ UNCHANGED <<backend, litter, memo, used, made, ticks>>

\* The process dies with all its threads, and its memo; a temporary file stays in
\* the directory.
Dies ==
    /\ calls' = [c \in StoreCallers |-> Free] /\ memo' = {} /\ \E c \in StoreCallers : calls[c].pc # "idle"
    /\ litter' = litter + (IF backend = "local" THEN Cardinality({c \in StoreCallers : In(c, "stream")}) ELSE 0)
    /\ UNCHANGED <<backend, medium, used, made, ticks>>

-----------------------------------------------------------------------------
(* open and the reads that follow                                          *)

\* A handle on a file outlives the file's name; a bucket's body is one version.
open(c, k) ==
    /\ IF medium[k] = NoObject THEN Begins(c, [Free EXCEPT !.answer = "missing"])
       ELSE Begins(c, [Free EXCEPT !.pc = "read", !.key = k, !.handle = medium[k]])
    /\ UNCHANGED <<backend, medium, litter, memo, used, ticks>>

read(c) ==
    /\ In(c, "read")
    /\ \/ calls[c].n < calls[c].handle.n /\ Turns(c, [calls[c] EXCEPT !.n = @ + 1])
       \/ calls[c].n = calls[c].handle.n /\ Answers(c, "read")
    /\ UNCHANGED <<backend, medium, litter, memo, used, made, ticks>>

\* A bucket's body breaks off: the reader sees the error.
Breaks(c) ==
    /\ backend = "s3" /\ In(c, "read") /\ Answers(c, "failed")
    /\ UNCHANGED <<backend, medium, litter, memo, used, made, ticks>>

-----------------------------------------------------------------------------
(* stat, and the digest memoised on what it said                           *)

_stamp_without_key(k, o) == <<"", o.at, o.n>>

\* (namespace, key, modified, size)
_stamp(k, o) == <<k, o.at, o.n>>

\* What the memo holds for a stamp.
sha256_of(stamp) == {m \in memo : m.stamp = stamp}

\* stat finds the object; etag_of would be made of the same two figures.
stat(c, k) ==
    /\ IF medium[k] = NoObject THEN Begins(c, [Free EXCEPT !.answer = "missing"])
       ELSE Begins(c, [Free EXCEPT !.pc = "digest", !.key = k, !.handle = medium[k]])
    /\ UNCHANGED <<backend, medium, litter, memo, used, ticks>>

\* A digest is remembered for its stamp; else the object is opened anew and hashed.
digest_of(c) ==
    /\ In(c, "digest")
    /\ LET k == calls[c].key
           stamp == _stamp(k, calls[c].handle)
           known == sha256_of(stamp)
           gives(d) == Turns(c, [calls[c] EXCEPT !.pc = "idle", !.answer = "digest", !.digest = d, !.handle = NoObject])
       IN  \/ medium[k] = NoObject /\ Answers(c, "missing") /\ UNCHANGED memo
           \/ medium[k] # NoObject /\ known # {} /\ (\E m \in known : gives(m.digest)) /\ UNCHANGED memo
           \/ /\ medium[k] # NoObject /\ known = {} /\ gives(medium[k].put)
              /\ memo' = memo \cup {[stamp |-> stamp, digest |-> medium[k].put]}
    /\ UNCHANGED <<backend, medium, litter, used, made, ticks>>

-----------------------------------------------------------------------------
(* delete and delete_many                                                  *)

Lacking(ks) == [k \in StoreKeys |-> IF k \in ks THEN NoObject ELSE medium[k]]

\* A missing key is no error.  A request to the bucket may fail having taken effect.
delete(c, k) ==
    /\ \/ medium' = Lacking({k}) /\ Begins(c, [Free EXCEPT !.answer = "deleted"])
       \/ /\ medium' \in {medium} \cup {Lacking({k}) : b \in {backend} \cap {"s3"}}
          /\ Begins(c, [Free EXCEPT !.answer = "failed"])
    /\ UNCHANGED <<backend, litter, memo, used, ticks>>

delete_many(c, ks) ==
    /\ Begins(c, [Free EXCEPT !.pc = "purge", !.todo = ks]) /\ UNCHANGED <<backend, medium, litter, memo, used, ticks>>

Purged(c, ks) ==
    IF calls[c].todo = ks THEN Turns(c, [Free EXCEPT !.answer = "deleted"])
    ELSE Turns(c, [calls[c] EXCEPT !.todo = @ \ ks])

\* The directory: one key after another, and the first error is raised.
unlink(c) ==
    /\ backend = "local" /\ In(c, "purge")
    /\ \E k \in calls[c].todo : \/ medium' = Lacking({k}) /\ Purged(c, {k})
                                \/ UNCHANGED medium /\ Turns(c, [Free EXCEPT !.answer = "failed"])
    /\ UNCHANGED <<backend, litter, memo, used, made, ticks>>

\* The bucket: a batch at a time.  With Quiet the answer names only the keys that
\* could not be deleted, and nobody reads it.
delete_objects(c) ==
    /\ backend = "s3" /\ In(c, "purge")
    /\ \E ks \in SUBSET calls[c].todo :
          /\ Cardinality(ks) = (IF Cardinality(calls[c].todo) < DELETE_BATCH THEN Cardinality(calls[c].todo) ELSE DELETE_BATCH)
          /\ \/ \E done \in SUBSET ks : medium' = Lacking(done) /\ Purged(c, ks)
             \/ UNCHANGED medium /\ Turns(c, [Free EXCEPT !.answer = "failed"])
    /\ UNCHANGED <<backend, litter, memo, used, made, ticks>>

-----------------------------------------------------------------------------
StoreNext ==
    \/ ClockTicks \/ Dies
    \/ \E c \in StoreCallers :
          \/ atomic_write_stream(c) \/ StreamEnds(c) \/ replace(c) \/ put_object(c) \/ read(c) \/ Breaks(c)
          \/ digest_of(c) \/ unlink(c) \/ delete_objects(c)
          \/ \E k \in StoreKeys : store_put(c, k) \/ open(c, k) \/ stat(c, k) \/ delete(c, k)
          \/ \E ks \in SUBSET StoreKeys \ {{}} : delete_many(c, ks)

StoreSpec == StoreInit /\ [][StoreNext]_storeVars

-----------------------------------------------------------------------------
(* Properties.                                                             *)

\* What a reader has open.
openedBar == [c \in StoreCallers |-> IF In(c, "read") THEN calls[c].handle ELSE NoObject]

\* Both media implement the port: whatever breaks off, fails or dies, a key holds
\* the whole of one put or nothing, and a reader has one put's object open.
Port == INSTANCE Objects
    WITH Keys <- StoreKeys, Readers <- StoreCallers, Nothing <- NoObject,
         Values <- [put : 1 .. MaxCalls, n : {Chunks}, at : 0 .. MaxTicks],
         objects <- medium, opened <- openedBar
ImplementsObjects == Port!Spec

\* While keys are never used twice, a digest given is that of the object under the
\* key, and so is every digest remembered.
DigestOfObject == FreshKeys =>
    \A c \in StoreCallers : calls[c].answer = "digest" /\ medium[calls[c].key] # NoObject =>
        calls[c].digest = medium[calls[c].key].put

\* "Remove every key in *keys*" (services/objectstore.py:157): a delete_many that
\* answered without an error left none of them.
DeletedAreGone == [][\A c \in StoreCallers :
    In(c, "purge") /\ calls'[c].answer = "deleted" => \A k \in calls[c].todo : medium'[k] = NoObject]_storeVars
=============================================================================
