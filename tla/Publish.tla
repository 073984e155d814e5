------------------------------ MODULE Publish -------------------------------
(***************************************************************************)
(* Publishing into the package trees: the twine upload, the digest cache   *)
(* and the watched index of one distribution file (routes/pypi.py,         *)
(* services/digest.py, index/base.py, index/packages.py), and npm publish  *)
(* with the index it invalidates (services/npm_publish.py,                 *)
(* services/npm_registry.py).  All of it is threads over plain files.      *)
(*                                                                         *)
(* The bytes of an upload are its number, and so is their digest.          *)
(***************************************************************************)
EXTENDS Integers, FiniteSets, Sequences

CONSTANTS
    Uploaders,      \* concurrent uploads of one filename
    OnDuplicate,    \* "conflict", "skip" or "overwrite"
    Publishers,     \* concurrent npm publishes of one package, each of its version and tag
    Listers,        \* threads that answer packument requests
    MaxUploads,     \* bound: uploads, and removals of the file by its owner
    MaxListings     \* bound: packument requests

ASSUME PublishAssumption ==
    OnDuplicate \in {"conflict", "skip", "overwrite"} /\ MaxUploads \in Nat /\ MaxListings \in Nat

None == 0

VARIABLES
    file,       \* [bytes, stamp]: the distribution; a stamp is its mtime and size
    cache,      \* the in-memory digest cache: the set of [stamp, digest]
    sidecar,    \* the .sha256 file: [stamp, digest]
    entry,      \* the index's PackageFile: [gen, listed, digest]
    events,     \* what the watcher has not handled: "moved" and "deleted"
    watcher,    \* "idle", or the event whose digests it has just forgotten
    reader,     \* a project page that needs a digest: [pc, gen, stamp, digest]
    upload,     \* upload[u]: [pc, bytes, stamp]
    uploads,    \* uploads and removals so far
    tree,       \* the npm directory: [versions, tags, stamp]
    publisher,  \* publisher[p]: [pc, tags], the tags it read under the lock
    lister,     \* lister[t]: [pc, stamp, versions, index]
    index,      \* NpmRegistry._index and _index_key: [is, key]
    listings

pypiVars == <<file, cache, sidecar, entry, events, watcher, reader, upload, uploads>>
npmVars == <<tree, publisher, lister, index, listings>>
publishVars == <<pypiVars>>

NoFile == [bytes |-> None, stamp |-> None]
NoDigest == [stamp |-> None, digest |-> None]
NoUpload == [pc |-> "idle", bytes |-> None, stamp |-> None]
NoReader == [pc |-> "idle", gen |-> 0, stamp |-> None, digest |-> None]
Unread == [versions |-> {}, tags |-> {}]

PublishInit ==
    /\ file = NoFile /\ cache = {} /\ sidecar = NoDigest /\ uploads = 0 /\ events = <<>>
    /\ entry = [gen |-> 0, listed |-> FALSE, digest |-> None]
    /\ watcher = "idle" /\ reader = NoReader /\ upload = [u \in Uploaders |-> NoUpload]
    /\ tree = [versions |-> {}, tags |-> {}, stamp |-> 1]
    /\ publisher = [p \in Publishers |-> [pc |-> "idle", tags |-> {}]]
    /\ lister = [t \in Listers |-> [pc |-> "idle", stamp |-> 0, index |-> Unread]]
    /\ index = [is |-> Unread, key |-> 0] /\ listings = 0

-----------------------------------------------------------------------------
(* services/digest.py                                                      *)

Remembered(stamp) == {d \in cache : d.stamp = stamp}
_remember(stamp, digest) ==
    cache' = (cache \ Remembered(stamp)) \cup {[stamp |-> stamp, digest |-> digest]}
_write_sidecar(stamp, digest) == sidecar' = [stamp |-> stamp, digest |-> digest]
invalidate_digest_cache == cache' = {} /\ sidecar' = NoDigest

-----------------------------------------------------------------------------
(* routes/pypi.py upload.                                                  *)

Duplicate == file # NoFile /\ OnDuplicate # "overwrite"
Number == 1 + uploads      \* of the bytes of the next upload

upload_starts(u) ==
    /\ upload[u].pc = "idle" /\ uploads < MaxUploads /\ ~Duplicate
    /\ uploads' = uploads + 1
    /\ upload' = [upload EXCEPT ![u] = [pc |-> "streamed", bytes |-> Number, stamp |-> None]]
    /\ UNCHANGED <<file, cache, sidecar, entry, events, watcher, reader>>

\* The decision is taken again on the final path.
upload_checks(u) ==
    /\ upload[u].pc = "streamed"
    /\ upload' = [upload EXCEPT ![u] = IF Duplicate THEN NoUpload ELSE [@ EXCEPT !.pc = "rename"]]
    /\ UNCHANGED <<file, cache, sidecar, entry, events, watcher, reader, uploads>>

upload_renames(u) ==
    /\ upload[u].pc = "rename"
    /\ file' = [bytes |-> upload[u].bytes, stamp |-> upload[u].bytes]
    /\ events' = Append(events, "moved")
    /\ upload' = [upload EXCEPT ![u].pc = "stat"]
    /\ UNCHANGED <<cache, sidecar, entry, watcher, reader, uploads>>

\* store_digest stats the path, whoever's file it is by now.
store_digest_stat(u) ==
    /\ upload[u].pc = "stat"
    /\ upload' = [upload EXCEPT ![u] = IF file = NoFile THEN NoUpload
                                       ELSE [@ EXCEPT !.pc = "store", !.stamp = file.stamp]]
    /\ UNCHANGED <<file, cache, sidecar, entry, events, watcher, reader, uploads>>

store_digest(u) ==
    /\ upload[u].pc = "store"
    /\ _remember(upload[u].stamp, upload[u].bytes) /\ _write_sidecar(upload[u].stamp, upload[u].bytes)
    /\ upload' = [upload EXCEPT ![u] = NoUpload]
    /\ UNCHANGED <<file, entry, events, watcher, reader, uploads>>

\* The owner of the directory removes the file.
FileRemoved ==
    /\ file # NoFile /\ uploads < MaxUploads /\ uploads' = uploads + 1
    /\ file' = NoFile /\ events' = Append(events, "deleted")
    /\ UNCHANGED <<cache, sidecar, entry, watcher, reader, upload>>

-----------------------------------------------------------------------------
(* index/base.py and index/packages.py: the watcher's thread.              *)

watch_forget ==
    /\ watcher = "idle" /\ events # <<>> /\ events' = Tail(events)
    /\ IF Head(events) = "moved" /\ file = NoFile
       THEN UNCHANGED <<watcher, cache, sidecar>>
       ELSE watcher' = Head(events) /\ invalidate_digest_cache
    /\ UNCHANGED <<file, entry, reader, upload, uploads>>

_add_or_update ==
    /\ watcher = "moved" /\ watcher' = "idle"
    /\ entry' = [gen |-> entry.gen + 1, listed |-> TRUE, digest |-> None]
    /\ UNCHANGED <<file, cache, sidecar, events, reader, upload, uploads>>

_remove ==
    /\ watcher = "deleted" /\ watcher' = "idle"
    /\ entry' = [entry EXCEPT !.listed = FALSE, !.digest = None]
    /\ UNCHANGED <<file, cache, sidecar, events, reader, upload, uploads>>

\* A restart: no memory, a full scan, and only the sidecar survives.
_full_scan ==
    /\ cache' = {} /\ events' = <<>> /\ watcher' = "idle" /\ reader' = NoReader
    /\ entry' = [gen |-> entry.gen + 1, listed |-> file # NoFile, digest |-> None]
    /\ upload' = [u \in Uploaders |-> NoUpload] /\ uploads < MaxUploads /\ uploads' = uploads + 1
    /\ UNCHANGED <<file, sidecar>>

-----------------------------------------------------------------------------
(* A page that lists the file: get_sha256 and sha256_or_none.              *)

get_sha256 ==
    /\ reader.pc = "idle" /\ entry.listed /\ entry.digest = None /\ file # NoFile
    /\ reader' = [pc |-> "look", gen |-> entry.gen, stamp |-> file.stamp, digest |-> None]
    /\ UNCHANGED <<file, cache, sidecar, entry, events, watcher, upload, uploads>>

\* The memory, the sidecar of this very stamp, or the bytes.
sha256_or_none ==
    /\ reader.pc = "look"
    /\ IF Remembered(reader.stamp) # {}
       THEN /\ reader' = [reader EXCEPT !.pc = "keep", !.digest = (CHOOSE d \in cache : d.stamp = reader.stamp).digest]
            /\ UNCHANGED cache
       ELSE IF sidecar.stamp = reader.stamp
       THEN /\ reader' = [reader EXCEPT !.pc = "keep", !.digest = sidecar.digest]
            /\ _remember(reader.stamp, sidecar.digest)
       ELSE /\ reader' = IF file = NoFile THEN NoReader
                         ELSE [reader EXCEPT !.pc = "save", !.digest = file.bytes]
            /\ UNCHANGED cache
    /\ UNCHANGED <<file, sidecar, entry, events, watcher, upload, uploads>>

sha256_saved ==
    /\ reader.pc = "save"
    /\ _remember(reader.stamp, reader.digest) /\ _write_sidecar(reader.stamp, reader.digest)
    /\ reader' = [reader EXCEPT !.pc = "keep"]
    /\ UNCHANGED <<file, entry, events, watcher, upload, uploads>>

get_sha256_kept_by_name ==
    /\ reader.pc = "keep" /\ reader' = NoReader
    /\ entry' = IF entry.listed THEN [entry EXCEPT !.digest = reader.digest] ELSE entry
    /\ UNCHANGED <<file, cache, sidecar, events, watcher, upload, uploads>>

\* Kept on the object the page holds, which the watcher may have replaced.
get_sha256_kept ==
    /\ reader.pc = "keep" /\ reader' = NoReader
    /\ entry' = IF entry.gen = reader.gen /\ entry.listed THEN [entry EXCEPT !.digest = reader.digest] ELSE entry
    /\ UNCHANGED <<file, cache, sidecar, events, watcher, upload, uploads>>

-----------------------------------------------------------------------------
(* services/npm_publish.py: the tarball, then the tags under _publish_lock. *)

Reading(p) == publisher[p].pc = "merge"

_store_attachment(p) ==
    /\ publisher[p].pc = "idle" /\ p \notin tree.versions
    /\ tree' = [tree EXCEPT !.versions = @ \cup {p}, !.stamp = @ + 1]
    /\ publisher' = [publisher EXCEPT ![p].pc = "record"]
    /\ UNCHANGED <<lister, index, listings>>

_record_metadata_unlocked(p) ==
    /\ publisher[p].pc = "record"
    /\ publisher' = [publisher EXCEPT ![p] = [pc |-> "merge", tags |-> tree.tags]]
    /\ UNCHANGED <<tree, lister, index, listings>>

_record_metadata(p) ==
    /\ publisher[p].pc = "record" /\ \A q \in Publishers : ~Reading(q)
    /\ publisher' = [publisher EXCEPT ![p] = [pc |-> "merge", tags |-> tree.tags]]
    /\ UNCHANGED <<tree, lister, index, listings>>

_record_metadata_write(p) ==
    /\ publisher[p].pc = "merge"
    /\ tree' = [tree EXCEPT !.tags = publisher[p].tags \cup {p}, !.stamp = @ + 1]
    /\ publisher' = [publisher EXCEPT ![p] = [pc |-> "done", tags |-> {}]]
    /\ UNCHANGED <<lister, index, listings>>

-----------------------------------------------------------------------------
(* services/npm_registry.py local_index, by any number of threads.         *)

_signature(t) ==
    /\ lister[t].pc = "idle" /\ listings < MaxListings /\ listings' = listings + 1
    /\ lister' = IF index.key = tree.stamp THEN lister
                 ELSE [lister EXCEPT ![t].pc = "scan", ![t].stamp = tree.stamp]
    /\ UNCHANGED <<tree, publisher, index>>

local_index(t) ==
    /\ lister[t].pc = "scan"
    /\ lister' = [lister EXCEPT ![t].pc = "tags", ![t].index.versions = tree.versions]
    /\ UNCHANGED <<tree, publisher, index, listings>>

_load_publish_index(t) ==
    /\ lister[t].pc = "tags"
    /\ lister' = [lister EXCEPT ![t].pc = "set", ![t].index.tags = tree.tags]
    /\ UNCHANGED <<tree, publisher, index, listings>>

\* Two assignments, two steps.
local_index_set(t) ==
    /\ lister[t].pc = "set"
    /\ index' = [index EXCEPT !.is = lister[t].index]
    /\ lister' = [lister EXCEPT ![t].pc = "key"]
    /\ UNCHANGED <<tree, publisher, listings>>

local_index_key_after(t) ==
    /\ lister[t].pc = "key"
    /\ index' = [index EXCEPT !.key = tree.stamp]
    /\ lister' = [lister EXCEPT ![t] = [pc |-> "idle", stamp |-> 0, index |-> Unread]]
    /\ UNCHANGED <<tree, publisher, listings>>

local_index_key(t) ==
    /\ lister[t].pc = "key"
    /\ index' = [index EXCEPT !.key = lister[t].stamp]
    /\ lister' = [lister EXCEPT ![t] = [pc |-> "idle", stamp |-> 0, index |-> Unread]]
    /\ UNCHANGED <<tree, publisher, listings>>

PypiNext ==
    \/ \E u \in Uploaders : upload_starts(u) \/ upload_checks(u) \/ upload_renames(u)
                            \/ store_digest_stat(u) \/ store_digest(u)
    \/ FileRemoved \/ watch_forget \/ _add_or_update \/ _remove \/ _full_scan
    \/ get_sha256 \/ sha256_or_none \/ sha256_saved \/ get_sha256_kept

NpmNext ==
    \/ \E p \in Publishers : _store_attachment(p) \/ _record_metadata(p) \/ _record_metadata_write(p)
    \/ \E t \in Listers : _signature(t) \/ local_index(t) \/ _load_publish_index(t)
                          \/ local_index_set(t) \/ local_index_key(t)

-----------------------------------------------------------------------------
(* Properties.                                                             *)

PublishTypeOK ==
    /\ file.bytes \in 0 .. MaxUploads /\ uploads \in 0 .. MaxUploads /\ listings \in 0 .. MaxListings
    /\ \A u \in Uploaders : upload[u].bytes \in 0 .. MaxUploads
    /\ tree.tags \subseteq Publishers /\ index.key <= tree.stamp

\* When uploads, the watcher and the pages have settled, the index lists the file
\* that is there, and every digest it would answer for it, listed, in memory or
\* in the sidecar, is that of its bytes (get_sha256, store_digest, the watcher).
DigestTrue ==
    (events = <<>> /\ watcher = "idle" /\ reader.pc = "idle" /\ \A u \in Uploaders : upload[u].pc = "idle") =>
        /\ entry.listed = (file # NoFile)
        /\ entry.listed => entry.digest \in {None, file.bytes}
        /\ file # NoFile => \A d \in cache \cup {sidecar} : d.stamp = file.stamp => d.digest = file.bytes

\* "The fingerprint makes it once per filesystem change": an index under the key
\* of the tree as it is holds the versions and the tags of that tree (local_index).
IndexFresh ==
    (index.key = tree.stamp /\ \A t \in Listers : lister[t].pc = "idle") =>
        index.is = [versions |-> tree.versions, tags |-> tree.tags]

\* Every publish that ended left its tag, whoever published meanwhile in the
\* same process (_record_metadata under _publish_lock).
TagsMerged == \A p \in Publishers : publisher[p].pc = "done" => p \in tree.versions /\ p \in tree.tags

\* "In the default conflict mode a duplicate keeps the historical answers": a
\* stored file is never replaced by another upload (upload).
NeverReplaced ==
    [][file # NoFile /\ file' # NoFile /\ OnDuplicate # "overwrite" => file' = file]_pypiVars
=============================================================================
