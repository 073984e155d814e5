------------------------------- MODULE Mirror -------------------------------
(***************************************************************************)
(* The disk cache of the pull-through mirrors (backend/services/upstream.py *)
(* DiskCache) and the three that fill one: the registry proxy              *)
(* (docker_registry.py), npm (npm_registry.py) and apt (debian_apt.py).    *)
(*                                                                         *)
(* Requests run concurrently over one directory.  A document (a tag's      *)
(* manifest, a packument, a Packages file) expires; a blob (a layer, a     *)
(* tarball) does not.  The registry keeps the document's content type in a *)
(* second entry, shares blobs between repositories, and keeps the index of *)
(* which repository may answer which blob in the same directory.  Every    *)
(* write is followed by a scan that evicts the oldest entries one by one.  *)
(***************************************************************************)
EXTENDS Integers, FiniteSets, FiniteSetsExt

CONSTANTS
    Clients,        \* requests in progress
    Repos,          \* repository names
    Sha256, Others, \* digests, by whether the proxy can verify them
    BlobOf,         \* BlobOf[v]: the digests that version v of the document lists
    Contains,       \* Contains[r]: the digests the upstream has in repository r
    Owner,          \* the repository of the document
    Size,           \* Size[k]: bytes of entry k
    Budget,         \* max_bytes
    TTL,            \* TAG_TTL
    MaxTime,        \* bound: clock
    MaxVersion,     \* bound: times the tag is moved upstream
    MaxRequests,    \* bound: requests
    MaxMirrorFaults \* bound: unlinks and saves that fail, and deaths

Blobs == Sha256 \cup Others
Keys == {"doc", "meta", "index"} \cup Blobs

ASSUME MirrorAssumption ==
    /\ Budget \in Nat \ {0} /\ TTL \in Nat /\ MaxTime \in Nat /\ MaxVersion \in Nat
    /\ Size \in [Keys -> Nat] /\ Contains \in [Repos -> SUBSET Blobs] /\ Owner \in Repos
    /\ BlobOf \in [0 .. MaxVersion -> SUBSET Contains[Owner]] /\ MaxMirrorFaults \in Nat
    /\ MaxRequests \in Nat /\ Sha256 \cap Others = {} /\ {"doc", "meta", "index"} \cap Blobs = {}

VARIABLES
    mirror,     \* whose directory this is: "docker", "npm" or "apt"
    disk,       \* a function on the entries present: [is, at], contents and mtime
    links,      \* <<repository, digest>> in repositories.json, when it is on disk
    upstream,   \* moved[v]: the time at which version v of the tag appeared
    clock,
    client,     \* client[c]: [pc, repo, key, version, plan, over, then]
    asked,      \* requests so far
    hurt        \* faults so far

mirrorVars == <<mirror, disk, links, upstream, clock, client, asked, hurt>>

AtRest == [pc |-> "idle", repo |-> Owner, key |-> "doc", version |-> 0, plan |-> {}, over |-> 0, then |-> "idle"]

MirrorInit ==
    /\ mirror \in {"docker", "npm", "apt"}
    /\ disk = [k \in {} |-> [is |-> 0, at |-> 0]] /\ links = {}
    /\ upstream = [v \in {0} |-> 0] /\ clock = 0 /\ asked = 0 /\ hurt = 0
    /\ client = [c \in Clients |-> AtRest]

On(c, pc) == client[c].pc = pc
To(c, pc) == client' = [client EXCEPT ![c].pc = pc]
Ends(c) == client' = [client EXCEPT ![c] = AtRest]
Goes(c) == IF client[c].then = "idle" THEN AtRest ELSE [client[c] EXCEPT !.pc = client[c].then, !.over = 0, !.plan = {}]
Here(k) == k \in DOMAIN disk
With(k, is) == [x \in DOMAIN disk \cup {k} |-> IF x = k THEN [is |-> is, at |-> clock] ELSE disk[x]]
Without(k) == [x \in DOMAIN disk \ {k} |-> disk[x]]
Hurts == hurt < MaxMirrorFaults /\ hurt' = hurt + 1
Latest == Max(DOMAIN upstream)

-----------------------------------------------------------------------------
(* DiskCache.                                                              *)

\* A hit is an entry no older than max_age, and a hit touches it.
get(k, age) == Here(k) /\ clock - disk[k].at <= age
Touched(k) == [disk EXCEPT ![k].at = clock]

put_stream_unbounded(c, k, is, then) ==
    disk' = With(k, is) /\ client' = [client EXCEPT ![c] = IF then = "idle" THEN AtRest ELSE [@ EXCEPT !.pc = then]]

\* os.replace of a finished temporary file, then the budget.
put_stream(c, k, is, then) ==
    /\ disk' = With(k, is)
    /\ client' = [client EXCEPT ![c].pc = "scan", ![c].then = then]

\* The scan: every entry there is, the index among them, with its mtime and size.
Bytes(keys) == UNION {{k} \X (1 .. Size[k]) : k \in keys}
Total == Cardinality(Bytes(DOMAIN disk))
enforce_limit_strict(c) ==
    /\ On(c, "scan")
    /\ client' = IF Total < Budget THEN [client EXCEPT ![c] = Goes(c)]
                 ELSE [client EXCEPT ![c].pc = "evict", ![c].over = Total - Budget,
                                     ![c].plan = {<<disk[k].at, k>> : k \in DOMAIN disk}]
    /\ UNCHANGED <<disk, links, upstream, clock, asked, hurt>>

enforce_limit(c) ==
    /\ On(c, "scan")
    /\ client' = IF Total <= Budget THEN [client EXCEPT ![c] = Goes(c)]
                 ELSE [client EXCEPT ![c].pc = "evict", ![c].over = Total - Budget,
                                     ![c].plan = {<<disk[k].at, k>> : k \in DOMAIN disk}]
    /\ UNCHANGED <<disk, links, upstream, clock, asked, hurt>>

\* Oldest first, one unlink at a time; one that fails is not counted.
evict(c) ==
    /\ On(c, "evict")
    /\ \E e \in client[c].plan :
         /\ \A o \in client[c].plan : e[1] <= o[1]
         /\ \E gone \in BOOLEAN :
              /\ gone => Here(e[2])
              /\ ~gone => IF Here(e[2]) THEN Hurts ELSE UNCHANGED hurt
              /\ gone => UNCHANGED hurt
              /\ disk' = IF gone THEN Without(e[2]) ELSE disk
              /\ links' = IF gone /\ e[2] = "index" THEN {} ELSE links
              /\ LET over == client[c].over - (IF gone THEN Size[e[2]] ELSE 0)
                     plan == client[c].plan \ {e} IN
                 client' = [client EXCEPT ![c] = IF over <= 0 \/ plan = {} THEN Goes(c)
                                                 ELSE [@ EXCEPT !.over = over, !.plan = plan]]
    /\ UNCHANGED <<upstream, clock, asked>>

-----------------------------------------------------------------------------
(* _RepositoryIndex: read, add, replace, under one lock; a failing save is *)
(* logged.                                                                 *)

_save(new) ==
    \/ links' = links \cup new /\ disk' = With("index", 0) /\ UNCHANGED hurt
    \/ Hurts /\ UNCHANGED <<links, disk>>
record_blob(r, d) ==
    IF <<r, d>> \in links THEN UNCHANGED <<links, disk, hurt>> ELSE _save({<<r, d>>})
has_blob_any(r, d) == \E o \in Repos : <<o, d>> \in links

has_blob(r, d) == <<r, d>> \in links

-----------------------------------------------------------------------------
(* Documents: get_manifest of a tag, packument, dists_response.            *)

Lookup(c) ==
    /\ On(c, "idle") /\ asked < MaxRequests /\ asked' = asked + 1
    /\ IF get("doc", TTL)
       THEN disk' = Touched("doc") /\ To(c, "read")
       ELSE UNCHANGED disk /\ To(c, "ask")
    /\ UNCHANGED <<links, upstream, clock, hurt>>
get_manifest(c) == mirror = "docker" /\ Lookup(c)
_upstream_packument(c) == mirror = "npm" /\ Lookup(c)
dists_response(c) == mirror = "apt" /\ Lookup(c)

\* The entry may have been evicted or replaced since; only the registry goes on
\* to the type.
read_bytes(c) ==
    /\ On(c, "read")
    /\ client' = IF ~Here("doc") THEN [client EXCEPT ![c].pc = "ask"]
                 ELSE [client EXCEPT ![c].pc = "meta", ![c].version = disk["doc"].is]
    /\ UNCHANGED <<disk, links, upstream, clock, asked, hurt>>

answer(c) ==
    /\ On(c, "meta") /\ mirror # "docker" /\ Ends(c)
    /\ UNCHANGED <<disk, links, upstream, clock, asked, hurt>>

\* Without its entry the type is inferred from the body.
_read_meta(c) ==
    /\ On(c, "meta") /\ mirror = "docker"
    /\ disk' = IF Here("meta") THEN Touched("meta") ELSE disk
    /\ Ends(c)
    /\ UNCHANGED <<links, upstream, clock, asked, hurt>>

\* The upstream answers with the version the tag names now, or not at all.
_get_document(c) ==
    /\ On(c, "ask")
    /\ \/ client' = [client EXCEPT ![c].pc = "put", ![c].version = Latest]
       \/ Ends(c)
    /\ UNCHANGED <<disk, links, upstream, clock, asked, hurt>>

\* apt reads its answer back from the entry, which may be gone already.
After == [docker |-> "put_meta", npm |-> "idle", apt |-> "again"]
put_doc(c) ==
    /\ On(c, "put") /\ put_stream(c, "doc", client[c].version, After[mirror])
    /\ UNCHANGED <<links, upstream, clock, asked, hurt>>

_fetch_metadata(c) ==
    /\ On(c, "again") /\ Ends(c)
    /\ UNCHANGED <<disk, links, upstream, clock, asked, hurt>>

_write_meta(c) ==
    /\ On(c, "put_meta") /\ put_stream(c, "meta", client[c].version, "link")
    /\ UNCHANGED <<links, upstream, clock, asked, hurt>>

record_manifest(c) ==
    /\ On(c, "link") /\ _save({<<Owner, d>> : d \in BlobOf[client[c].version]})
    /\ Ends(c)
    /\ UNCHANGED <<upstream, clock, asked>>

-----------------------------------------------------------------------------
(* Blobs: open_blob, upstream_tarball.                                     *)

open_blob(c) ==
    /\ mirror = "docker" /\ On(c, "idle") /\ asked < MaxRequests /\ asked' = asked + 1
    /\ \E r \in Repos, d \in Blobs :
         /\ disk' = IF Here(d) THEN Touched(d) ELSE disk
         /\ client' = [client EXCEPT ![c] = [@ EXCEPT !.repo = r, !.key = d,
                                             !.pc = IF Here(d) THEN "linked" ELSE "fetch"]]
    /\ UNCHANGED <<links, upstream, clock, hurt>>

\* A blob another repository brought in is asked of the upstream again.
open_blob_linked(c) ==
    /\ On(c, "linked")
    /\ To(c, IF has_blob(client[c].repo, client[c].key) THEN "open" ELSE "fetch")
    /\ UNCHANGED <<disk, links, upstream, clock, asked, hurt>>

\* A hit is the path of the entry; so is a miss, once it is stored.
upstream_tarball(c) ==
    /\ mirror = "npm" /\ On(c, "idle") /\ asked < MaxRequests /\ asked' = asked + 1
    /\ \E d \in Blobs :
         /\ disk' = IF Here(d) THEN Touched(d) ELSE disk
         /\ client' = [client EXCEPT ![c] = [@ EXCEPT !.key = d, !.pc = IF Here(d) THEN "open" ELSE "tarball"]]
    /\ UNCHANGED <<links, upstream, clock, hurt>>

put_response(c) ==
    /\ On(c, "tarball")
    /\ \/ put_stream(c, client[c].key, 1, "open")
       \/ Ends(c) /\ UNCHANGED disk
    /\ UNCHANGED <<links, upstream, clock, asked, hurt>>

\* The entry may have been evicted since: 404 "cached blob disappeared".
_cached_blob_response(c) ==
    /\ On(c, "open") /\ Ends(c)
    /\ UNCHANGED <<disk, links, upstream, clock, asked, hurt>>

Accepted_unverified(d, bytes) == bytes # "short"

\* The bytes are good, or are not those of the digest, or stop (the upstream or
\* the client goes away); only a verified digest tells the second apart.
Accepted(d, bytes) == bytes = "good" \/ (bytes = "bad" /\ d \in Others)

_stream_and_cache(c) ==
    /\ On(c, "fetch")
    /\ LET d == client[c].key IN
       \/ /\ d \in Contains[client[c].repo]
          /\ \E bytes \in {"good", "bad", "short"} :
               IF Accepted(d, bytes)
               THEN disk' = With(d, IF bytes = "good" THEN 1 ELSE 0) /\ To(c, "record")
               ELSE UNCHANGED disk /\ Ends(c)
       \/ Ends(c) /\ UNCHANGED disk
    /\ UNCHANGED <<links, upstream, clock, asked, hurt>>

_stream_records(c) ==
    /\ On(c, "record") /\ record_blob(client[c].repo, client[c].key)
    /\ client' = [client EXCEPT ![c].pc = "scan", ![c].then = "idle"]
    /\ UNCHANGED <<upstream, clock, asked>>

-----------------------------------------------------------------------------
(* The world.                                                              *)

TagMoves ==
    /\ Latest < MaxVersion
    /\ upstream' = [v \in DOMAIN upstream \cup {Latest + 1} |-> IF v = Latest + 1 THEN clock ELSE upstream[v]]
    /\ UNCHANGED <<disk, links, clock, client, asked, hurt>>

Tick ==
    /\ clock < MaxTime /\ clock' = clock + 1
    /\ UNCHANGED <<disk, links, upstream, client, asked, hurt>>

WorkerDies(c) ==
    /\ ~On(c, "idle") /\ Hurts /\ Ends(c)
    /\ UNCHANGED <<disk, links, upstream, clock, asked>>

MirrorNext ==
  /\ UNCHANGED mirror
  /\ \/ \E c \in Clients :
         \/ enforce_limit(c) \/ evict(c)
         \/ get_manifest(c) \/ _upstream_packument(c) \/ dists_response(c) \/ read_bytes(c)
         \/ answer(c) \/ _read_meta(c) \/ _get_document(c) \/ put_doc(c) \/ _fetch_metadata(c)
         \/ _write_meta(c) \/ record_manifest(c) \/ upstream_tarball(c) \/ put_response(c)
         \/ open_blob(c) \/ open_blob_linked(c) \/ _cached_blob_response(c)
         \/ _stream_and_cache(c) \/ _stream_records(c) \/ WorkerDies(c)
     \/ TagMoves \/ Tick

MirrorSpec == MirrorInit /\ [][MirrorNext]_mirrorVars

-----------------------------------------------------------------------------
(* Properties.                                                             *)

MirrorTypeOK ==
    /\ DOMAIN disk \subseteq Keys /\ clock \in 0 .. MaxTime /\ hurt \in 0 .. MaxMirrorFaults
    /\ \A k \in DOMAIN disk : disk[k].at \in 0 .. clock
    /\ \A c \in Clients : client[c].key \in Blobs \cup {"doc"} /\ (client[c].pc = "evict") = (client[c].over > 0)

\* "An aborted download leaves the cache unchanged": an entry whose digest can
\* be verified holds exactly the bytes of that digest, whatever is streamed,
\* evicted and written around it (_stream_and_cache).
BlobsWhole == \A d \in Sha256 : Here(d) => disk[d].is = 1

\* "GET /v2/<name>/blobs/<digest> may only answer a blob that repository
\* legitimately contains": no shared entry is served to a repository the
\* upstream does not know it in, and the index never says otherwise (open_blob).
LinkedToRepo ==
    /\ \A l \in links : l[2] \in Contains[l[1]]
    /\ \A c \in Clients : mirror = "docker" /\ On(c, "open") => client[c].key \in Contains[client[c].repo]

\* Whatever evictions and writes interleave, when every request has ended the
\* directory holds no more than the budget and the index the last one wrote
\* (enforce_limit after every write), unless a worker died or an unlink failed.
BudgetKept ==
    (hurt = 0 /\ \A c \in Clients : On(c, "idle")) => Total <= Budget + Size["index"]

\* What the container mirror serves from its cache is a whole layer that a
\* manifest of the repository it was asked through has listed, and the cache
\* that evicts under its readers is within its budget when they are done.
MirrorTrue == MirrorTypeOK /\ BlobsWhole /\ LinkedToRepo /\ BudgetKept

\* The tag's ttl: a document from the cache is no older than TAG_TTL, that is,
\* no later version had appeared that long before.
ServedFresh ==
    \A c \in Clients : On(c, "meta") =>
        \A v \in DOMAIN upstream : v > client[c].version => clock - upstream[v] <= TTL
=============================================================================
