----------------------------- MODULE BuildMirror -----------------------------
(***************************************************************************)
(* The mirrors of prebuilt interpreters: the two in-memory indexes over a  *)
(* directory of releases (backend/index/node_build.py, python_build.py and *)
(* their base), the documents and downloads served from them               *)
(* (backend/routes/node_build.py, python_build.py) and the catalog the     *)
(* console shows (backend/services/build_mirror.py).                       *)
(*                                                                         *)
(* The operator's sync owns the directory.  The index is filled by one     *)
(* scan at start, release by release, and afterwards by the watcher's      *)
(* thread, one event at a time; requests read it under its lock, but a     *)
(* document takes several such reads, and a client needs several documents *)
(* before it has an archive in hand.                                       *)
(***************************************************************************)
EXTENDS Integers, Sequences, FiniteSets

CONSTANTS
    Archives,       \* the files a sync may place: [dir, aside, name, tag, platform, arch, ext, ok]
    Indexes,        \* which of the two indexes: a subset of {"python", "node"}
    Walks,          \* the ways a client looks for an archive
    SyncsAtBoot,    \* whether a sync may run while the process starts
    WatchPackages,  \* settings.storage.watch_packages
    MaxWrites,      \* bound: changes of the directory
    MaxWalks        \* bound: clients and restarts

\* A release tag is [major, minor, patch, pre]; pre is a string, as a sequence.
Tags == {p.dir : p \in Archives}

ASSUME BuildMirrorAssumption ==
    /\ Indexes \subseteq {"python", "node"} /\ Walks \subseteq {"nvm", "latest", "catalog", "page"}
    /\ MaxWrites \in Nat /\ MaxWalks \in Nat /\ {SyncsAtBoot, WatchPackages} \subseteq BOOLEAN
    /\ \A p \in Archives : DOMAIN p = {"dir", "aside", "name", "tag", "platform", "arch", "ext", "ok"}
    /\ \A p \in Archives : {p.aside, p.ok} \subseteq BOOLEAN
    \* A place in the directory holds one file, and there are finitely many.
    /\ \A p, q \in Archives : p.dir = q.dir /\ p.name = q.name /\ p.aside = q.aside => p = q
    /\ IsFiniteSet(Archives)

VARIABLES
    serves,     \* the index this is: "python" or "node"
    root,       \* the directory exists
    disk,       \* disk[p]: the bytes of the file, 0 when there is none
    sums,       \* sums[t]: a mirrored SHASUMS256.txt, <<name, bytes>> pairs, or NoSums
    overlay,    \* the releases the mirrored index.json describes
    apart,      \* releases that have had a copy elsewhere since the start
    by_release, \* the index: entries [of, size, digest, gen]
    meta,       \* _meta, the overlay as it was when the index was last scanned
    boot,       \* the start: [pc, todo, read]
    events,     \* file events the watcher has not handled
    watcher,    \* [pc, of, gen]: the watcher's thread and the last entry it made
    client,     \* a client's walk
    writes, walks

buildVars == <<serves, root, disk, sums, overlay, apart, by_release, meta, boot, events, watcher, client, writes, walks>>

NoSums == {<<"none", 0>>}
NoDigest == 0
NoTag == [major |-> 0, minor |-> 0, patch |-> 0, pre |-> <<>>]
NoClient == [pc |-> "idle", walk |-> "", tag |-> NoTag, left |-> {}, got |-> {}, held |-> {}, token |-> <<>>,
             name |-> "", count |-> 0, calm |-> FALSE]

\* What an entry is filed under: the directory's name and the file's.
Slot(p) == <<p.dir, p.name>>
Entry(p, g) == [of |-> p, size |-> disk[p], digest |-> NoDigest, gen |-> g]

BuildInit ==
    /\ serves \in Indexes /\ root \in BOOLEAN /\ disk = [p \in Archives |-> 0]
    /\ sums = [t \in Tags |-> NoSums] /\ overlay = {} /\ apart = {} /\ by_release = {} /\ meta = {}
    /\ boot = [pc |-> "scan", todo |-> {}, read |-> {}] /\ events = <<>>
    /\ watcher = [pc |-> "off", of |-> NoTag, gen |-> 0]
    /\ client = NoClient /\ writes = 0 /\ walks = 0

-----------------------------------------------------------------------------
(* Names: _version_key and file_token.                                     *)

_version_key(t) == <<t.major, t.minor, t.patch, IF t.pre = <<>> THEN 1 ELSE 0>> \o t.pre

Before(s, t) == \E i \in 1 .. Len(t) :
    /\ \A j \in 1 .. i - 1 : j <= Len(s) /\ s[j] = t[j]
    /\ i > Len(s) \/ s[i] < t[i]

Newer(t, u) == Before(_version_key(u), _version_key(t))

_parse_node_filename(p) ==
    IF p.platform # "" THEN p.platform
    ELSE IF p.ext \in {"tar.gz", "tar.xz", "tar.bz2", "tar"} THEN "src" ELSE p.ext

_EXT_TOKEN == [e \in {"tar.gz", "tar.xz", "tar.bz2", "zip", "7z", "msi", "pkg"} |->
                 IF e \in {"tar.gz", "tar.xz", "tar.bz2"} THEN "tar" ELSE e]

file_token(p) ==
    LET platform == _parse_node_filename(p)
        spelled == <<IF platform = "darwin" THEN "osx" ELSE platform>> \o (IF p.arch = "" THEN <<>> ELSE <<p.arch>>)
    IN  IF platform \in {"headers", "src", "pkg"} THEN <<platform>>
        ELSE IF platform \in {"darwin", "win"} /\ p.ext \in DOMAIN _EXT_TOKEN THEN spelled \o <<_EXT_TOKEN[p.ext]>>
        ELSE spelled

\* The node entry is told its directory; the python one believes its own name.
_entry(p) == p.dir
_build_entry(p) == p.tag
release_tag(p) == IF serves = "node" THEN _entry(p) ELSE _build_entry(p)

-----------------------------------------------------------------------------
(* Reads of the index, each under its lock.                                *)

get_releases == {e.of.dir : e \in by_release}
get_files_for_release(t) == {e \in by_release : e.of.dir = t}
get_file(t, n) == {e \in by_release : Slot(e.of) = <<t, n>>}
python_download(t, n) == get_file(t, n) # {}
stats == Cardinality(by_release)

Newest(ts) == {t \in ts : \A u \in ts \ {t} : ~Newer(u, t)}

resolve_alias(majors) == Newest({t \in get_releases : t.major \in majors})

\* A release's own tag; an alias has been resolved by then.
_resolve(t) == {u \in {t} : get_files_for_release(u) # {}}
node_download(t, n) == _resolve(t) # {} /\ get_file(t, n) # {}
Offered(t, n) == IF serves = "node" THEN node_download(t, n) ELSE python_download(t, n)

-----------------------------------------------------------------------------
(* index/base.py: start, and the scan of each index.                       *)

_full_scan_begin ==
    /\ boot.pc = "scan" /\ boot.todo = {}
    /\ boot' = IF root THEN [pc |-> "read", todo |-> Tags, read |-> {}]
                       ELSE [pc |-> "swap", todo |-> {}, read |-> {}]
    /\ UNCHANGED <<serves, root, disk, sums, overlay, apart, by_release, meta, events, watcher, client, writes, walks>>

_full_scan_release(t) ==
    /\ boot.pc = "read" /\ t \in boot.todo
    /\ LET found == {p \in Archives : p.dir = t /\ ~p.aside /\ p.ok /\ disk[p] # 0}
       IN  boot' = [pc   |-> IF boot.todo = {t} THEN "swap" ELSE "read",
                    todo |-> boot.todo \ {t},
                    read |-> boot.read \cup {Entry(p, watcher.gen + 1) : p \in found}]
    /\ UNCHANGED <<serves, root, disk, sums, overlay, apart, by_release, meta, events, watcher, client, writes, walks>>

_load_index_overlay == IF serves = "node" /\ root THEN overlay ELSE {}

_full_scan ==
    /\ boot.pc = "swap"
    /\ by_release' = boot.read /\ meta' = _load_index_overlay
    /\ boot' = [pc |-> "observe", todo |-> {}, read |-> {}]
    /\ watcher' = [watcher EXCEPT !.gen = @ + 1]
    /\ UNCHANGED <<serves, root, disk, sums, overlay, apart, events, client, writes, walks>>

\* The observer is started after the scan, and only over a directory that exists.
_start_observer ==
    /\ boot.pc = "observe" /\ boot' = [boot EXCEPT !.pc = "up"]
    /\ watcher' = [watcher EXCEPT !.pc = IF WatchPackages /\ root THEN "idle" ELSE "off"]
    /\ UNCHANGED <<serves, root, disk, sums, overlay, apart, by_release, meta, events, client, writes, walks>>

\* The process stops and starts again; what it had in memory is gone.
Restart ==
    /\ boot.pc = "up" /\ walks < MaxWalks /\ walks' = walks + 1
    /\ boot' = [pc |-> "scan", todo |-> {}, read |-> {}]
    /\ by_release' = {} /\ meta' = {} /\ events' = <<>> /\ client' = NoClient
    /\ watcher' = [pc |-> "off", of |-> NoTag, gen |-> 0]
    /\ UNCHANGED <<serves, root, disk, sums, overlay, writes>>
    /\ apart' = {p.dir : p \in {x \in Archives : x.aside /\ disk[x] # 0}}

-----------------------------------------------------------------------------
(* The directory: whatever syncs it, and the events its changes raise.     *)

Watched == watcher.pc \in {"idle", "stat"}
Told(es) == events' = IF Watched THEN events \o es ELSE events
Disturbed == client' = [client EXCEPT !.calm = FALSE]
Syncing ==
    /\ root /\ (SyncsAtBoot \/ boot.pc = "up" \/ (boot.pc = "scan" /\ by_release = {}))
    /\ writes < MaxWrites /\ writes' = writes + 1
Synced == UNCHANGED <<serves, root, by_release, meta, boot, watcher, walks>>

Place(p) ==
    /\ Syncing /\ disk' = [disk EXCEPT ![p] = writes + 1]
    /\ apart' = IF p.aside THEN apart \cup {p.dir} ELSE apart
    /\ Told(<<[is |-> "changed", of |-> p]>>) /\ Disturbed
    /\ Synced /\ UNCHANGED <<sums, overlay>>

Delete(p) ==
    /\ Syncing /\ disk[p] # 0 /\ disk' = [disk EXCEPT ![p] = 0]
    /\ Told(<<[is |-> "deleted", of |-> p]>>) /\ Disturbed
    /\ Synced /\ UNCHANGED <<sums, overlay, apart>>

\* An archive is moved to <another directory>/<release>/: on_moved is a removal
\* and an addition.
MoveAside(p) ==
    LET q == [p EXCEPT !.aside = TRUE]
    IN  /\ Syncing /\ ~p.aside /\ q \in Archives /\ disk[p] # 0
        /\ disk' = [disk EXCEPT ![q] = disk[p], ![p] = 0] /\ apart' = apart \cup {p.dir}
        /\ Told(<<[is |-> "deleted", of |-> p], [is |-> "changed", of |-> q]>>) /\ Disturbed
        /\ Synced /\ UNCHANGED <<sums, overlay>>

\* The authentic checksum file and index.json; neither name interests the watcher.
MirrorSums(t) ==
    /\ Syncing /\ serves = "node"
    /\ sums' = [sums EXCEPT ![t] = {<<p.name, disk[p]>> : p \in {x \in Archives : x.dir = t /\ ~x.aside /\ disk[x] # 0}}]
    /\ Disturbed /\ Synced /\ UNCHANGED <<disk, overlay, apart, events>>

MirrorIndex ==
    /\ Syncing /\ serves = "node" /\ overlay' = Tags
    /\ Disturbed /\ Synced /\ UNCHANGED <<disk, sums, apart, events>>

MakeRoot ==
    /\ ~root /\ root' = TRUE /\ writes < MaxWrites /\ writes' = writes + 1 /\ Disturbed
    /\ UNCHANGED <<serves, disk, sums, overlay, apart, by_release, meta, boot, events, watcher, walks>>

-----------------------------------------------------------------------------
(* The watcher's thread: _Handler, _add_or_update and _remove.             *)

\* is_file and the two name checks; the stat that follows is a later moment.
_add_or_update_checked ==
    /\ watcher.pc = "idle" /\ events # <<>> /\ Head(events).is = "changed" /\ events' = Tail(events)
    /\ LET p == Head(events).of
       IN  watcher' = IF disk[p] = 0 \/ ~p.ok THEN watcher ELSE [watcher EXCEPT !.pc = "stat", !.of = p]
    /\ UNCHANGED <<serves, root, disk, sums, overlay, apart, by_release, meta, boot, client, writes, walks>>

\* The stat of a file that has gone raises, and the thread ends with it.
_add_or_update_twice ==
    /\ watcher.pc = "stat"
    /\ LET p == watcher.of
       IN  IF disk[p] = 0
           THEN watcher' = [watcher EXCEPT !.pc = "dead", !.of = NoTag] /\ UNCHANGED by_release
           ELSE /\ watcher' = [pc |-> "idle", of |-> NoTag, gen |-> watcher.gen + 1]
                /\ by_release' = by_release \cup {Entry(p, watcher.gen + 1)}
    /\ UNCHANGED <<serves, root, disk, sums, overlay, apart, meta, boot, events, client, writes, walks>>

_add_or_update ==
    /\ watcher.pc = "stat"
    /\ LET p == watcher.of
       IN  IF disk[p] = 0
           THEN watcher' = [watcher EXCEPT !.pc = "dead", !.of = NoTag] /\ UNCHANGED by_release
           ELSE /\ watcher' = [pc |-> "idle", of |-> NoTag, gen |-> watcher.gen + 1]
                /\ by_release' = {e \in by_release : Slot(e.of) # Slot(p)} \cup {Entry(p, watcher.gen + 1)}
    /\ UNCHANGED <<serves, root, disk, sums, overlay, apart, meta, boot, events, client, writes, walks>>

_remove ==
    /\ watcher.pc = "idle" /\ events # <<>> /\ Head(events).is = "deleted" /\ events' = Tail(events)
    /\ by_release' = {e \in by_release : Slot(e.of) # Slot(Head(events).of)}
    /\ UNCHANGED <<serves, root, disk, sums, overlay, apart, meta, boot, watcher, client, writes, walks>>

-----------------------------------------------------------------------------
(* A client's walk, one request or one read of the index at a time.        *)

Quiet == boot.pc = "up" /\ watcher.pc = "idle" /\ events = <<>>
Walking(pcs) == boot.pc = "up" /\ client.pc \in pcs
Keep == UNCHANGED <<serves, root, disk, sums, overlay, apart, meta, boot, events, watcher, writes, walks>>
ClientGoes(pc) == client' = [client EXCEPT !.pc = pc] /\ UNCHANGED by_release /\ Keep

Ask(w) ==
    /\ Walking({"idle", "verified", "mismatch", "missing", "error", "fetched", "empty"})
    /\ walks < MaxWalks /\ walks' = walks + 1
    /\ (w \in {"nvm", "latest"} => serves = "node")
    /\ client' = [NoClient EXCEPT !.pc = w, !.walk = w, !.calm = Quiet]
    /\ UNCHANGED <<serves, root, disk, sums, overlay, apart, by_release, meta, boot, events, watcher, writes>>

\* index.json: the snapshot first, the overlay after; nvm wants one version and platform.
index_document == [t \in get_releases |-> {file_token(e.of) : e \in get_files_for_release(t)}]

index_json ==
    /\ Walking({"nvm"})
    /\ IF get_releases = {} THEN ClientGoes("empty")
       ELSE \E t \in get_releases : \E k \in index_document[t] :
              /\ client' = [client EXCEPT !.pc = "resolve", !.tag = t, !.token = k]
              /\ UNCHANGED by_release /\ Keep

\* latest, and latest-v<n>.x: an alias every request resolves for itself.
latest ==
    /\ Walking({"latest"})
    /\ \E majors \in {{t.major : t \in Tags}} \cup {{t.major} : t \in Tags} :
         IF resolve_alias(majors) = {} THEN ClientGoes("missing")
         ELSE \E t \in resolve_alias(majors) :
                /\ client' = [client EXCEPT !.pc = "resolve", !.tag = t]
                /\ UNCHANGED by_release /\ Keep

\* SHASUMS256.txt: the mirrored file, or one computed archive by archive.
shasums ==
    /\ Walking({"resolve"})
    /\ LET files == get_files_for_release(client.tag)
       IN  IF _resolve(client.tag) = {} THEN ClientGoes("missing")
           ELSE IF sums[client.tag] # NoSums
           THEN client' = [client EXCEPT !.pc = "choose", !.got = sums[client.tag]] /\ UNCHANGED by_release /\ Keep
           ELSE client' = [client EXCEPT !.pc = "hash", !.left = files] /\ UNCHANGED by_release /\ Keep

\* get_sha256: the digest on the entry, else the bytes now there, kept on the entry
\* the request holds, which the index may have replaced since.
get_sha256_by_slot(e) ==
    /\ Walking({"hash"}) /\ e \in client.left
    /\ LET d == IF e.digest # NoDigest THEN e.digest ELSE disk[e.of]
       IN  IF d = 0 THEN ClientGoes("error")
           ELSE /\ client' = [client EXCEPT !.left = @ \ {e}, !.got = @ \cup {<<e.of.name, d>>},
                                            !.pc = IF client.left = {e} THEN "choose" ELSE "hash"]
                /\ by_release' = {IF Slot(x.of) = Slot(e.of) THEN [x EXCEPT !.digest = d] ELSE x : x \in by_release}
                /\ Keep

get_sha256(e) ==
    /\ Walking({"hash"}) /\ e \in client.left
    /\ LET d == IF e.digest # NoDigest THEN e.digest ELSE disk[e.of]
       IN  IF d = 0 THEN ClientGoes("error")
           ELSE /\ client' = [client EXCEPT !.left = @ \ {e}, !.got = @ \cup {<<e.of.name, d>>},
                                            !.pc = IF client.left = {e} THEN "choose" ELSE "hash"]
                /\ by_release' = {IF x.of = e.of /\ x.gen = e.gen THEN [x EXCEPT !.digest = d] ELSE x : x \in by_release}
                /\ Keep

\* The client picks a file of its platform from the checksums it was given.
choose ==
    /\ Walking({"choose"})
    /\ LET fits == {n \in {g[1] : g \in client.got} :
                      client.walk = "nvm" => \E p \in Archives : p.name = n /\ file_token(p) = client.token}
       IN  IF fits = {} THEN ClientGoes("missing")
           ELSE \E n \in fits : client' = [client EXCEPT !.pc = "download", !.name = n] /\ UNCHANGED by_release /\ Keep

\* The file is found in the index and sent from <root>/<release>/<name>.
download ==
    /\ Walking({"download"})
    /\ LET found == {p \in Archives : ~p.aside /\ Slot(p) = <<client.tag, client.name>> /\ disk[p] # 0}
       IN  IF ~Offered(client.tag, client.name) \/ found = {} THEN ClientGoes("missing")
           ELSE \E p \in found :
                  ClientGoes(IF client.got = {} THEN "fetched"
                       ELSE IF <<client.name, disk[p]>> \in client.got THEN "verified" ELSE "mismatch")

\* The console's catalog: the releases first, then the files of each in turn.
catalog ==
    /\ Walking({"catalog"})
    /\ client' = [client EXCEPT !.pc = "files", !.left = get_releases] /\ UNCHANGED by_release /\ Keep

_payload(t) ==
    /\ Walking({"files"}) /\ t \in client.left
    /\ client' = [client EXCEPT !.left = @ \ {t}, !.held = @ \cup get_files_for_release(t)]
    /\ UNCHANGED by_release /\ Keep

\* A link is written from the entry's release_tag; the checksum is asked first.
_file_urls ==
    /\ Walking({"files"}) /\ client.left = {}
    /\ IF client.held = {} THEN ClientGoes("empty")
       ELSE \E e \in client.held :
              /\ client' = [client EXCEPT !.pc = "sha256", !.tag = release_tag(e.of), !.name = e.of.name]
              /\ UNCHANGED by_release /\ Keep

sha256 ==
    /\ Walking({"sha256"})
    /\ IF ~Offered(client.tag, client.name) THEN ClientGoes("missing")
       ELSE client' = [client EXCEPT !.pc = "hash", !.left = get_file(client.tag, client.name)]
            /\ UNCHANGED by_release /\ Keep

\* The HTML pages: a snapshot and, under the lock again, the count beside it; then a
\* release's page and the link it prints.
discovery ==
    /\ Walking({"page"})
    /\ client' = [client EXCEPT !.pc = "counted", !.held = by_release] /\ UNCHANGED by_release /\ Keep

discovery_counted ==
    /\ Walking({"counted"})
    /\ IF client.held = {} THEN ClientGoes("empty")
       ELSE \E e \in client.held :
              /\ client' = [client EXCEPT !.pc = "release", !.count = stats, !.tag = e.of.dir]
              /\ UNCHANGED by_release /\ Keep

release_page ==
    /\ Walking({"release"})
    /\ IF get_files_for_release(client.tag) = {} THEN ClientGoes("missing")
       ELSE \E e \in get_files_for_release(client.tag) :
              /\ client' = [client EXCEPT !.pc = "download", !.tag = release_tag(e.of), !.name = e.of.name]
              /\ UNCHANGED by_release /\ Keep

-----------------------------------------------------------------------------
Boot == _full_scan_begin \/ (\E t \in Tags : _full_scan_release(t)) \/ _full_scan \/ _start_observer \/ Restart
Sync ==
    \/ \E p \in Archives : Place(p) \/ Delete(p) \/ MoveAside(p)
    \/ (\E t \in Tags : MirrorSums(t)) \/ MirrorIndex \/ MakeRoot
Watch == _add_or_update_checked \/ _add_or_update \/ _remove
Walk ==
    \/ (\E w \in Walks : Ask(w)) \/ index_json \/ latest \/ shasums \/ choose \/ download
    \/ (client.pc = "hash" /\ \E e \in client.left : get_sha256(e))
    \/ catalog \/ (client.pc = "files" /\ \E t \in client.left : _payload(t)) \/ _file_urls \/ sha256
    \/ discovery \/ discovery_counted \/ release_page

BuildNext == Boot \/ Sync \/ Watch \/ Walk
BuildSpec == BuildInit /\ [][BuildNext]_buildVars

-----------------------------------------------------------------------------
(* Properties.                                                             *)

\* Once the watcher has handled every event, the index holds what a scan of the
\* directory would find: each archive once, with the size of the bytes now there
\* and no digest of other bytes.  A release moved aside is set apart: the watcher
\* files <other>/<release>/<archive> under <release>, which a scan would not.
InStep == Quiet /\ root =>
    LET kept == {e \in by_release : e.of.dir \notin apart}
        there == {p \in Archives : ~p.aside /\ p.ok /\ disk[p] # 0 /\ p.dir \notin apart}
    IN  /\ {e.of : e \in kept} = there /\ Cardinality(kept) = Cardinality(there)
        /\ \A e \in kept : e.size = disk[e.of] /\ e.digest \in {NoDigest, disk[e.of]}

\* A client that began when the index was in step, and met no change of the
\* directory, gets the archive it was pointed to, with the bytes its checksum
\* names, whichever documents led it there.  Set apart: a mirrored SHASUMS256.txt
\* that describes other bytes, and a python archive filed under another date than
\* its name says.
WalkServed == client.calm /\ root /\ apart = {} =>
    /\ client.pc = "missing" =>
         \/ client.walk = "latest" /\ client.tag = NoTag
         \/ sums[client.tag] # NoSums
         \/ \E p \in Archives : p.tag # p.dir /\ disk[p] # 0
    /\ client.pc = "mismatch" => sums[client.tag] # NoSums
    /\ client.pc # "error"
    /\ client.pc = "release" => client.count = Cardinality(client.held)

\* The index follows the directory and what is listed can be fetched.
BuildsTrue == InStep /\ WalkServed

\* "only what is actually on disk is listed, so a client is never handed a URL this
\* server would answer with a 404" (services/build_mirror.py:19-21), for a client
\* that met no change of the directory.
NeverHanded404 == client.calm /\ root /\ client.walk = "catalog" => client.pc # "missing"

\* The watcher's thread outlives every event (index/base.py:105-109 starts it once).
WatcherLives == watcher.pc # "dead"

\* The overlay follows the mirrored index.json (index/node_build.py:239-241).
OverlayFollows == Quiet /\ serves = "node" => meta = overlay
=============================================================================
