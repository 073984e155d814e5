------------------------------ MODULE Packument ------------------------------
(***************************************************************************)
(* The npm registry protocol (backend/services/npm_registry.py behind      *)
(* backend/routes/npm.py): a package's document is put together from the   *)
(* tarballs of a local directory, the tags recorded by npm publish, the    *)
(* catalog's listings and the upstream registry's document, which may be a *)
(* cached one; a client then picks a version and asks for its tarball,     *)
(* which is found by package and basename, in the directory or upstream.   *)
(*                                                                         *)
(* The operator changes the directory and the upstream changes or fails    *)
(* between any two of those reads.  Bytes are identified with their        *)
(* digest; the freshness of the index itself is the module Publish's.      *)
(***************************************************************************)
EXTENDS Integers, Sequences, FiniteSets

CONSTANTS
    Packages,       \* package names
    Tarballs,       \* files the directory may hold: [at, name, pkg, version]
    Versions,       \* versions: [core, pre], sequences of numbers
    Listed,         \* catalog entries without a tarball: <<package, version>> pairs
    Basename,       \* Basename[p][v]: the basename npm gives that tarball
    SEARCH_MAX_SIZE,
    MaxChanges,     \* bound: changes of the directory and of the upstream
    MaxInstalls     \* bound: clients

LATEST_TAG == "latest"
TagNames == {LATEST_TAG, "next"}

ASSUME PackumentAssumption ==
    /\ \A t \in Tarballs : DOMAIN t = {"at", "name", "pkg", "version"}
    /\ \A s, t \in Tarballs : s.at = t.at => s = t
    /\ MaxChanges \in Nat /\ MaxInstalls \in Nat /\ SEARCH_MAX_SIZE \in Nat \ {0}

VARIABLES
    shelf,      \* shelf[t]: the bytes of a local tarball, 0 when it is not there
    recorded,   \* recorded[p]: dist-tags that npm publish recorded, <<tag, version>> pairs
    registry,   \* registry[p]: the upstream's document [versions, tags]
    uplink,     \* "on", "down" or "off" (proxying is disabled)
    doccache,   \* doccache[p][form]: a cached upstream document, or NoDocument
    tgzcache,   \* cached upstream tarballs, <<package, basename>> pairs
    caller,     \* a client's walk
    changes, installs

packumentVars == <<shelf, recorded, registry, uplink, doccache, tgzcache, caller, changes, installs>>

NoDocument == [versions |-> {}, tags |-> {}]
Forms == {"abbrev", "full"}
NoVersion == [core |-> <<>>, pre |-> <<>>]
NoRequest == [pc |-> "idle", pkg |-> "", form |-> "full", near |-> NoDocument, doc |-> NoDocument, chosen |-> {},
            from |-> 0, seen |-> <<>>, held |-> {}, fresh |-> FALSE, met |-> {}]

PackumentInit ==
    /\ shelf = [t \in Tarballs |-> 0] /\ recorded = [p \in Packages |-> {}]
    /\ registry = [p \in Packages |-> NoDocument] /\ uplink \in {"on", "off"}
    /\ doccache = [p \in Packages |-> [f \in Forms |-> NoDocument]] /\ tgzcache = {}
    /\ caller = NoRequest /\ changes = 0 /\ installs = 0

-----------------------------------------------------------------------------
(* Versions and digests.  A document's entry is [version, tarball, bytes]. *)

\* Pieces of a version: a number sorts before a word, and a prefix before its extension.
_version_key(v) == [i \in 1 .. Len(v.core) |-> <<0, v.core[i]>>] \o [i \in 1 .. Len(v.pre) |-> <<1, v.pre[i]>>]

Less(a, b) == a[1] < b[1] \/ (a[1] = b[1] /\ a[2] < b[2])
KeyBefore(s, t) == \E i \in 1 .. Len(t) :
    /\ \A j \in 1 .. i - 1 : j <= Len(s) /\ s[j] = t[j]
    /\ i > Len(s) \/ Less(s[i], t[i])

Highest(vs) == CHOOSE v \in vs : \A w \in vs : ~KeyBefore(_version_key(v), _version_key(w))

VersionsOf(doc) == {e.version : e \in doc.versions}
Tagged(pairs) == {t[1] : t \in pairs}
UpstreamBytes(p, v) == <<"upstream", p, v>>

-----------------------------------------------------------------------------
(* The local side: local_index, local_packument, local_tarball.            *)

There == {t \in Tarballs : shelf[t] # 0}

\* Of two files that carry one version, the later path in order replaces the earlier.
indexed(p) == {t \in There : t.pkg = p /\ \A u \in There : u.pkg = p /\ u.version = t.version => u.at <= t.at}

_local_manifest(t) == [version |-> t.version, tarball |-> t.name, bytes |-> <<"local", shelf[t]>>]
Listing(p) == {[version |-> l[2], tarball |-> "", bytes |-> <<"none", 0>>] : l \in {x \in Listed : x[1] = p}}

\* A listing counts only for a package of which no file is there.
local_packument(p) ==
    LET files == indexed(p)
        entries == IF files # {} THEN {_local_manifest(t) : t \in files} ELSE Listing(p)
        known == {e.version : e \in entries}
        tags == {t \in recorded[p] : t[2] \in known}
    IN  IF entries = {} THEN NoDocument
        ELSE [versions |-> entries,
              tags |-> IF LATEST_TAG \in Tagged(tags) THEN tags ELSE tags \cup {<<LATEST_TAG, Highest(known)>>}]

-----------------------------------------------------------------------------
(* The upstream's document, rewritten to this server, and the merge.       *)

_rewrite_packument(p, doc) ==
    IF doc.versions = {} THEN NoDocument
    ELSE [versions |-> {[version |-> v, tarball |-> Basename[p][v], bytes |-> UpstreamBytes(p, v)] : v \in doc.versions},
          tags |-> IF doc.tags = {} THEN {<<LATEST_TAG, Highest(doc.versions)>>} ELSE doc.tags]

_merge_packuments_local(far, near) ==
    LET versions == near.versions \cup {e \in far.versions : near.tags = {}}
    IN  [versions |-> versions, tags |-> {t \in far.tags \cup near.tags : \E e \in versions : e.version = t[2]}]

\* A local tarball wins its own version, a listing only fills a gap; the tags are
\* the upstream's, then the local ones it does not use.
_merge_packuments(far, near) ==
    LET wins(e) == e.tarball # "" \/ e.version \notin VersionsOf(far)
        kept == {e \in near.versions : wins(e)}
        versions == kept \cup {e \in far.versions : \A n \in kept : n.version # e.version}
        known == {e.version : e \in versions}
        farTags == {t \in far.tags : t[2] \in known}
        tags == farTags \cup {t \in near.tags : t[1] \notin Tagged(farTags) /\ t[2] \in known}
    IN  [versions |-> versions,
         tags |-> IF LATEST_TAG \in Tagged(tags) THEN tags ELSE tags \cup {<<LATEST_TAG, Highest(known)>>}]

Merged(p, far) ==
    LET rewritten == _rewrite_packument(p, far)
    IN  IF rewritten = NoDocument THEN caller.near
        ELSE IF caller.near = NoDocument THEN rewritten
        ELSE _merge_packuments(rewritten, caller.near)

-----------------------------------------------------------------------------
(* What changes around the registry.                                       *)

Changing(what) == /\ changes < MaxChanges /\ changes' = changes + 1 /\ caller' = [caller EXCEPT !.met = @ \cup {what}]

\* A tarball arrives, by npm publish with its tag or by hand; or it is removed.
Arrives(t, tag) ==
    /\ Changing("shelf") /\ shelf' = [shelf EXCEPT ![t] = changes + 1]
    /\ recorded' = IF tag = "" THEN recorded
                   ELSE [recorded EXCEPT ![t.pkg] = {x \in @ : x[1] # tag} \cup {<<tag, t.version>>}]
    /\ UNCHANGED <<registry, uplink, doccache, tgzcache, installs>>

Leaves(t) ==
    /\ Changing("shelf") /\ shelf[t] # 0 /\ shelf' = [shelf EXCEPT ![t] = 0]
    /\ UNCHANGED <<recorded, registry, uplink, doccache, tgzcache, installs>>

\* The upstream gains a version, tagged latest, or loses one.
UpstreamGains(p, v) ==
    /\ Changing("upstream") /\ v \notin registry[p].versions
    /\ registry' = [registry EXCEPT ![p] = [versions |-> @.versions \cup {v}, tags |-> {<<LATEST_TAG, v>>}]]
    /\ UNCHANGED <<shelf, recorded, uplink, doccache, tgzcache, installs>>

UpstreamLoses(p, v) ==
    /\ Changing("upstream") /\ v \in registry[p].versions
    /\ registry' = [registry EXCEPT ![p] = [versions |-> @.versions \ {v}, tags |-> {t \in @.tags : t[2] # v}]]
    /\ UNCHANGED <<shelf, recorded, uplink, doccache, tgzcache, installs>>

UplinkTurns ==
    /\ Changing("upstream") /\ uplink # "off" /\ uplink' = IF uplink = "on" THEN "down" ELSE "on"
    /\ UNCHANGED <<shelf, recorded, registry, doccache, tgzcache, installs>>

\* PACKUMENT_TTL passes for a cached document, or the byte budget evicts an entry.
Expires(p, f) ==
    /\ doccache[p][f] # NoDocument /\ doccache' = [doccache EXCEPT ![p][f] = NoDocument]
    /\ UNCHANGED <<shelf, recorded, registry, uplink, tgzcache, caller, changes, installs>>

Evicted(k) ==
    /\ tgzcache' = tgzcache \ {k}
    /\ UNCHANGED <<shelf, recorded, registry, uplink, doccache, caller, changes, installs>>

-----------------------------------------------------------------------------
(* A client's requests.                                                    *)

Doing(pc) == caller.pc = pc
Kept == UNCHANGED <<shelf, recorded, registry, uplink, changes, installs>>
Finishes(pc) == caller' = [caller EXCEPT !.pc = pc] /\ UNCHANGED <<doccache, tgzcache>> /\ Kept

Begin(p, f) ==
    /\ caller.pc \in {"idle", "installed", "mismatch", "missing", "nothing", "unavailable", "searched"}
    /\ installs < MaxInstalls /\ installs' = installs + 1
    /\ caller' = [NoRequest EXCEPT !.pc = "near", !.pkg = p, !.form = f]
    /\ UNCHANGED <<shelf, recorded, registry, uplink, doccache, tgzcache, changes>>

\* packument: the local document first.
npm_packument ==
    /\ Doing("near") /\ caller' = [caller EXCEPT !.pc = "far", !.near = local_packument(caller.pkg)]
    /\ UNCHANGED <<doccache, tgzcache>> /\ Kept

\* A cached document is believed; else it is fetched, and kept, per form.
upstream_document ==
    /\ Doing("far") /\ uplink # "off"
    /\ LET p == caller.pkg
           cached == doccache[p][caller.form]
           got(doc, fresh) == caller' = [caller EXCEPT !.pc = "choose", !.doc = Merged(p, doc), !.fresh = fresh]
       IN  \/ /\ cached # NoDocument /\ got(cached, FALSE) /\ UNCHANGED doccache
           \/ /\ cached = NoDocument /\ uplink = "on" /\ registry[p] # NoDocument /\ got(registry[p], TRUE)
              /\ doccache' = [doccache EXCEPT ![p][caller.form] = registry[p]]
    /\ UNCHANGED tgzcache /\ Kept

\* The upstream is disabled, down, or does not know the package: the local answer, if any.
packument ==
    /\ Doing("far")
    /\ \/ uplink = "off"
       \/ doccache[caller.pkg][caller.form] = NoDocument /\ (uplink = "down" \/ registry[caller.pkg] = NoDocument)
    /\ \/ caller.near # NoDocument /\ caller' = [caller EXCEPT !.pc = "choose", !.doc = caller.near, !.fresh = TRUE]
       \/ caller.near = NoDocument /\ caller' = [caller EXCEPT !.pc = IF uplink = "down" THEN "unavailable" ELSE "nothing"]
    /\ UNCHANGED <<doccache, tgzcache>> /\ Kept

\* The client resolves a range or a tag; /npm/<package>/<tag> does so on the server.
version_manifest ==
    /\ Doing("choose")
    /\ IF caller.doc.versions = {} THEN Finishes("nothing")
       ELSE \E e \in caller.doc.versions :
              /\ caller' = [caller EXCEPT !.pc = IF e.tarball = "" THEN "nothing" ELSE "tarball", !.chosen = {e}]
              /\ UNCHANGED <<doccache, tgzcache>> /\ Kept

Chosen == CHOOSE e \in caller.chosen : TRUE
Receives(bytes) == caller' = [caller EXCEPT !.pc = IF bytes = Chosen.bytes THEN "installed" ELSE "mismatch"]

\* local_tarball by the basename alone, whoever's file that is.
local_tarball_by_name ==
    /\ Doing("tarball")
    /\ LET own == {t \in There : t.name = Chosen.tarball}
       IN  caller' = [caller EXCEPT !.pc = IF own = {} THEN "ask" ELSE "send", !.held = own]
    /\ UNCHANGED <<doccache, tgzcache>> /\ Kept

\* The package's own record decides whether the basename is one of its files.
local_tarball ==
    /\ Doing("tarball")
    /\ LET own == {t \in indexed(caller.pkg) : t.name = Chosen.tarball}
       IN  caller' = [caller EXCEPT !.pc = IF own = {} THEN "ask" ELSE "send", !.held = own]
    /\ UNCHANGED <<doccache, tgzcache>> /\ Kept

\* The file of the first such version; when it has gone, any file of that basename.
_path_for ==
    /\ Doing("send")
    /\ LET first == CHOOSE t \in caller.held : \A u \in caller.held : t.at <= u.at
           others == {t \in There : t.name = Chosen.tarball}
       IN  IF shelf[first] # 0 THEN Receives(<<"local", shelf[first]>>)
           ELSE IF others = {} THEN caller' = [caller EXCEPT !.pc = "ask"]
           ELSE \E t \in others : Receives(<<"local", shelf[t]>>)
    /\ UNCHANGED <<doccache, tgzcache>> /\ Kept

\* The upstream by package and basename: a cached file for ever, else fetched and kept.
ask_upstream ==
    /\ Doing("ask")
    /\ LET k == <<caller.pkg, Chosen.tarball>>
           behind == {v \in Versions : Basename[caller.pkg][v] = Chosen.tarball}
           served == IF k \in tgzcache THEN behind ELSE IF uplink = "on" THEN behind \cap registry[caller.pkg].versions ELSE {}
       IN  IF uplink = "off" \/ served = {}
           THEN caller' = [caller EXCEPT !.pc = "missing"] /\ UNCHANGED tgzcache
           ELSE \E v \in served : Receives(UpstreamBytes(caller.pkg, v)) /\ tgzcache' = tgzcache \cup {k}
    /\ UNCHANGED doccache /\ Kept

\* Search: local hits, then the first size the upstream has, each name once; a page of them.
Hits(ps) == CHOOSE s \in [1 .. Cardinality(ps) -> ps] : \A i, j \in DOMAIN s : i # j => s[i] # s[j]
Slice(s, from, size) == [i \in 1 .. (IF Len(s) <= from THEN 0 ELSE IF Len(s) - from < size THEN Len(s) - from ELSE size) |-> s[from + i]]
LocalNames == {p \in Packages : local_packument(p) # NoDocument}
UpstreamHits(size) == IF uplink # "on" THEN <<>> ELSE Slice(Hits({p \in Packages : registry[p] # NoDocument}), 0, size)

search_repeats(size) ==
    LET all == Hits(LocalNames) \o UpstreamHits(size)
        page == Slice(all, caller.from, size)
    IN  /\ Doing("search")
        /\ caller' = [caller EXCEPT !.seen = @ \o page, !.from = @ + size, !.pc = IF page = <<>> THEN "searched" ELSE "search"]
        /\ UNCHANGED <<doccache, tgzcache>> /\ Kept

search(size) ==
    LET far == UpstreamHits(size)
        all == Hits(LocalNames) \o SelectSeq(far, LAMBDA p : p \notin LocalNames)
        page == Slice(all, caller.from, size)
    IN  /\ Doing("search")
        /\ caller' = [caller EXCEPT !.seen = @ \o page, !.from = @ + size, !.pc = IF page = <<>> THEN "searched" ELSE "search"]
        /\ UNCHANGED <<doccache, tgzcache>> /\ Kept

npm_search ==
    /\ caller.pc \in {"idle", "installed", "mismatch", "missing", "nothing", "unavailable", "searched"}
    /\ installs < MaxInstalls /\ installs' = installs + 1 /\ caller' = [NoRequest EXCEPT !.pc = "search"]
    /\ UNCHANGED <<shelf, recorded, registry, uplink, doccache, tgzcache, changes>>

-----------------------------------------------------------------------------
Around ==
    \/ \E t \in Tarballs : Leaves(t) \/ \E tag \in TagNames \cup {""} : Arrives(t, tag)
    \/ \E p \in Packages : \E v \in Versions : UpstreamGains(p, v) \/ UpstreamLoses(p, v)
    \/ UplinkTurns \/ (\E p \in Packages : \E f \in Forms : Expires(p, f)) \/ (\E k \in tgzcache : Evicted(k))
Requests ==
    \/ \E p \in Packages : \E f \in Forms : Begin(p, f)
    \/ npm_packument \/ upstream_document \/ packument \/ version_manifest
    \/ local_tarball \/ _path_for \/ ask_upstream
    \/ npm_search \/ \E size \in 1 .. SEARCH_MAX_SIZE : search(size)

PackumentNext == Around \/ Requests
PackumentSpec == PackumentInit /\ [][PackumentNext]_packumentVars

-----------------------------------------------------------------------------
(* Properties.                                                             *)

\* A file whose basename is not the one npm gives its version.
Misnamed == \E t \in There : t.name # Basename[t.pkg][t.version]

\* A client gets the bytes its document declared, unless the directory changed
\* between the document and the tarball or holds a file under another version's
\* basename: a shared basename of two packages, a cached document, a failing
\* upstream or an evicted tarball never make it install something else.
DeclaredBytes == caller.pc = "mismatch" => "shelf" \in caller.met \/ Misnamed

\* A version the document offered can be fetched, unless something changed since
\* or the document was a cached one.
OfferedIsServed == caller.pc = "missing" => caller.met # {} \/ ~caller.fresh \/ Misnamed

\* The document hides no version of the upstream's, tags only versions it lists,
\* has a latest, and gives one entry to each version.
WholeDocument == Doing("choose") /\ caller.doc # NoDocument =>
    /\ Cardinality(caller.doc.versions) = Cardinality(VersionsOf(caller.doc))
    /\ LATEST_TAG \in Tagged(caller.doc.tags) /\ \A t \in caller.doc.tags : t[2] \in VersionsOf(caller.doc)
    /\ (caller.fresh /\ caller.met = {} /\ uplink = "on") => registry[caller.pkg].versions \subseteq VersionsOf(caller.doc)
    /\ VersionsOf(caller.near) \subseteq VersionsOf(caller.doc)

\* A walk over search pages that met no change shows every local package, and no
\* package twice.
PagesDisjoint == Doing("searched") /\ caller.met = {} =>
    /\ \A i, j \in DOMAIN caller.seen : i # j => caller.seen[i] # caller.seen[j]
    /\ LocalNames \subseteq {caller.seen[i] : i \in DOMAIN caller.seen}

\* What the registry promises a client.
RegistryTrue == DeclaredBytes /\ OfferedIsServed /\ WholeDocument /\ PagesDisjoint

\* "a missing or malformed copy degrades to latest = highest version on disk"
\* (services/npm_registry.py:77), where a release is higher than its candidates.
LatestIsHighest == Doing("choose") /\ caller.doc = caller.near /\ caller.near # NoDocument /\ recorded[caller.pkg] = {} =>
    \A t \in caller.doc.tags : \A v \in VersionsOf(caller.doc) : v.core = t[2].core => ~(t[2].pre # <<>> /\ v.pre = <<>>)

\* "the package's own index record is the authority": no wrong bytes even where a
\* file's name is not its version's (services/npm_registry.py:811-816).
NeverWrongBytes == caller.pc = "mismatch" => "shelf" \in caller.met
=============================================================================
