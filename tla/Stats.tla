------------------------------- MODULE Stats -------------------------------
(***************************************************************************)
(* The registry's counters (backend/services/stats.py, the refresh thread  *)
(* of backend/extensions/stats_refresh.py, the routes that show or force   *)
(* them, and the usage rows of backend/auth/api_keys.py).                  *)
(*                                                                         *)
(* Each worker process has its own package index, kept by a watcher, and   *)
(* its own cache; one snapshot file is shared.  A refresh takes a copy of  *)
(* the index, sizes the files that have no size yet on the index's own     *)
(* entries, reads the usage rows twice, and stores the result in the cache *)
(* and then in the file.  The timer's refresh and a forced one overlap,    *)
(* files and usage change meanwhile, and any of the reads may fail.        *)
(***************************************************************************)
EXTENDS Integers, FiniteSets

CONSTANTS
    Processes,        \* worker processes
    Home,           \* Home[r]: the worker in which r refreshes: its timer, or a request that forces it
    Files,          \* package files: [pkg, counter], counter what _extract_pkg makes of the name
    Sizes,          \* file sizes, positive
    ApiKeys,        \* keys with which files are downloaded and uploaded
    MaxDiskChanges,      \* bound: changes of the packages directory
    MaxEvents,      \* bound: counted requests
    MaxRefreshes,   \* bound: refreshes
    MaxRestarts     \* bound: restarts of a worker

Refreshers == DOMAIN Home
Counters == {f.counter : f \in Files}
PackageNames == {f.pkg : f \in Files}

ASSUME StatsAssumption ==
    /\ \A r \in Refreshers : Home[r] \in Processes
    /\ Sizes \subseteq Nat \ {0} /\ IsFiniteSet(Files)

VARIABLES
    sizeof,     \* sizeof[f]: the size of the file on disk, 0 when it is not there
    unseen,     \* unseen[w]: files with a watch event still to be handled
    entry,      \* entry[w][f]: the index's object for f, [gen, there, size]
    cached,     \* cached[w]: the cached document, or NoStats
    snapshot,   \* the snapshot file: a document, NoStats, or Torn
    refresh,    \* refresh[r]: a refresh under way
    usage,      \* usage[k][c]: the count of that usage row, 0 without a row
    looking,    \* looking[k][c][b]: requests between their lookup, which found a row (b) or none, and their write
    due,        \* due[k][c]: events that found their row, or inserted it
    diskChanges, eventsSeen, refreshes, restarts

statsVars == <<sizeof, unseen, entry, cached, snapshot, refresh, usage, looking, due,
               diskChanges, eventsSeen, refreshes, restarts>>

-----------------------------------------------------------------------------
(* Documents.                                                              *)

NoneThere == [f \in Files |-> [gen |-> 0, there |-> FALSE, size |-> 0]]
NoUsage == [k \in ApiKeys |-> [c \in Counters |-> 0]]
NoCounts == [p \in PackageNames |-> 0]
Zeroes == [k \in ApiKeys |-> 0]

\* A document: the figures shown, and three facts about how it was made: what the
\* disk held and the usage rows said when it was begun, and what it met.
NoStats == [count |-> NoCounts, storage |-> 0, ready |-> FALSE, keys |-> Zeroes, downloads |-> NoCounts,
            held |-> 0, since |-> NoUsage, met |-> {"never made"}]
Torn == [NoStats EXCEPT !.met = {"torn"}]
Usable(d) == d \notin {NoStats, Torn}

Resting == [pc |-> "idle", taken |-> NoneThere, todo |-> {}, doc |-> NoStats]
Away == [k \in ApiKeys |-> [c \in Counters |-> [b \in BOOLEAN |-> 0]]]

Units(g) == UNION {{x} \X (1 .. g[x]) : x \in DOMAIN g}
Total(g) == Cardinality(Units(g))
InIndex(taken) == {f \in Files : taken[f].there}
CountOf(taken) == [p \in PackageNames |-> Cardinality({f \in InIndex(taken) : f.pkg = p})]

\* The usage of a package is looked up under the package's own name.
Downloads == [p \in PackageNames |-> IF p \in Counters THEN Total([k \in ApiKeys |-> usage[k][p]]) ELSE 0]
KeyTotals == [k \in ApiKeys |-> Total(usage[k])]

StatsInit ==
    /\ sizeof \in [Files -> {0} \cup Sizes] /\ snapshot \in {NoStats, Torn}
    /\ entry = [w \in Processes |-> [f \in Files |-> [gen |-> 0, there |-> sizeof[f] # 0, size |-> 0]]]
    /\ unseen = [w \in Processes |-> {}] /\ cached = [w \in Processes |-> NoStats]
    /\ refresh = [r \in Refreshers |-> Resting] /\ usage = NoUsage /\ due = NoUsage
    /\ looking = Away
    /\ diskChanges = 0 /\ eventsSeen = 0 /\ refreshes = 0 /\ restarts = 0

-----------------------------------------------------------------------------
(* The packages directory and the index that follows it.                   *)

MetByAll(what) ==
    [r \in Refreshers |-> IF refresh[r].pc = "idle" THEN refresh[r] ELSE [refresh[r] EXCEPT !.doc.met = @ \cup {what}]]

\* An upload, an overwrite, or a file removed by the operator.
DiskChanges(f, size) ==
    /\ diskChanges < MaxDiskChanges /\ sizeof[f] # size /\ diskChanges' = diskChanges + 1
    /\ sizeof' = [sizeof EXCEPT ![f] = size] /\ unseen' = [w \in Processes |-> unseen[w] \cup {f}]
    /\ refresh' = MetByAll("disk")
    /\ UNCHANGED <<entry, cached, snapshot, usage, looking, due, eventsSeen, refreshes, restarts>>

PackageIndex_add_or_update_keeps_size(w, f) ==
    /\ f \in unseen[w] /\ sizeof[f] # 0
    /\ entry' = [entry EXCEPT ![w][f] = [gen |-> @.gen + 1, there |-> TRUE, size |-> IF @.there THEN @.size ELSE sizeof[f]]]
    /\ unseen' = [unseen EXCEPT ![w] = @ \ {f}]
    /\ UNCHANGED <<sizeof, cached, snapshot, refresh, usage, looking, due, diskChanges, eventsSeen, refreshes, restarts>>

\* A new object, sized at once, replaces the file's old one.
PackageIndex_add_or_update(w, f) ==
    /\ f \in unseen[w] /\ sizeof[f] # 0
    /\ entry' = [entry EXCEPT ![w][f] = [gen |-> @.gen + 1, there |-> TRUE, size |-> sizeof[f]]]
    /\ unseen' = [unseen EXCEPT ![w] = @ \ {f}]
    /\ UNCHANGED <<sizeof, cached, snapshot, refresh, usage, looking, due, diskChanges, eventsSeen, refreshes, restarts>>

PackageIndex_remove(w, f) ==
    /\ f \in unseen[w] /\ sizeof[f] = 0
    /\ entry' = [entry EXCEPT ![w][f] = [@ EXCEPT !.there = FALSE, !.size = 0]]
    /\ unseen' = [unseen EXCEPT ![w] = @ \ {f}]
    /\ UNCHANGED <<sizeof, cached, snapshot, refresh, usage, looking, due, diskChanges, eventsSeen, refreshes, restarts>>

-----------------------------------------------------------------------------
(* Usage rows: a lookup and a write in one session, guarded only by the    *)
(* unique index.                                                           *)

\* _record_download, _record_upload: the event is put down to the name's counter.
_record(k, f) ==
    /\ eventsSeen < MaxEvents /\ eventsSeen' = eventsSeen + 1
    /\ looking' = [looking EXCEPT ![k][f.counter][usage[k][f.counter] > 0] = @ + 1]
    /\ UNCHANGED <<sizeof, unseen, entry, cached, snapshot, refresh, usage, due, diskChanges, refreshes, restarts>>

Writes(k, c, found) ==
    /\ looking[k][c][found] > 0 /\ looking' = [looking EXCEPT ![k][c][found] = @ - 1]
    /\ UNCHANGED <<sizeof, unseen, entry, cached, snapshot, refresh, diskChanges, eventsSeen, refreshes, restarts>>

_increment_sets_one(k, c, found) ==
    /\ Writes(k, c, found)
    /\ usage' = [usage EXCEPT ![k][c] = IF found THEN @ + 1 ELSE 1] /\ due' = [due EXCEPT ![k][c] = @ + 1]

\* An UPDATE in SQL when the row was found, an INSERT when not; an INSERT that
\* meets a row another request inserted is rolled back and its error swallowed.
_increment(k, c, found) ==
    /\ Writes(k, c, found)
    /\ \/ /\ found \/ usage[k][c] = 0
          /\ usage' = [usage EXCEPT ![k][c] = @ + 1] /\ due' = [due EXCEPT ![k][c] = @ + 1]
       \/ ~found /\ usage[k][c] > 0 /\ UNCHANGED <<usage, due>>

-----------------------------------------------------------------------------
(* compute, step by step, in a refresh.                                    *)

Reaches(r, pc) == refresh[r].pc = pc
Moves(r, new) == /\ refresh' = [refresh EXCEPT ![r] = new]
                 /\ UNCHANGED <<sizeof, unseen, usage, looking, due, diskChanges, eventsSeen, restarts>>

\* The index's snapshot: its lists are copied, its objects are shared.
get_snapshot(r) ==
    /\ Reaches(r, "idle") /\ refreshes < MaxRefreshes /\ refreshes' = refreshes + 1
    /\ LET taken == entry[Home[r]]
       IN  Moves(r, [pc |-> "sizes", taken |-> taken, todo |-> {f \in InIndex(taken) : taken[f].size = 0},
                     doc |-> [NoStats EXCEPT !.count = CountOf(taken), !.since = usage,
                                             !.held = Total(sizeof),
                                             !.met = IF unseen[Home[r]] = {} THEN {} ELSE {"disk"}]])
    /\ UNCHANGED <<entry, cached, snapshot>>

\* One file of those without a size: stat it, 0 when that fails, and write the
\* size to the object, which the index may have replaced since.
_fill_sizes(r, f) ==
    /\ Reaches(r, "sizes") /\ f \in refresh[r].todo
    /\ Moves(r, [refresh[r] EXCEPT !.taken[f].size = sizeof[f], !.todo = @ \ {f}])
    /\ LET w == Home[r]
       IN  entry' = IF entry[w][f].there /\ entry[w][f].gen = refresh[r].taken[f].gen
                    THEN [entry EXCEPT ![w][f].size = sizeof[f]] ELSE entry
    /\ UNCHANGED <<cached, snapshot, refreshes>>

\* The keys' totals; a database error fails the refresh, and nothing was stored.
_key_stats(r) ==
    /\ Reaches(r, "sizes") /\ refresh[r].todo = {}
    /\ Moves(r, [refresh[r] EXCEPT !.pc = "usage", !.doc.keys = KeyTotals, !.doc.ready = TRUE,
                                   !.doc.storage = Total([f \in Files |-> refresh[r].taken[f].size])])
    /\ UNCHANGED <<entry, cached, snapshot, refreshes>>

_refresh_fails(r) ==
    /\ Reaches(r, "sizes") /\ refresh[r].todo = {} /\ Moves(r, Resting) /\ UNCHANGED <<entry, cached, snapshot, refreshes>>

\* The packages' counts, in a query of its own; its errors are taken for no usage.
_aggregate_package_stats(r) ==
    /\ Reaches(r, "usage")
    /\ \/ Moves(r, [refresh[r] EXCEPT !.pc = "cache", !.doc.downloads = Downloads])
       \/ Moves(r, [refresh[r] EXCEPT !.pc = "cache", !.doc.downloads = NoCounts, !.doc.met = @ \cup {"blank"}])
    /\ UNCHANGED <<entry, cached, snapshot, refreshes>>

\* cache.set, with no expiry.
_refresh(r) ==
    /\ Reaches(r, "cache") /\ cached' = [cached EXCEPT ![Home[r]] = refresh[r].doc]
    /\ Moves(r, [refresh[r] EXCEPT !.pc = "save"]) /\ UNCHANGED <<entry, snapshot, refreshes>>

\* The file is replaced atomically; an error is logged and the old file stays.
save_snapshot(r) ==
    /\ Reaches(r, "save") /\ snapshot' \in {snapshot, refresh[r].doc}
    /\ Moves(r, Resting) /\ UNCHANGED <<entry, cached, refreshes>>

\* A worker starts: a full scan without sizes, the snapshot if it can be read.
load_snapshot(w) ==
    /\ restarts < MaxRestarts /\ restarts' = restarts + 1
    /\ entry' = [entry EXCEPT ![w] = [f \in Files |-> [gen |-> 0, there |-> sizeof[f] # 0, size |-> 0]]]
    /\ unseen' = [unseen EXCEPT ![w] = {}]
    /\ cached' = [cached EXCEPT ![w] = IF Usable(snapshot) THEN snapshot ELSE NoStats]
    /\ refresh' = [r \in Refreshers |-> IF Home[r] = w THEN Resting ELSE refresh[r]]
    /\ UNCHANGED <<sizeof, snapshot, usage, looking, due, diskChanges, eventsSeen, refreshes>>

\* The index alone, for a cold cache: no sizes, no usage.
compute_cheap(w) == [NoStats EXCEPT !.count = CountOf(entry[w]), !.met = {"cheap"}]

Shown(w) == IF cached[w] # NoStats THEN cached[w] ELSE compute_cheap(w)

\* GET /stats/overview: the document, or its cheap form, reduced to three figures.
overview(d) == [packages |-> Cardinality({p \in PackageNames : d.count[p] > 0}), files |-> Total(d.count),
                storage |-> d.storage, sizes_ready |-> d.ready]

stats_overview(w) == overview(Shown(w))

-----------------------------------------------------------------------------
StatsNext ==
    \/ \E f \in Files : \E s \in {0} \cup Sizes : DiskChanges(f, s)
    \/ \E w \in Processes : \E f \in Files : PackageIndex_add_or_update(w, f) \/ PackageIndex_remove(w, f)
    \/ \E k \in ApiKeys, f \in Files : _record(k, f)
    \/ \E k \in ApiKeys, c \in Counters, found \in BOOLEAN : _increment(k, c, found)
    \/ \E r \in Refreshers :
          \/ get_snapshot(r) \/ (\E f \in Files : _fill_sizes(r, f)) \/ _key_stats(r) \/ _refresh_fails(r)
          \/ _aggregate_package_stats(r) \/ _refresh(r) \/ save_snapshot(r)
    \/ \E w \in Processes : load_snapshot(w)

StatsSpec == StatsInit /\ [][StatsNext]_statsVars

-----------------------------------------------------------------------------
(* Properties.                                                             *)

Documents == {d \in {snapshot} \cup {cached[w] : w \in Processes} : Usable(d)}

\* The storage total is the disk's when nothing changed while it was computed: a
\* size kept from an earlier refresh, or written to an object the watcher has
\* replaced, is never that of other bytes.
SizesTrue == \A d \in Documents : d.met \cap {"disk"} = {} => d.storage = d.held

\* A document counts at least the usage there was when its refresh began, by key
\* and, unless the second query failed, by package; and never more than there is.
CountersTrue == \A d \in Documents :
    /\ \A k \in ApiKeys : Total(d.since[k]) <= d.keys[k] /\ d.keys[k] <= Total(usage[k])
    /\ \A p \in PackageNames \cap Counters :
          /\ d.downloads[p] <= Total([k \in ApiKeys |-> usage[k][p]])
          /\ "blank" \in d.met \/ Total([k \in ApiKeys |-> d.since[k][p]]) <= d.downloads[p]

\* No increment is lost once the counter has its row.
NoLostCount == \A k \in ApiKeys : \A c \in Counters : usage[k][c] = due[k][c]

\* What the counters' pages may be trusted with.
StatsTrue == SizesTrue /\ CountersTrue /\ NoLostCount

\* "so a restart right after this does not fall back to the pre-refresh numbers"
\* (routes/admin.py:64-65): what a forced refresh stored is not replaced by an
\* older document.
RefreshSticks == [][\A k \in ApiKeys : \A c \in Counters :
    Usable(snapshot) /\ Usable(snapshot') => snapshot.since[k][c] <= snapshot'.since[k][c]]_statsVars

\* "Downloads made with an API key are attributed to that key's usage counters"
\* (routes/pypi.py:126-127): every event is counted.
EveryEventCounted == looking = Away => Total([k \in ApiKeys |-> Total(usage[k])]) = eventsSeen
=============================================================================
