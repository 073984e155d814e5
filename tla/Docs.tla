-------------------------------- MODULE Docs --------------------------------
(***************************************************************************)
(* The document catalogue of backend/services/docs.py: rows for documents, *)
(* their revisions and their assets in the database, and bodies in the     *)
(* object store of backend/services/objectstore.py.  Rows and objects are  *)
(* not written together: a save puts its object, then commits its rows; a  *)
(* delete commits its rows, then removes the objects.                      *)
(*                                                                         *)
(* Request threads interleave between the statements of a request.  A      *)
(* flush and its commit are one step, because the row locks the flush      *)
(* takes are held until then.  A document has one asset name here.         *)
(***************************************************************************)
EXTENDS Naturals

CONSTANTS
    Editors,     \* request threads
    Slugs,       \* ecosystem + slug, the address of a document
    Ids,         \* document ids, never reused
    Keys,        \* object keys (uuid4), never reused
    MaxRev,      \* bound: revisions of a document
    MaxFaults,   \* bound: threads that die, commits that report a false error
    NoId, NoSlug, NoKey

ASSUME DocsAssumption ==
    /\ NoId \notin Ids /\ NoSlug \notin Slugs /\ NoKey \notin Keys
    /\ MaxRev \in Nat \ {0} /\ MaxFaults \in Nat

VARIABLES
    docs,      \* docs[i]: the documents row
    revs,      \* revs[i][n]: the object key of revision n of document i
    asset,     \* asset[i]: the document_assets row
    objects,   \* the keys the object store holds
    issued,    \* document ids and object keys given out
    origin,    \* origin[k]: the document and body a checked save k replaces
    view,      \* view[e]: what the page of e's editor shows
    pc,        \* pc[e]: where e is in its request
    tx,        \* tx[e]: what the request of e works on
    faults     \* crashes and lost commit answers so far

rowVars == <<docs, revs, asset>>
vars == <<docs, revs, asset, objects, issued, origin, view, pc, tx, faults>>

NoDoc == [slug |-> NoSlug, rev |-> 0, key |-> NoKey]
NoAsset == [row |-> NoKey, key |-> NoKey]
NoOrigin == [id |-> NoId, key |-> NoKey]
NoView == [id |-> NoId, slug |-> NoSlug, rev |-> 0, key |-> NoKey]
NoTx == [id |-> NoId, slug |-> NoSlug, rev |-> 0, new |-> FALSE, key |-> NoKey,
         from |-> NoOrigin, old |-> NoAsset, keys |-> {}]
NoRevs == [n \in 1..MaxRev |-> NoKey]

AnyId == Ids \cup {NoId}
AnyKey == Keys \cup {NoKey}
AnySlug == Slugs \cup {NoSlug}
Origin == [id : AnyId, key : AnyKey]
Asset == [row : AnyKey, key : AnyKey]
Saving == {"put", "commit"}

TypeOK ==
    /\ docs \in [Ids -> [slug : AnySlug, rev : 0..MaxRev, key : AnyKey]]
    /\ revs \in [Ids -> [1..MaxRev -> AnyKey]]
    /\ asset \in [Ids -> Asset]
    /\ objects \subseteq issued.keys
    /\ issued \in [ids : SUBSET Ids, keys : SUBSET Keys]
    /\ origin \in [Keys -> Origin]
    /\ view \in [Editors -> [id : AnyId, slug : AnySlug, rev : 0..MaxRev, key : AnyKey]]
    /\ pc \in [Editors -> Saving \cup {"idle", "read", "cleanup", "delete", "sweep",
                 "assetRead", "assetCommit", "assetDelete", "supersede"}]
    /\ tx \in [Editors -> [id : AnyId, slug : AnySlug, rev : 0..MaxRev, new : BOOLEAN,
                           key : AnyKey, from : Origin, old : Asset, keys : SUBSET Keys]]
    /\ faults \in [crashes : 0..MaxFaults, acks : 0..MaxFaults]

-----------------------------------------------------------------------------
Exists(i) == docs[i].slug # NoSlug
At(s) == {i \in Ids : docs[i].slug = s}

\* A save that inserts a document holds its slug until it commits.
Inserting(s) == \E e \in Editors : pc[e] \in Saving /\ tx[e].new /\ tx[e].slug = s

\* _document_keys
KeysOf(i) == ({revs[i][n] : n \in 1..MaxRev} \cup {asset[i].key}) \ {NoKey}

Goto(e, p) == pc' = [pc EXCEPT ![e] = p]
Work(e, x) == tx' = [tx EXCEPT ![e] = x]
Done(e) == Goto(e, "idle") /\ Work(e, NoTx)

Init ==
    /\ docs = [i \in Ids |-> NoDoc]
    /\ revs = [i \in Ids |-> NoRevs]
    /\ asset = [i \in Ids |-> NoAsset]
    /\ objects = {}
    /\ issued = [ids |-> {}, keys |-> {}]
    /\ origin = [k \in Keys |-> NoOrigin]
    /\ view = [e \in Editors |-> NoView]
    /\ pc = [e \in Editors |-> "idle"]
    /\ tx = [e \in Editors |-> NoTx]
    /\ faults = [crashes |-> 0, acks |-> 0]

-----------------------------------------------------------------------------
(* Reading.                                                                *)

\* Mutation of Load: the page shows the revision its save will have.
LoadOffByOne(e, i) ==
    /\ pc[e] = "idle"
    /\ Exists(i)
    /\ view' = [view EXCEPT ![e] = [id |-> i, slug |-> docs[i].slug, rev |-> docs[i].rev + 1,
                                    key |-> docs[i].key]]
    /\ UNCHANGED <<rowVars, objects, issued, origin, pc, tx, faults>>

\* The editor's page loads a document: its revision and its body.
Load(e, i) ==
    /\ pc[e] = "idle"
    /\ Exists(i)
    /\ view' = [view EXCEPT ![e] = [id |-> i, slug |-> docs[i].slug, rev |-> docs[i].rev,
                                    key |-> docs[i].key]]
    /\ UNCHANGED <<rowVars, objects, issued, origin, pc, tx, faults>>

\* open_body reads a row, current or historical, and then opens its object.
OpenBody(e, i) ==
    /\ pc[e] = "idle"
    /\ Exists(i)
    /\ \E n \in 1..docs[i].rev : Work(e, [NoTx EXCEPT !.id = i, !.key = revs[i][n]])
    /\ Goto(e, "read")
    /\ UNCHANGED <<rowVars, objects, issued, origin, view, faults>>

ReadBody(e) ==
    /\ pc[e] = "read"
    /\ Done(e)
    /\ UNCHANGED <<rowVars, objects, issued, origin, view, faults>>

-----------------------------------------------------------------------------
(* Saving a body.                                                          *)

\* Mutation of SaveChecked: the revision the editor sent is not compared.
SaveUnchecked(e) ==
    /\ pc[e] = "idle"
    /\ \E i \in At(view[e].slug) :
         /\ Exists(i)
         /\ docs[i].rev < MaxRev
         /\ Work(e, [NoTx EXCEPT !.id = i, !.slug = docs[i].slug, !.rev = docs[i].rev + 1,
                                 !.from = [id |-> view[e].id, key |-> view[e].key]])
    /\ Goto(e, "put")
    /\ UNCHANGED <<rowVars, objects, issued, origin, view, faults>>

\* save_content with a revision: the row is found by its slug, and the save
\* goes on when the row has the revision the editor loaded.
SaveChecked(e) ==
    /\ pc[e] = "idle"
    /\ \E i \in At(view[e].slug) :
         /\ Exists(i)
         /\ docs[i].rev = view[e].rev
         /\ docs[i].rev < MaxRev
         /\ Work(e, [NoTx EXCEPT !.id = i, !.slug = docs[i].slug, !.rev = docs[i].rev + 1,
                                 !.from = [id |-> view[e].id, key |-> view[e].key]])
    /\ Goto(e, "put")
    /\ UNCHANGED <<rowVars, objects, issued, origin, view, faults>>

\* save_content without a revision, save_document and the import of a tree
\* replace the body of a document that exists.
Replace(e, s) ==
    /\ pc[e] = "idle"
    /\ \E i \in At(s) :
         /\ docs[i].rev < MaxRev
         /\ Work(e, [NoTx EXCEPT !.id = i, !.slug = s, !.rev = docs[i].rev + 1])
    /\ Goto(e, "put")
    /\ UNCHANGED <<rowVars, objects, issued, origin, view, faults>>

\* Mutation of Create: no unique constraint on the slug.
CreateTwice(e, s) ==
    /\ pc[e] = "idle"
    /\ At(s) = {}
    /\ \E i \in Ids \ issued.ids :
         /\ issued' = [issued EXCEPT !.ids = @ \cup {i}]
         /\ Work(e, [NoTx EXCEPT !.id = i, !.slug = s, !.rev = 1, !.new = TRUE])
    /\ Goto(e, "put")
    /\ UNCHANGED <<rowVars, objects, origin, view, faults>>

\* save_document and the import insert a document that does not exist: the
\* flush takes the slug, or waits for the insert that has it and then fails.
Create(e, s) ==
    /\ pc[e] = "idle"
    /\ At(s) = {}
    /\ ~Inserting(s)
    /\ \E i \in Ids \ issued.ids :
         /\ issued' = [issued EXCEPT !.ids = @ \cup {i}]
         /\ Work(e, [NoTx EXCEPT !.id = i, !.slug = s, !.rev = 1, !.new = TRUE])
    /\ Goto(e, "put")
    /\ UNCHANGED <<rowVars, objects, origin, view, faults>>

\* _store_revision: the object first; a store that cannot take it ends the
\* request.
PutBody(e) ==
    /\ pc[e] = "put"
    /\ \/ /\ \E k \in Keys \ issued.keys :
               /\ objects' = objects \cup {k}
               /\ issued' = [issued EXCEPT !.keys = @ \cup {k}]
               /\ tx' = [tx EXCEPT ![e].key = k]
          /\ Goto(e, "commit")
       \/ /\ Done(e)
          /\ UNCHANGED <<objects, issued>>
    /\ UNCHANGED <<rowVars, origin, view, faults>>

\* The UPDATE finds its row and the revision number is free.
Commits(e) == tx[e].new \/ (Exists(tx[e].id) /\ revs[tx[e].id][tx[e].rev] = NoKey)

\* Mutation of WriteRevision: the row is updated, the revision is not added.
WriteRowOnly(e) ==
    LET x == tx[e]
    IN  /\ docs' = [docs EXCEPT ![x.id] = [slug |-> x.slug, rev |-> x.rev, key |-> x.key]]
        /\ origin' = [origin EXCEPT ![x.key] = x.from]
        /\ UNCHANGED revs

\* The row's new state and its new revision.
WriteRevision(e) ==
    LET x == tx[e]
    IN  /\ docs' = [docs EXCEPT ![x.id] = [slug |-> x.slug, rev |-> x.rev, key |-> x.key]]
        /\ revs' = [revs EXCEPT ![x.id][x.rev] = x.key]
        /\ origin' = [origin EXCEPT ![x.key] = x.from]

\* Mutation of CommitBody: no unique constraint on (document, revision).
CommitBodyAnyway(e) ==
    /\ pc[e] = "commit"
    /\ \/ /\ tx[e].new \/ Exists(tx[e].id)
          /\ WriteRevision(e)
          /\ Done(e)
       \/ /\ Goto(e, "cleanup")
          /\ UNCHANGED <<docs, revs, origin, tx>>
    /\ UNCHANGED <<asset, objects, issued, view, faults>>

\* The commit of the rows; whatever it raises, the transaction is rolled back
\* and the object is to be removed.
CommitBody(e) ==
    /\ pc[e] = "commit"
    /\ \/ /\ Commits(e)
          /\ WriteRevision(e)
          /\ Done(e)
       \/ /\ Goto(e, "cleanup")
          /\ UNCHANGED <<docs, revs, origin, tx>>
    /\ UNCHANGED <<asset, objects, issued, view, faults>>

\* The commit takes effect and its answer is lost: session.commit() raises.
CommitBodyUnknown(e) ==
    /\ pc[e] = "commit"
    /\ faults.crashes + faults.acks < MaxFaults
    /\ faults' = [faults EXCEPT !.acks = @ + 1]
    /\ Commits(e)
    /\ WriteRevision(e)
    /\ Goto(e, "cleanup")
    /\ UNCHANGED <<asset, objects, issued, view, tx>>

\* Mutation of Cleanup: after the rollback row.storage_key is the old body.
CleanupCurrent(e) ==
    /\ pc[e] = "cleanup"
    /\ objects' \in {objects, objects \ {docs[tx[e].id].key}}
    /\ Done(e)
    /\ UNCHANGED <<rowVars, issued, origin, view, faults>>

\* store.delete(key), whose failure is ignored.
Cleanup(e) ==
    /\ pc[e] = "cleanup"
    /\ objects' \in {objects, objects \ {tx[e].key}}
    /\ Done(e)
    /\ UNCHANGED <<rowVars, issued, origin, view, faults>>

-----------------------------------------------------------------------------
(* Deleting a document.                                                    *)

DeleteRead(e, i) ==
    /\ pc[e] = "idle"
    /\ Exists(i)
    /\ Work(e, [NoTx EXCEPT !.id = i, !.keys = KeysOf(i)])
    /\ Goto(e, "delete")
    /\ UNCHANGED <<rowVars, objects, issued, origin, view, faults>>

\* Mutation of DeleteCommit: the objects go before the rows.
DeleteObjectsFirst(e) ==
    /\ pc[e] = "delete"
    /\ objects' = objects \ tx[e].keys
    /\ Goto(e, "sweep")
    /\ UNCHANGED <<rowVars, issued, origin, view, tx, faults>>

\* Rows first: revisions and assets go with the document (ON DELETE CASCADE).
\* A document that is gone by now is only warned about.
DeleteCommit(e) ==
    LET i == tx[e].id
    IN  /\ pc[e] = "delete"
        /\ docs' = [docs EXCEPT ![i] = NoDoc]
        /\ revs' = [revs EXCEPT ![i] = NoRevs]
        /\ asset' = [asset EXCEPT ![i] = NoAsset]
        /\ Goto(e, "sweep")
        /\ UNCHANGED <<objects, issued, origin, view, tx, faults>>

\* delete_many, which may stop half way.
Sweep(e) ==
    /\ pc[e] = "sweep"
    /\ \E gone \in SUBSET tx[e].keys : objects' = objects \ gone
    /\ Done(e)
    /\ UNCHANGED <<rowVars, issued, origin, view, faults>>

-----------------------------------------------------------------------------
(* Assets.                                                                 *)

\* save_asset: find the document and put the object ...
AssetPut(e, i) ==
    /\ pc[e] = "idle"
    /\ Exists(i)
    /\ \E k \in Keys \ issued.keys :
         /\ objects' = objects \cup {k}
         /\ issued' = [issued EXCEPT !.keys = @ \cup {k}]
         /\ Work(e, [NoTx EXCEPT !.id = i, !.key = k])
    /\ Goto(e, "assetRead")
    /\ UNCHANGED <<rowVars, origin, view, faults>>

\* ... read the asset row ...
AssetRead(e) ==
    /\ pc[e] = "assetRead"
    /\ tx' = [tx EXCEPT ![e].old = asset[tx[e].id]]
    /\ Goto(e, "assetCommit")
    /\ UNCHANGED <<rowVars, objects, issued, origin, view, faults>>

\* A new row needs its document and a free name; an old one must be there.
AssetCommits(e) ==
    IF tx[e].old = NoAsset
    THEN Exists(tx[e].id) /\ asset[tx[e].id] = NoAsset
    ELSE asset[tx[e].id].row = tx[e].old.row

\* ... and insert or update it by its primary key.
AssetCommit(e) ==
    LET x == tx[e]
    IN  /\ pc[e] = "assetCommit"
        /\ \/ /\ AssetCommits(e)
              /\ asset' = [asset EXCEPT ![x.id] =
                             [row |-> IF x.old = NoAsset THEN x.key ELSE x.old.row,
                              key |-> x.key]]
              /\ Goto(e, "supersede")
           \/ /\ Goto(e, "cleanup")
              /\ UNCHANGED asset
        /\ UNCHANGED <<docs, revs, objects, issued, origin, view, tx, faults>>

AssetDeleteRead(e, i) ==
    /\ pc[e] = "idle"
    /\ Exists(i)
    /\ asset[i] # NoAsset
    /\ Work(e, [NoTx EXCEPT !.id = i, !.old = asset[i]])
    /\ Goto(e, "assetDelete")
    /\ UNCHANGED <<rowVars, objects, issued, origin, view, faults>>

AssetDeleteCommit(e) ==
    LET i == tx[e].id
    IN  /\ pc[e] = "assetDelete"
        /\ asset' = IF asset[i].row = tx[e].old.row
                    THEN [asset EXCEPT ![i] = NoAsset]
                    ELSE asset
        /\ Goto(e, "supersede")
        /\ UNCHANGED <<docs, revs, objects, issued, origin, view, tx, faults>>

\* Mutation of Supersede: the key is read from the row after the commit.
SupersedeCurrent(e) ==
    /\ pc[e] = "supersede"
    /\ objects' \in {objects, objects \ {asset[tx[e].id].key}}
    /\ Done(e)
    /\ UNCHANGED <<rowVars, issued, origin, view, faults>>

\* The object the row named before, best effort.
Supersede(e) ==
    /\ pc[e] = "supersede"
    /\ objects' \in {objects, objects \ {tx[e].old.key}}
    /\ Done(e)
    /\ UNCHANGED <<rowVars, issued, origin, view, faults>>

-----------------------------------------------------------------------------
\* A thread dies with its process: its transaction rolls back.
Crash(e) ==
    /\ pc[e] # "idle"
    /\ faults.crashes + faults.acks < MaxFaults
    /\ faults' = [faults EXCEPT !.crashes = @ + 1]
    /\ Done(e)
    /\ UNCHANGED <<rowVars, objects, issued, origin, view>>

Save(e) ==
    \/ SaveChecked(e) \/ PutBody(e) \/ CommitBody(e) \/ CommitBodyUnknown(e) \/ Cleanup(e)
    \/ \E s \in Slugs : Replace(e, s) \/ Create(e, s)

Remove(e) ==
    \/ DeleteCommit(e) \/ Sweep(e)
    \/ \E i \in Ids : DeleteRead(e, i)

Attach(e) ==
    \/ AssetRead(e) \/ AssetCommit(e) \/ AssetDeleteCommit(e) \/ Supersede(e)
    \/ \E i \in Ids : AssetPut(e, i) \/ AssetDeleteRead(e, i)

Read(e) == ReadBody(e) \/ \E i \in Ids : Load(e, i) \/ OpenBody(e, i)

Next == \E e \in Editors : Save(e) \/ Remove(e) \/ Attach(e) \/ Read(e) \/ Crash(e)

Spec == Init /\ [][Next]_vars

-----------------------------------------------------------------------------
(* Safety.                                                                 *)

\* The order of puts and commits "cannot lose data": whatever threads, crashes
\* and failing deletes leave behind, no row names bytes that do not exist, as
\* long as every commit reports its true outcome.
NoDangling ==
    faults.acks = 0 =>
        \A i \in Ids : KeysOf(i) \cup ({docs[i].key} \ {NoKey}) \subseteq objects

\* The revisions of a document are 1, 2, ..., its current one, without a gap,
\* and the row shows the last: no two saves share a revision number.
HistoryComplete ==
    \A i \in Ids :
        /\ \A n \in 1..MaxRev : revs[i][n] # NoKey <=> n <= docs[i].rev
        /\ Exists(i) => docs[i].rev > 0 /\ docs[i].key = revs[i][docs[i].rev]

\* "The previous body is never overwritten": a revision keeps its object until
\* the whole document is deleted.
RevisionsImmutable ==
    [][\A i \in Ids, n \in 1..MaxRev :
         revs[i][n] # NoKey => (revs'[i][n] = revs[i][n] \/ docs'[i] = NoDoc)]_vars

\* No lost update: a save that carried the revision its editor loaded from
\* this document directly follows the body that editor saw, although the row
\* is read long before it is written and is not locked in between.
NoLostUpdate ==
    \A i \in Ids, n \in 1..MaxRev :
        /\ revs[i][n] # NoKey
        /\ origin[revs[i][n]].id = i
        => n > 1 /\ origin[revs[i][n]].key = revs[i][n - 1]

\* A slug addresses at most one document, whatever creates race.
SlugUnique == \A i, j \in Ids : Exists(i) /\ docs[i].slug = docs[j].slug => i = j

\* A reader that found a revision's row opens its bytes, unless the document
\* itself was deleted meanwhile: saves, failed saves and asset uploads never
\* pull a body from under a reader, as long as every commit reports its
\* true outcome.
ReaderFinds ==
    faults.acks = 0 =>
        \A e \in Editors : pc[e] = "read" /\ Exists(tx[e].id) => tx[e].key \in objects

\* What the rows name is there, for whoever looks it up: a slug names one
\* document, a row names bytes that exist, and a reader who found it opens them.
RowsServed == TypeOK /\ SlugUnique /\ NoDangling /\ ReaderFinds

-----------------------------------------------------------------------------
(* What the docstrings promise and the code does not keep.                 *)

\* save_content: "a save whose base is stale is refused": the body it replaces
\* is the one the editor loaded.
StaleSaveRefused ==
    \A i \in Ids, n \in 1..MaxRev :
        /\ revs[i][n] # NoKey
        /\ origin[revs[i][n]] # NoOrigin
        => n > 1 /\ origin[revs[i][n]].key = revs[i][n - 1]
=============================================================================
