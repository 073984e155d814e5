----------------------------- MODULE DocsProofs -----------------------------
(***************************************************************************)
(* Proofs about the document catalogue.  The argument is about ownership:  *)
(* an object key is with the request that put it until one commit gives it *)
(* to one row, and what a request is going to remove is never a key some   *)
(* row still needs; a document id is with the request that inserts it      *)
(* until that commits, and never comes back after a delete.                *)
(*                                                                         *)
(* Proofs about the page's editor: what the page was given of a document   *)
(* is behind the store or the same text, as long as the document was not   *)
(* created anew; the newest preview asked for is of the buffer as it is.   *)
(*                                                                         *)
(* Proofs about the console's other pages: a pane shows what it last asked *)
(* for, or that request is still under way and is the newest of its kind.  *)
(***************************************************************************)
EXTENDS Docs, DocConsole, Console, TLAPS

\* Some row of document i names the object k.
Names(i, k) == k \in Keys /\ (asset[i].key = k \/ \E n \in 1..MaxRev : revs[i][n] = k)

\* An absent document has no rows at all, a present one has an id given out.
Rows ==
    \A i \in Ids :
        /\ ~Exists(i) => docs[i] = NoDoc /\ revs[i] = NoRevs /\ asset[i] = NoAsset
        /\ Exists(i) => i \in issued.ids
        /\ asset[i] = NoAsset \/ (asset[i].row \in Keys /\ asset[i].key \in Keys)

\* A key is named by one document, and there by a revision or by the asset.
Placed ==
    /\ \A i \in Ids, k \in Keys : Names(i, k) => k \in issued.keys
    /\ \A i, j \in Ids, k \in Keys : Names(i, k) /\ Names(j, k) => i = j
    /\ \A i \in Ids, n \in 1..MaxRev : revs[i][n] # NoKey => asset[i].key # revs[i][n]

\* What requests and pages work on has been given out.
Requests ==
    \A e \in Editors :
        /\ tx[e].id # NoId => tx[e].id \in issued.ids
        /\ view[e].id # NoId => view[e].id \in issued.ids
        /\ pc[e] # "idle" => tx[e].id # NoId
        /\ tx[e].key # NoKey => tx[e].key \in issued.keys
        /\ tx[e].old.key # NoKey => tx[e].old.key \in issued.keys
        /\ tx[e].keys \subseteq issued.keys
        /\ tx[e].old = NoAsset \/ (tx[e].old.row \in Keys /\ tx[e].old.key \in Keys)
        /\ pc[e] \in Saving => tx[e].slug # NoSlug /\ tx[e].rev > 0
        /\ tx[e].new => tx[e].rev = 1 /\ tx[e].from.id = NoId

\* An id and a slug belong to the request that inserts them.
Inserts ==
    \A e \in Editors : pc[e] \in Saving /\ tx[e].new =>
        /\ ~Exists(tx[e].id)
        /\ \A i \in Ids : docs[i].slug # tx[e].slug
        /\ \A f \in Editors : view[f].id # tx[e].id
        /\ \A f \in Editors : f # e =>
             /\ tx[f].id # tx[e].id
             /\ ~(pc[f] \in Saving /\ tx[f].new /\ tx[f].slug = tx[e].slug)

\* A save of a document that is still there: its number is at most the next
\* one, and below it is the body its editor saw.
Updates ==
    \A e \in Editors : pc[e] \in Saving /\ ~tx[e].new /\ Exists(tx[e].id) =>
        /\ tx[e].slug = docs[tx[e].id].slug
        /\ tx[e].rev <= docs[tx[e].id].rev + 1
        /\ tx[e].from.id = tx[e].id =>
             tx[e].rev > 1 /\ tx[e].from.key = revs[tx[e].id][tx[e].rev - 1]

\* The page of an editor shows a revision that is still in the table.
Views ==
    \A e \in Editors : view[e].id # NoId /\ Exists(view[e].id) =>
        /\ view[e].rev > 0
        /\ view[e].rev <= docs[view[e].id].rev
        /\ view[e].key = revs[view[e].id][view[e].rev]

\* A reader's key is one of the revisions of its document.
Readers ==
    \A e \in Editors : pc[e] = "read" /\ Exists(tx[e].id) =>
        /\ tx[e].key # NoKey
        /\ \E n \in 1..MaxRev : revs[tx[e].id][n] = tx[e].key

\* The object a request has put and not yet committed is stored, and nobody
\* else knows its key.
Holding == {"commit", "assetRead", "assetCommit"}
Held ==
    \A e \in Editors : pc[e] \in Holding =>
        /\ tx[e].key \in objects
        /\ \A i \in Ids : ~Names(i, tx[e].key)
        /\ \A f \in Editors :
             /\ f # e => tx[f].key # tx[e].key
             /\ tx[f].old.key # tx[e].key
             /\ tx[e].key \notin tx[f].keys

\* What a request is about to remove is named by no row, or only by the one
\* its own commit takes away.
Doomed ==
    \A e \in Editors :
        /\ pc[e] = "cleanup" /\ faults.acks = 0 => \A i \in Ids : ~Names(i, tx[e].key)
        /\ pc[e] = "supersede" => \A i \in Ids : ~Names(i, tx[e].old.key)
        /\ pc[e] = "sweep" => \A i \in Ids, k \in tx[e].keys : ~Names(i, k)
        /\ pc[e] = "delete" => \A i \in Ids, k \in tx[e].keys : Names(i, k) => i = tx[e].id
        /\ pc[e] \in {"assetCommit", "assetDelete"} =>
             \A i \in Ids : Names(i, tx[e].old.key) =>
                 i = tx[e].id /\ asset[i].key = tx[e].old.key /\ asset[i].row = tx[e].old.row
        /\ pc[e] \in {"assetCommit", "assetDelete"} =>
             \A n \in 1..MaxRev : revs[tx[e].id][n] # NoKey => revs[tx[e].id][n] # tx[e].old.key

\* What a row names is stored.
Bytes == faults.acks = 0 => \A i \in Ids, k \in Keys : Names(i, k) => k \in objects

IInv ==
    /\ TypeOK /\ Rows /\ HistoryComplete /\ Placed /\ Requests /\ Inserts /\ Updates /\ Views
    /\ Readers /\ Held /\ Doomed /\ Bytes /\ SlugUnique /\ NoLostUpdate

-----------------------------------------------------------------------------
(* Frames.                                                                 *)

\* The values that stand for nothing have their types.
LEMMA NoneTypes ==
    /\ NoDoc \in [slug : AnySlug, rev : 0..MaxRev, key : AnyKey]
    /\ NoRevs \in [1..MaxRev -> AnyKey]
    /\ NoAsset \in Asset /\ NoOrigin \in Origin
    /\ NoTx \in [id : AnyId, slug : AnySlug, rev : 0..MaxRev, new : BOOLEAN,
                 key : AnyKey, from : Origin, old : Asset, keys : SUBSET Keys]
BY DocsAssumption DEF NoDoc, NoRevs, NoAsset, NoOrigin, NoTx, AnySlug, AnyKey, AnyId, Asset, Origin

\* A request ends: its thread forgets everything, the rows stay, and what is
\* removed from the store is neither named by a row nor put by a running save.
LEMMA Finish ==
    ASSUME IInv, NEW e \in Editors, Done(e),
           UNCHANGED <<rowVars, issued, origin, view>>,
           faults' \in [crashes : 0..MaxFaults, acks : 0..MaxFaults], faults'.acks = faults.acks,
           objects' \subseteq objects,
           \A k \in objects \ objects' :
               /\ faults.acks = 0 => \A i \in Ids : ~Names(i, k)
               /\ \A f \in Editors : f # e /\ pc[f] \in Holding => tx[f].key # k
    PROVE  IInv'
<1> USE DEF IInv
<1>1. /\ tx'[e] = NoTx /\ pc'[e] = "idle"
      /\ \A f \in Editors : f # e => tx'[f] = tx[f] /\ pc'[f] = pc[f]
  BY DEF Done, Goto, Work, TypeOK
<1>2. \A i \in Ids : (Exists(i)' <=> Exists(i)) /\ \A k : (Names(i, k)' <=> Names(i, k))
  BY DEF Exists, Names, rowVars
<1>3. TypeOK'
  BY NoneTypes DEF TypeOK, Done, Goto, Work, rowVars
<1>4. Rows' /\ HistoryComplete' /\ Placed' /\ SlugUnique' /\ NoLostUpdate'
  BY <1>2 DEF Rows, HistoryComplete, Placed, SlugUnique, NoLostUpdate, rowVars, Exists, Names
<1>5. Requests'
  BY <1>1, DocsAssumption DEF Requests, NoTx, NoAsset, NoOrigin, Saving
<1>6. Inserts'
  BY <1>1 DEF Inserts, NoTx, Saving, rowVars, Requests, Exists
<1>7. Updates'
  BY <1>1 DEF Updates, NoTx, Saving, rowVars, Exists
<1>8. Views' /\ Readers'
  BY <1>1 DEF Views, Readers, NoTx, rowVars, Exists
<1>9. Held'
  <2> SUFFICES ASSUME NEW f \in Editors, pc'[f] \in Holding
               PROVE  /\ tx'[f].key \in objects'
                      /\ \A i \in Ids : ~Names(i, tx[f].key)'
                      /\ \A g \in Editors :
                           /\ g # f => tx'[g].key # tx'[f].key
                           /\ tx'[g].old.key # tx'[f].key
                           /\ tx'[f].key \notin tx'[g].keys
    BY DEF Held, Holding
  <2>1. f # e /\ tx'[f] = tx[f] /\ pc[f] \in Holding
    BY <1>1 DEF Holding
  <2>2. tx[f].key \in objects'
    BY <2>1 DEF Held
  <2>3. tx[f].key # NoKey
    BY <2>2, DocsAssumption DEF TypeOK
  <2>4. \A g \in Editors : tx'[g] = NoTx \/ tx'[g] = tx[g]
    BY <1>1
  <2>5. \A i \in Ids : ~Names(i, tx[f].key)'
    BY <1>2, <2>1 DEF Held
  <2>6. NoTx.key = NoKey /\ NoTx.old.key = NoKey /\ NoTx.keys = {}
    BY DEF NoTx, NoAsset
  <2>7. QED BY <2>1, <2>2, <2>3, <2>4, <2>5, <2>6 DEF Held
<1>10. Doomed'
  BY <1>1, <1>2 DEF Doomed, NoTx, rowVars
<1>11. Bytes'
  BY <1>2 DEF Bytes
<1>12. QED BY <1>3, <1>4, <1>5, <1>6, <1>7, <1>8, <1>9, <1>10, <1>11

Pcs == Saving \cup {"idle", "read", "cleanup", "delete", "sweep", "assetRead", "assetCommit",
                    "assetDelete", "supersede"}
Txs == [id : AnyId, slug : AnySlug, rev : 0..MaxRev, new : BOOLEAN, key : AnyKey,
        from : Origin, old : Asset, keys : SUBSET Keys]

\* While the rows stay, so does everything that is said of rows alone.
LEMMA RowsStay ==
    ASSUME IInv, UNCHANGED <<rowVars, origin>>,
           issued.ids \subseteq issued'.ids, issued.keys \subseteq issued'.keys
    PROVE  /\ Rows' /\ HistoryComplete' /\ Placed' /\ SlugUnique' /\ NoLostUpdate'
           /\ \A i \in Ids : Exists(i)' <=> Exists(i)
           /\ \A i \in Ids : \A k : Names(i, k)' <=> Names(i, k)
BY DEF IInv, Rows, HistoryComplete, Placed, SlugUnique, NoLostUpdate, rowVars, Exists, Names

\* The key of a revision is a key or none.
LEMMA RevTypes ==
    ASSUME TypeOK, NEW i \in Ids
    PROVE  /\ \A n \in 1..MaxRev : revs[i][n] \in AnyKey
           /\ asset[i] \in Asset /\ asset[i].key \in AnyKey /\ asset[i].row \in AnyKey
           /\ docs[i] \in [slug : AnySlug, rev : 0..MaxRev, key : AnyKey]
<1>1. revs[i] \in [1..MaxRev -> AnyKey] /\ asset[i] \in Asset
  BY DEF TypeOK
<1>2. docs[i] \in [slug : AnySlug, rev : 0..MaxRev, key : AnyKey]
  BY DEF TypeOK
<1>3. QED BY <1>1, <1>2 DEF Asset

\* _document_keys: the keys the rows of a document name.
LEMMA KeysNamed ==
    ASSUME TypeOK, NEW i \in Ids
    PROVE  \A k : k \in KeysOf(i) <=> Names(i, k)
<1>1. QED BY RevTypes, DocsAssumption DEF KeysOf, Names, AnyKey

\* A request begins with what it read from the rows: no key that is with a
\* running save becomes known to it.
LEMMA Begin ==
    ASSUME IInv, NEW e \in Editors, NEW x \in Txs, NEW p \in Pcs \ Holding,
           Goto(e, p), Work(e, x),
           UNCHANGED <<rowVars, objects, origin, view, faults>>,
           issued' \in [ids : SUBSET Ids, keys : SUBSET Keys],
           issued.ids \subseteq issued'.ids, issued'.keys = issued.keys,
           x.key = NoKey \/ \E i \in Ids : Names(i, x.key),
           x.old.key = NoKey \/ \E i \in Ids : Names(i, x.old.key),
           \A k \in x.keys : \E i \in Ids : Names(i, k),
           x.id \in issued'.ids,
           x.old = NoAsset \/ (x.old.row \in Keys /\ x.old.key \in Keys),
           p \in Saving => x.slug # NoSlug /\ x.rev > 0,
           x.new => x.rev = 1 /\ x.from.id = NoId
    PROVE  /\ TypeOK' /\ Rows' /\ HistoryComplete' /\ Placed' /\ SlugUnique' /\ NoLostUpdate'
           /\ Requests' /\ Views' /\ Held' /\ Bytes'
           /\ tx'[e] = x /\ pc'[e] = p
           /\ \A f \in Editors : f # e => tx'[f] = tx[f] /\ pc'[f] = pc[f]
<1> USE DEF IInv
<1>1. /\ tx'[e] = x /\ pc'[e] = p
      /\ \A f \in Editors : f # e => tx'[f] = tx[f] /\ pc'[f] = pc[f]
  BY DEF Goto, Work, TypeOK
<1>2. TypeOK'
  BY DEF TypeOK, Goto, Work, rowVars, Txs, Pcs
<1>3. /\ Rows' /\ HistoryComplete' /\ Placed' /\ SlugUnique' /\ NoLostUpdate'
      /\ \A i \in Ids : Exists(i)' <=> Exists(i)
      /\ \A i \in Ids : \A k : Names(i, k)' <=> Names(i, k)
  BY RowsStay
<1>4. Views'
  BY DEF Views, rowVars, Exists
<1>5. Bytes'
  BY <1>3 DEF Bytes
<1>6. Held'
  <2> SUFFICES ASSUME NEW f \in Editors, pc'[f] \in Holding
               PROVE  /\ tx'[f].key \in objects'
                      /\ \A i \in Ids : ~Names(i, tx[f].key)'
                      /\ \A g \in Editors :
                           /\ g # f => tx'[g].key # tx'[f].key
                           /\ tx'[g].old.key # tx'[f].key
                           /\ tx'[f].key \notin tx'[g].keys
    BY DEF Held, Holding
  <2>1. f # e /\ tx'[f] = tx[f] /\ pc[f] \in Holding
    BY <1>1
  <2>2. tx[f].key \in objects /\ \A i \in Ids : ~Names(i, tx[f].key)
    BY <2>1 DEF Held
  <2>3. tx[f].key # NoKey
    BY <2>2, DocsAssumption DEF TypeOK
  <2>4. x.key # tx[f].key /\ x.old.key # tx[f].key /\ tx[f].key \notin x.keys
    BY <2>2, <2>3
  <2>5. \A i \in Ids : ~Names(i, tx[f].key)'
    BY <1>3, <2>1, <2>2
  <2>6. \A g \in Editors : tx'[g] = x \/ tx'[g] = tx[g]
    BY <1>1
  <2>7. QED BY <2>1, <2>2, <2>4, <2>5, <2>6 DEF Held
<1>7. Requests'
  <2> SUFFICES ASSUME NEW f \in Editors
               PROVE  /\ tx'[f].id # NoId => tx'[f].id \in issued'.ids
                      /\ view'[f].id # NoId => view'[f].id \in issued'.ids
                      /\ pc'[f] # "idle" => tx'[f].id # NoId
                      /\ tx'[f].key # NoKey => tx'[f].key \in issued'.keys
                      /\ tx'[f].old.key # NoKey => tx'[f].old.key \in issued'.keys
                      /\ tx'[f].keys \subseteq issued'.keys
                      /\ tx'[f].old = NoAsset
                           \/ (tx'[f].old.row \in Keys /\ tx'[f].old.key \in Keys)
                      /\ pc'[f] \in Saving => tx'[f].slug # NoSlug /\ tx'[f].rev > 0
                      /\ tx'[f].new => tx'[f].rev = 1 /\ tx'[f].from.id = NoId
    BY DEF Requests, Saving
  <2>1. CASE f = e
    <3>1. \A k, i : i \in Ids /\ Names(i, k) => k \in issued'.keys
      BY DEF Placed, Names
    <3> QED BY <1>1, <2>1, <3>1, DocsAssumption DEF TypeOK, Requests
  <2>2. CASE f # e
    BY <1>1, <2>2 DEF Requests
  <2> QED BY <2>1, <2>2
<1>8. QED BY <1>1, <1>2, <1>3, <1>4, <1>5, <1>6, <1>7

-----------------------------------------------------------------------------
(* Reading and the steps that only begin a request.                        *)

\* The editor's page takes what the row shows.
LEMMA LoadKeeps ==
    ASSUME IInv, NEW e \in Editors, NEW i \in Ids, Load(e, i)
    PROVE  IInv'
<1> USE DEF IInv
<1> USE DEF Load
<1>1. /\ view'[e] = [id |-> i, slug |-> docs[i].slug, rev |-> docs[i].rev, key |-> docs[i].key]
      /\ \A f \in Editors : f # e => view'[f] = view[f]
  BY DEF TypeOK
<1>2. TypeOK'
  BY DEF TypeOK, rowVars, AnyId
<1>3. /\ Rows' /\ HistoryComplete' /\ Placed' /\ SlugUnique' /\ NoLostUpdate'
      /\ \A j \in Ids : \A k : Names(j, k)' <=> Names(j, k)
  BY RowsStay
<1>4. Requests'
  BY <1>1 DEF Requests, Rows
<1>5. Inserts'
  BY <1>1 DEF Inserts, rowVars, Exists
<1>6. Updates' /\ Readers'
  BY DEF Updates, Readers, rowVars, Exists
<1>7. Views'
  BY <1>1 DEF Views, rowVars, Exists, HistoryComplete, TypeOK
<1>8. Held' /\ Doomed' /\ Bytes'
  BY <1>3 DEF Held, Doomed, Bytes, rowVars
<1>9. QED BY <1>2, <1>3, <1>4, <1>5, <1>6, <1>7, <1>8

\* open_body takes the key of a revision it found.
LEMMA OpenBodyKeeps ==
    ASSUME IInv, NEW e \in Editors, NEW i \in Ids, OpenBody(e, i)
    PROVE  IInv'
<1> USE DEF IInv
<1> PICK n \in 1..docs[i].rev : Work(e, [NoTx EXCEPT !.id = i, !.key = revs[i][n]])
  BY DEF OpenBody
<1> DEFINE x == [NoTx EXCEPT !.id = i, !.key = revs[i][n]]
<1>1. n \in 1..MaxRev /\ revs[i][n] \in Keys
  <2>1. n \in 1..MaxRev /\ n <= docs[i].rev
    BY DocsAssumption DEF TypeOK
  <2>2. revs[i][n] # NoKey
    BY <2>1 DEF HistoryComplete
  <2> QED BY <2>1, <2>2, RevTypes DEF AnyKey
<1>2. /\ x \in Txs
      /\ x.id = i /\ x.key = revs[i][n] /\ x.old = NoAsset /\ x.keys = {} /\ ~x.new
  BY <1>1, NoneTypes DEF NoTx, Txs, AnyId, AnyKey
<1>3. NoAsset.key = NoKey
  BY DEF NoAsset
<1> HIDE DEF x
<1>4. Names(i, x.key)
  BY <1>1, <1>2 DEF Names
<1>5. /\ TypeOK' /\ Rows' /\ HistoryComplete' /\ Placed' /\ SlugUnique' /\ NoLostUpdate'
      /\ Requests' /\ Views' /\ Held' /\ Bytes'
      /\ tx'[e] = x /\ pc'[e] = "read"
      /\ \A f \in Editors : f # e => tx'[f] = tx[f] /\ pc'[f] = pc[f]
  <2>1. Work(e, x) /\ Goto(e, "read") /\ UNCHANGED <<rowVars, objects, origin, view, faults>>
        /\ issued' = issued
    BY DEF OpenBody, x
  <2>2. "read" \in Pcs \ Holding
    BY DEF Pcs, Holding
  <2>3. i \in issued'.ids
    BY <2>1 DEF OpenBody, Rows
  <2> QED BY <1>2, <1>3, <1>4, <2>1, <2>2, <2>3, Begin DEF TypeOK, Saving
<1>6. UNCHANGED <<rowVars, view, issued, faults>> /\ Exists(i)
  BY DEF OpenBody
<1>8. Inserts'
  BY <1>2, <1>5, <1>6 DEF Inserts, Saving, rowVars, Exists
<1>9. Updates' /\ Readers'
  BY <1>1, <1>2, <1>5, <1>6, DocsAssumption DEF Updates, Readers, Saving, rowVars, Exists
<1>10. Doomed'
  BY <1>5, <1>6 DEF Doomed, rowVars, Names
<1>11. QED BY <1>5, <1>8, <1>9, <1>10

\* A delete takes the keys its document has now.
LEMMA DeleteReadKeeps ==
    ASSUME IInv, NEW e \in Editors, NEW i \in Ids, DeleteRead(e, i)
    PROVE  IInv'
<1> USE DEF IInv
<1> DEFINE x == [NoTx EXCEPT !.id = i, !.keys = KeysOf(i)]
<1>1. KeysOf(i) \subseteq Keys /\ \A k \in KeysOf(i) : Names(i, k)
  BY KeysNamed DEF Names
<1>2. /\ x \in Txs
      /\ x.id = i /\ x.key = NoKey /\ x.old = NoAsset /\ x.keys = KeysOf(i) /\ ~x.new
  BY <1>1, NoneTypes DEF NoTx, Txs, AnyId
<1>3. NoAsset.key = NoKey
  BY DEF NoAsset
<1>4. Work(e, x) /\ Goto(e, "delete") /\ UNCHANGED <<rowVars, objects, origin, view, faults>>
      /\ issued' = issued
  BY DEF DeleteRead
<1> HIDE DEF x
<1>5. /\ TypeOK' /\ Rows' /\ HistoryComplete' /\ Placed' /\ SlugUnique' /\ NoLostUpdate'
      /\ Requests' /\ Views' /\ Held' /\ Bytes'
      /\ tx'[e] = x /\ pc'[e] = "delete"
      /\ \A f \in Editors : f # e => tx'[f] = tx[f] /\ pc'[f] = pc[f]
  <2>1. "delete" \in Pcs \ Holding
    BY DEF Pcs, Holding
  <2>2. i \in issued'.ids
    BY <1>4 DEF DeleteRead, Rows
  <2>3. \A k \in x.keys : \E j \in Ids : Names(j, k)
    BY <1>1, <1>2
  <2>4. "delete" \notin Saving /\ issued \in [ids : SUBSET Ids, keys : SUBSET Keys]
    BY DEF Saving, TypeOK
  <2> QED BY <1>2, <1>3, <1>4, <2>1, <2>2, <2>3, <2>4, Begin
<1>6. Exists(i)
  BY DEF DeleteRead
<1>8. Inserts'
  BY <1>2, <1>4, <1>5, <1>6 DEF Inserts, Saving, rowVars, Exists
<1>9. Updates' /\ Readers'
  BY <1>2, <1>4, <1>5, <1>6 DEF Updates, Readers, Saving, rowVars, Exists
<1>10. \A j \in Ids, k \in KeysOf(i) : Names(j, k) => j = i
  BY <1>1 DEF Placed
<1>11. Doomed'
  BY <1>2, <1>4, <1>5, <1>10 DEF Doomed, rowVars, Names
<1>12. QED BY <1>5, <1>8, <1>9, <1>11

\* The delete of an asset takes the row and the key it found.
LEMMA AssetDeleteReadKeeps ==
    ASSUME IInv, NEW e \in Editors, NEW i \in Ids, AssetDeleteRead(e, i)
    PROVE  IInv'
<1> USE DEF IInv
<1> DEFINE x == [NoTx EXCEPT !.id = i, !.old = asset[i]]
<1>1. /\ asset[i].row \in Keys /\ asset[i].key \in Keys /\ asset[i] \in Asset
      /\ Names(i, asset[i].key)
  BY DEF AssetDeleteRead, Rows, TypeOK, Names
<1>2. /\ x \in Txs
      /\ x.id = i /\ x.key = NoKey /\ x.old = asset[i] /\ x.keys = {} /\ ~x.new
  BY <1>1, NoneTypes DEF NoTx, Txs, AnyId
<1>3. Work(e, x) /\ Goto(e, "assetDelete") /\ UNCHANGED <<rowVars, objects, origin, view, faults>>
      /\ issued' = issued
  BY DEF AssetDeleteRead
<1> HIDE DEF x
<1>4. /\ TypeOK' /\ Rows' /\ HistoryComplete' /\ Placed' /\ SlugUnique' /\ NoLostUpdate'
      /\ Requests' /\ Views' /\ Held' /\ Bytes'
      /\ tx'[e] = x /\ pc'[e] = "assetDelete"
      /\ \A f \in Editors : f # e => tx'[f] = tx[f] /\ pc'[f] = pc[f]
  <2>1. "assetDelete" \in Pcs \ Holding
    BY DEF Pcs, Holding
  <2>2. i \in issued'.ids
    BY <1>3 DEF AssetDeleteRead, Rows
  <2> QED BY <1>1, <1>2, <1>3, <2>1, <2>2, Begin DEF TypeOK, Saving
<1>5. Exists(i)
  BY DEF AssetDeleteRead
<1>7. Inserts'
  BY <1>2, <1>3, <1>4, <1>5 DEF Inserts, Saving, rowVars, Exists
<1>8. Updates' /\ Readers'
  BY <1>2, <1>3, <1>4, <1>5 DEF Updates, Readers, Saving, rowVars, Exists
<1>9. /\ \A j \in Ids : Names(j, asset[i].key) => j = i
      /\ \A n \in 1..MaxRev : revs[i][n] # NoKey => revs[i][n] # asset[i].key
  BY <1>1 DEF Placed
<1>10. Doomed'
  BY <1>2, <1>3, <1>4, <1>9 DEF Doomed, rowVars, Names
<1>11. QED BY <1>4, <1>7, <1>8, <1>10

\* save_content with a revision: where the page shows this document, the
\* body below the new number is the one it shows.
LEMMA SaveCheckedKeeps ==
    ASSUME IInv, NEW e \in Editors, SaveChecked(e)
    PROVE  IInv'
<1> USE DEF IInv
<1> PICK i \in At(view[e].slug) :
        /\ Exists(i)
        /\ docs[i].rev = view[e].rev
        /\ docs[i].rev < MaxRev
        /\ Work(e, [NoTx EXCEPT !.id = i, !.slug = docs[i].slug, !.rev = docs[i].rev + 1,
                                !.from = [id |-> view[e].id, key |-> view[e].key]])
  BY DEF SaveChecked
<1> DEFINE x == [NoTx EXCEPT !.id = i, !.slug = docs[i].slug, !.rev = docs[i].rev + 1,
                             !.from = [id |-> view[e].id, key |-> view[e].key]]
<1>1. /\ i \in Ids /\ docs[i].slug \in AnySlug /\ docs[i].rev + 1 \in 1..MaxRev
      /\ docs[i].rev \in Nat /\ view[e].id \in AnyId /\ view[e].key \in AnyKey
  BY RevTypes, DocsAssumption DEF At, TypeOK
<1>2. /\ x \in Txs
      /\ x.id = i /\ x.slug = docs[i].slug /\ x.rev = docs[i].rev + 1
      /\ x.from.id = view[e].id /\ x.from.key = view[e].key
      /\ x.key = NoKey /\ x.old = NoAsset /\ x.keys = {} /\ ~x.new
  <2>1. NoTx \in Txs
    BY NoneTypes DEF Txs
  <2>2. /\ i \in AnyId /\ docs[i].slug \in AnySlug /\ docs[i].rev + 1 \in 0..MaxRev /\ NoKey \in AnyKey
        /\ NoAsset \in Asset /\ [id |-> view[e].id, key |-> view[e].key] \in Origin
    BY <1>1, NoneTypes, DocsAssumption DEF AnyId, AnySlug, AnyKey, Origin
  <2>3. x \in Txs
    BY <2>1, <2>2 DEF Txs
  <2> QED BY <2>3 DEF NoTx, NoOrigin
<1>3. NoAsset.key = NoKey
  BY DEF NoAsset
<1>4. Work(e, x) /\ Goto(e, "put") /\ UNCHANGED <<rowVars, objects, origin, view, faults>>
      /\ issued' = issued
  BY DEF SaveChecked
<1> HIDE DEF x
<1>5. /\ TypeOK' /\ Rows' /\ HistoryComplete' /\ Placed' /\ SlugUnique' /\ NoLostUpdate'
      /\ Requests' /\ Views' /\ Held' /\ Bytes'
      /\ tx'[e] = x /\ pc'[e] = "put"
      /\ \A f \in Editors : f # e => tx'[f] = tx[f] /\ pc'[f] = pc[f]
  <2>1. "put" \in Pcs \ Holding
    BY DEF Pcs, Holding, Saving
  <2>2. i \in issued'.ids
    BY <1>1, <1>4 DEF Rows
  <2>3. x.slug # NoSlug /\ x.rev > 0
    BY <1>1, <1>2 DEF Exists
  <2> QED BY <1>2, <1>3, <1>4, <2>1, <2>2, <2>3, Begin DEF TypeOK
<1>6. Inserts'
  BY <1>1, <1>2, <1>4, <1>5 DEF Inserts, Saving, rowVars, Exists
<1>7. Updates'
  <2>1. x.from.id = x.id => x.rev > 1 /\ x.from.key = revs[i][x.rev - 1]
    <3>1. x.rev - 1 = view[e].rev
      BY <1>1, <1>2
    <3>2. view[e].id = i => view[e].rev > 0 /\ view[e].key = revs[i][view[e].rev]
      BY <1>1, DocsAssumption DEF Views
    <3> QED BY <1>1, <1>2, <3>1, <3>2
  <2> QED BY <1>1, <1>2, <1>4, <1>5, <2>1 DEF Updates, rowVars, Exists
<1>8. Readers'
  BY <1>2, <1>4, <1>5 DEF Readers, rowVars, Exists
<1>9. Doomed'
  BY <1>4, <1>5 DEF Doomed, rowVars, Names
<1>10. QED BY <1>5, <1>6, <1>7, <1>8, <1>9

\* save_content without a revision and save_document on a document that exists.
LEMMA ReplaceKeeps ==
    ASSUME IInv, NEW e \in Editors, NEW s \in Slugs, Replace(e, s)
    PROVE  IInv'
<1> USE DEF IInv
<1> PICK i \in At(s) :
        /\ docs[i].rev < MaxRev
        /\ Work(e, [NoTx EXCEPT !.id = i, !.slug = s, !.rev = docs[i].rev + 1])
  BY DEF Replace
<1> DEFINE x == [NoTx EXCEPT !.id = i, !.slug = s, !.rev = docs[i].rev + 1]
<1>1. /\ i \in Ids /\ docs[i].slug = s /\ s # NoSlug /\ docs[i].rev + 1 \in 1..MaxRev
      /\ docs[i].rev \in Nat
  BY RevTypes, DocsAssumption DEF At
<1>2. /\ x \in Txs
      /\ x.id = i /\ x.slug = s /\ x.rev = docs[i].rev + 1 /\ x.from.id = NoId
      /\ x.key = NoKey /\ x.old = NoAsset /\ x.keys = {} /\ ~x.new
  <2>1. NoTx \in Txs
    BY NoneTypes DEF Txs
  <2>2. /\ i \in AnyId /\ s \in AnySlug /\ docs[i].rev + 1 \in 0..MaxRev /\ NoKey \in AnyKey
        /\ NoAsset \in Asset /\ NoOrigin \in Origin
    BY <1>1, NoneTypes, DocsAssumption DEF AnyId, AnySlug, AnyKey, Origin
  <2>3. x \in Txs
    BY <2>1, <2>2 DEF Txs
  <2> QED BY <2>3 DEF NoTx, NoOrigin
<1>3. NoAsset.key = NoKey
  BY DEF NoAsset
<1>4. Work(e, x) /\ Goto(e, "put") /\ UNCHANGED <<rowVars, objects, origin, view, faults>>
      /\ issued' = issued
  BY DEF Replace
<1> HIDE DEF x
<1>5. /\ TypeOK' /\ Rows' /\ HistoryComplete' /\ Placed' /\ SlugUnique' /\ NoLostUpdate'
      /\ Requests' /\ Views' /\ Held' /\ Bytes'
      /\ tx'[e] = x /\ pc'[e] = "put"
      /\ \A f \in Editors : f # e => tx'[f] = tx[f] /\ pc'[f] = pc[f]
  <2>1. "put" \in Pcs \ Holding
    BY DEF Pcs, Holding, Saving
  <2>2. i \in issued'.ids
    BY <1>1, <1>4 DEF Rows, Exists
  <2>3. x.slug # NoSlug /\ x.rev > 0
    BY <1>1, <1>2
  <2> QED BY <1>2, <1>3, <1>4, <2>1, <2>2, <2>3, Begin DEF TypeOK
<1>6. Inserts'
  BY <1>1, <1>2, <1>4, <1>5 DEF Inserts, Saving, rowVars, Exists
<1>7. Updates'
  <2>1. x.from.id # x.id
    BY <1>1, <1>2, DocsAssumption
  <2> QED BY <1>1, <1>2, <1>4, <1>5, <2>1 DEF Updates, rowVars, Exists
<1>8. Readers'
  BY <1>2, <1>4, <1>5 DEF Readers, rowVars, Exists
<1>9. Doomed'
  BY <1>4, <1>5 DEF Doomed, rowVars, Names
<1>10. QED BY <1>5, <1>6, <1>7, <1>8, <1>9

\* An insert takes a fresh id, and a slug nobody has or inserts.
LEMMA CreateKeeps ==
    ASSUME IInv, NEW e \in Editors, NEW s \in Slugs, Create(e, s)
    PROVE  IInv'
<1> USE DEF IInv
<1> PICK i \in Ids \ issued.ids :
        /\ issued' = [issued EXCEPT !.ids = @ \cup {i}]
        /\ Work(e, [NoTx EXCEPT !.id = i, !.slug = s, !.rev = 1, !.new = TRUE])
  BY DEF Create
<1> DEFINE x == [NoTx EXCEPT !.id = i, !.slug = s, !.rev = 1, !.new = TRUE]
<1>1. s # NoSlug /\ 1 \in 1..MaxRev /\ i # NoId
  BY DocsAssumption
<1>2. /\ x \in Txs
      /\ x.id = i /\ x.slug = s /\ x.rev = 1 /\ x.from.id = NoId
      /\ x.key = NoKey /\ x.old = NoAsset /\ x.keys = {} /\ x.new
  <2>1. NoTx \in Txs
    BY NoneTypes DEF Txs
  <2>2. /\ i \in AnyId /\ s \in AnySlug /\ 1 \in 0..MaxRev /\ NoKey \in AnyKey
        /\ NoAsset \in Asset /\ NoOrigin \in Origin
    BY <1>1, NoneTypes, DocsAssumption DEF AnyId, AnySlug, AnyKey, Origin
  <2>3. x \in Txs
    BY <2>1, <2>2 DEF Txs
  <2> QED BY <2>3 DEF NoTx, NoOrigin
<1>3. NoAsset.key = NoKey
  BY DEF NoAsset
<1>4. /\ Work(e, x) /\ Goto(e, "put") /\ UNCHANGED <<rowVars, objects, origin, view, faults>>
      /\ issued' \in [ids : SUBSET Ids, keys : SUBSET Keys]
      /\ issued'.ids = issued.ids \cup {i} /\ issued'.keys = issued.keys
  BY DEF Create, TypeOK
<1> HIDE DEF x
<1>5. /\ TypeOK' /\ Rows' /\ HistoryComplete' /\ Placed' /\ SlugUnique' /\ NoLostUpdate'
      /\ Requests' /\ Views' /\ Held' /\ Bytes'
      /\ tx'[e] = x /\ pc'[e] = "put"
      /\ \A f \in Editors : f # e => tx'[f] = tx[f] /\ pc'[f] = pc[f]
  <2>1. "put" \in Pcs \ Holding
    BY DEF Pcs, Holding, Saving
  <2>2. i \in issued'.ids
    BY <1>4
  <2>3. x.slug # NoSlug /\ x.rev > 0
    BY <1>1, <1>2
  <2> QED BY <1>2, <1>3, <1>4, <2>1, <2>2, <2>3, Begin
<1>6. ~Exists(i) /\ \A f \in Editors : tx[f].id # i /\ view[f].id # i
  BY <1>1 DEF Rows, Requests
<1>7. Inserts'
  <2>1. \A j \in Ids : docs[j].slug # s
    BY DEF Create, At
  <2>2. \A f \in Editors : ~(pc[f] \in Saving /\ tx[f].new /\ tx[f].slug = s)
    BY DEF Create, Inserting
  <2> QED BY <1>2, <1>4, <1>5, <1>6, <2>1, <2>2 DEF Inserts, rowVars, Exists
<1>8. Updates' /\ Readers'
  BY <1>2, <1>4, <1>5 DEF Updates, Readers, rowVars, Exists
<1>9. Doomed'
  BY <1>4, <1>5 DEF Doomed, rowVars, Names
<1>10. QED BY <1>5, <1>7, <1>8, <1>9

-----------------------------------------------------------------------------
(* Putting an object.                                                      *)

\* A request puts an object under a fresh key: it alone knows the key.
LEMMA Put ==
    ASSUME IInv, NEW e \in Editors, NEW y \in Txs, NEW p \in Holding,
           NEW k \in Keys \ issued.keys,
           Goto(e, p), Work(e, y), y.key = k,
           UNCHANGED <<rowVars, origin, view, faults>>,
           objects' = objects \cup {k},
           issued' = [issued EXCEPT !.keys = @ \cup {k}],
           y.id \in issued.ids,
           y.old.key # NoKey => y.old.key \in issued.keys,
           y.old = NoAsset \/ (y.old.row \in Keys /\ y.old.key \in Keys),
           y.keys \subseteq issued.keys,
           \A f \in Editors : f # e /\ pc[f] \in Holding =>
               y.old.key # tx[f].key /\ tx[f].key \notin y.keys,
           p \in Saving => y.slug # NoSlug /\ y.rev > 0,
           y.new => y.rev = 1 /\ y.from.id = NoId
    PROVE  /\ TypeOK' /\ Rows' /\ HistoryComplete' /\ Placed' /\ SlugUnique' /\ NoLostUpdate'
           /\ Requests' /\ Views' /\ Held' /\ Bytes'
           /\ tx'[e] = y /\ pc'[e] = p
           /\ \A f \in Editors : f # e => tx'[f] = tx[f] /\ pc'[f] = pc[f]
<1> USE DEF IInv
<1>1. /\ tx'[e] = y /\ pc'[e] = p
      /\ \A f \in Editors : f # e => tx'[f] = tx[f] /\ pc'[f] = pc[f]
  BY DEF Goto, Work, TypeOK
<1>2. /\ issued' \in [ids : SUBSET Ids, keys : SUBSET Keys]
      /\ issued'.ids = issued.ids /\ issued'.keys = issued.keys \cup {k}
  BY DEF TypeOK
<1>3. TypeOK'
  <2>1. tx' \in [Editors -> Txs] /\ p \in Pcs
    BY DEF TypeOK, Work, Txs, Pcs, Holding, Saving
  <2> QED BY <1>2, <2>1 DEF TypeOK, Goto, rowVars, Txs, Pcs
<1>4. /\ Rows' /\ HistoryComplete' /\ Placed' /\ SlugUnique' /\ NoLostUpdate'
      /\ \A i \in Ids : \A c : Names(i, c)' <=> Names(i, c)
  BY <1>2, RowsStay
<1>5. Views' /\ Bytes'
  BY <1>4 DEF Views, Bytes, rowVars, Exists
<1>6. Requests'
  <2> SUFFICES ASSUME NEW f \in Editors
               PROVE  /\ tx'[f].id # NoId => tx'[f].id \in issued'.ids
                      /\ view'[f].id # NoId => view'[f].id \in issued'.ids
                      /\ pc'[f] # "idle" => tx'[f].id # NoId
                      /\ tx'[f].key # NoKey => tx'[f].key \in issued'.keys
                      /\ tx'[f].old.key # NoKey => tx'[f].old.key \in issued'.keys
                      /\ tx'[f].keys \subseteq issued'.keys
                      /\ tx'[f].old = NoAsset
                           \/ (tx'[f].old.row \in Keys /\ tx'[f].old.key \in Keys)
                      /\ pc'[f] \in Saving => tx'[f].slug # NoSlug /\ tx'[f].rev > 0
                      /\ tx'[f].new => tx'[f].rev = 1 /\ tx'[f].from.id = NoId
    BY DEF Requests, Saving
  <2>1. CASE f = e
    BY <1>1, <1>2, <2>1, DocsAssumption DEF TypeOK, Requests
  <2>2. CASE f # e
    BY <1>1, <1>2, <2>2 DEF Requests
  <2> QED BY <2>1, <2>2
<1>7. Held'
  <2> SUFFICES ASSUME NEW f \in Editors, pc'[f] \in Holding
               PROVE  /\ tx'[f].key \in objects'
                      /\ \A i \in Ids : ~Names(i, tx[f].key)'
                      /\ \A g \in Editors :
                           /\ g # f => tx'[g].key # tx'[f].key
                           /\ tx'[g].old.key # tx'[f].key
                           /\ tx'[f].key \notin tx'[g].keys
    BY DEF Held, Holding
  <2>1. k # NoKey /\ \A i \in Ids : ~Names(i, k)
    BY DocsAssumption DEF Placed
  <2>2. \A g \in Editors : tx[g].key # k /\ tx[g].old.key # k /\ k \notin tx[g].keys
    BY <2>1 DEF Requests
  <2>3. y.old.key # k /\ k \notin y.keys
    BY <2>1
  <2>4. CASE f = e
    <3>1. \A i \in Ids : ~Names(i, tx[f].key)'
      BY <1>1, <1>4, <2>1, <2>4
    <3> QED BY <1>1, <2>2, <2>3, <2>4, <3>1
  <2>5. CASE f # e
    <3>1. tx'[f] = tx[f] /\ pc[f] \in Holding
      BY <1>1, <2>5
    <3>2. tx[f].key \in objects /\ \A i \in Ids : ~Names(i, tx[f].key)
      BY <3>1 DEF Held
    <3>3. tx[f].key \in issued.keys /\ tx[f].key # NoKey
      BY <3>2, DocsAssumption DEF TypeOK
    <3>4. \A i \in Ids : ~Names(i, tx[f].key)'
      BY <1>4, <3>1, <3>2
    <3>5. y.old.key # tx[f].key /\ tx[f].key \notin y.keys
      BY <2>5, <3>1
    <3> QED BY <1>1, <3>1, <3>2, <3>3, <3>4, <3>5 DEF Held
  <2> QED BY <2>4, <2>5
<1>8. QED BY <1>1, <1>3, <1>4, <1>5, <1>6, <1>7

\* _store_revision puts the body, or the store refuses it.
LEMMA PutBodyKeeps ==
    ASSUME IInv, NEW e \in Editors, PutBody(e)
    PROVE  IInv'
<1> USE DEF IInv
<1>1. CASE /\ Done(e) /\ UNCHANGED <<objects, issued>>
           /\ UNCHANGED <<rowVars, origin, view, faults>>
  BY <1>1, Finish DEF TypeOK
<1>2. ASSUME NEW k \in Keys \ issued.keys,
             objects' = objects \cup {k},
             issued' = [issued EXCEPT !.keys = @ \cup {k}],
             tx' = [tx EXCEPT ![e].key = k],
             Goto(e, "commit"), pc[e] = "put",
             UNCHANGED <<rowVars, origin, view, faults>>
      PROVE  IInv'
  <2> DEFINE y == [tx[e] EXCEPT !.key = k]
  <2>1. /\ y \in Txs /\ y.key = k
        /\ y.id = tx[e].id /\ y.slug = tx[e].slug /\ y.rev = tx[e].rev /\ y.new = tx[e].new
        /\ y.from = tx[e].from /\ y.old = tx[e].old /\ y.keys = tx[e].keys
    <3>1. tx[e] \in Txs
      BY DEF TypeOK, Txs
    <3> QED BY <3>1 DEF Txs, AnyKey
  <2>2. Work(e, y)
    BY <1>2 DEF Work
  <2> HIDE DEF y
  <2>3. pc[e] \in Saving /\ "commit" \in Saving /\ "commit" \in Holding
    BY <1>2 DEF Saving, Holding
  <2>4. /\ y.id \in issued.ids
        /\ y.old.key # NoKey => y.old.key \in issued.keys
        /\ y.old = NoAsset \/ (y.old.row \in Keys /\ y.old.key \in Keys)
        /\ y.keys \subseteq issued.keys
        /\ y.slug # NoSlug /\ y.rev > 0
        /\ y.new => y.rev = 1 /\ y.from.id = NoId
    BY <1>2, <2>1, <2>3 DEF Requests
  <2>5. \A f \in Editors : f # e /\ pc[f] \in Holding =>
            y.old.key # tx[f].key /\ tx[f].key \notin y.keys
    BY <2>1 DEF Held
  <2>6. /\ TypeOK' /\ Rows' /\ HistoryComplete' /\ Placed' /\ SlugUnique' /\ NoLostUpdate'
        /\ Requests' /\ Views' /\ Held' /\ Bytes'
        /\ tx'[e] = y /\ pc'[e] = "commit"
        /\ \A f \in Editors : f # e => tx'[f] = tx[f] /\ pc'[f] = pc[f]
    BY <1>2, <2>1, <2>2, <2>3, <2>4, <2>5, Put
  <2>7. \A f \in Editors :
            /\ tx'[f].id = tx[f].id /\ tx'[f].slug = tx[f].slug /\ tx'[f].rev = tx[f].rev
            /\ tx'[f].new = tx[f].new /\ tx'[f].from = tx[f].from
            /\ pc'[f] \in Saving <=> pc[f] \in Saving
    BY <2>1, <2>3, <2>6
  <2>8. Inserts'
    BY <1>2, <2>7 DEF Inserts, rowVars, Exists
  <2>9. Updates'
    BY <1>2, <2>7 DEF Updates, rowVars, Exists
  <2>10. Readers' /\ Doomed'
    BY <1>2, <2>6 DEF Readers, Doomed, rowVars, Exists, Names
  <2> QED BY <2>6, <2>8, <2>9, <2>10
<1>3. QED BY <1>1, <1>2 DEF PutBody

\* save_asset puts the bytes of an asset.
LEMMA AssetPutKeeps ==
    ASSUME IInv, NEW e \in Editors, NEW i \in Ids, AssetPut(e, i)
    PROVE  IInv'
<1> USE DEF IInv
<1> PICK k \in Keys \ issued.keys :
        /\ objects' = objects \cup {k}
        /\ issued' = [issued EXCEPT !.keys = @ \cup {k}]
        /\ Work(e, [NoTx EXCEPT !.id = i, !.key = k])
  BY DEF AssetPut
<1> DEFINE y == [NoTx EXCEPT !.id = i, !.key = k]
<1>1. /\ y \in Txs
      /\ y.id = i /\ y.key = k /\ y.old = NoAsset /\ y.keys = {} /\ ~y.new
  BY NoneTypes DEF NoTx, Txs, AnyId, AnyKey
<1>2. NoAsset.key = NoKey
  BY DEF NoAsset
<1>3. Work(e, y) /\ Goto(e, "assetRead") /\ UNCHANGED <<rowVars, origin, view, faults>>
  BY DEF AssetPut
<1> HIDE DEF y
<1>4. Exists(i) /\ i \in issued.ids
  BY DEF AssetPut, Rows
<1>5. "assetRead" \in Holding /\ "assetRead" \notin Saving
  BY DEF Holding, Saving
<1>6. \A f \in Editors : f # e /\ pc[f] \in Holding => NoKey # tx[f].key
  BY DocsAssumption DEF Held, TypeOK
<1>7. /\ TypeOK' /\ Rows' /\ HistoryComplete' /\ Placed' /\ SlugUnique' /\ NoLostUpdate'
      /\ Requests' /\ Views' /\ Held' /\ Bytes'
      /\ tx'[e] = y /\ pc'[e] = "assetRead"
      /\ \A f \in Editors : f # e => tx'[f] = tx[f] /\ pc'[f] = pc[f]
  BY <1>1, <1>2, <1>3, <1>4, <1>5, <1>6, Put
<1>8. Inserts'
  BY <1>1, <1>3, <1>4, <1>5, <1>7 DEF Inserts, rowVars, Exists
<1>9. Updates' /\ Readers'
  BY <1>1, <1>3, <1>5, <1>7 DEF Updates, Readers, rowVars, Exists
<1>10. Doomed'
  BY <1>3, <1>7 DEF Doomed, rowVars, Names
<1>11. QED BY <1>7, <1>8, <1>9, <1>10

\* save_asset reads the row it will replace.
LEMMA AssetReadKeeps ==
    ASSUME IInv, NEW e \in Editors, AssetRead(e)
    PROVE  IInv'
<1> USE DEF IInv
<1> DEFINE i == tx[e].id
<1> DEFINE y == [tx[e] EXCEPT !.old = asset[i]]
<1>1. i \in Ids /\ asset[i] \in Asset /\ pc[e] = "assetRead" /\ pc[e] \in Holding
  BY RevTypes DEF AssetRead, Requests, TypeOK, AnyId, Holding
<1>2. /\ y \in Txs /\ y.old = asset[i]
      /\ y.id = i /\ y.slug = tx[e].slug /\ y.rev = tx[e].rev /\ y.new = tx[e].new
      /\ y.from = tx[e].from /\ y.key = tx[e].key /\ y.keys = tx[e].keys
  <2>1. tx[e] \in Txs
    BY DEF TypeOK, Txs
  <2> QED BY <1>1, <2>1 DEF Txs
<1>3. /\ Work(e, y) /\ Goto(e, "assetCommit")
      /\ UNCHANGED <<rowVars, objects, issued, origin, view, faults>>
  BY DEF AssetRead, Work
<1> HIDE DEF y
<1>4. /\ tx'[e] = y /\ pc'[e] = "assetCommit"
      /\ \A f \in Editors : f # e => tx'[f] = tx[f] /\ pc'[f] = pc[f]
  BY <1>3 DEF Goto, Work, TypeOK
<1>5. TypeOK'
  <2>1. tx' \in [Editors -> Txs]
    BY <1>2, <1>3 DEF TypeOK, Work, Txs
  <2> QED BY <1>3, <2>1 DEF TypeOK, Goto, rowVars, Txs
<1>6. /\ Rows' /\ HistoryComplete' /\ Placed' /\ SlugUnique' /\ NoLostUpdate'
      /\ \A j \in Ids : \A c : Names(j, c)' <=> Names(j, c)
  BY <1>3, RowsStay
<1>7. Views' /\ Bytes'
  BY <1>3, <1>6 DEF Views, Bytes, rowVars, Exists
<1>8. \/ asset[i] = NoAsset /\ asset[i].key = NoKey
      \/ /\ asset[i].row \in Keys /\ asset[i].key \in Keys
         /\ asset[i].key \in issued.keys /\ Names(i, asset[i].key)
  BY <1>1 DEF Rows, Placed, Names, NoAsset
<1>9. Requests'
  BY <1>1, <1>2, <1>3, <1>4, <1>8 DEF Requests, Saving
<1>10. Inserts' /\ Updates' /\ Readers'
  BY <1>1, <1>2, <1>3, <1>4 DEF Inserts, Updates, Readers, Saving, rowVars, Exists
<1>11. Held'
  <2> SUFFICES ASSUME NEW f \in Editors, pc'[f] \in Holding
               PROVE  /\ tx'[f].key \in objects'
                      /\ \A j \in Ids : ~Names(j, tx[f].key)'
                      /\ \A g \in Editors :
                           /\ g # f => tx'[g].key # tx'[f].key
                           /\ tx'[g].old.key # tx'[f].key
                           /\ tx'[f].key \notin tx'[g].keys
    BY DEF Held, Holding
  <2>1. tx'[f].key = tx[f].key /\ pc[f] \in Holding
    BY <1>1, <1>2, <1>4
  <2>2. tx[f].key \in objects /\ \A j \in Ids : ~Names(j, tx[f].key)
    BY <2>1 DEF Held
  <2>3. asset[i].key # tx[f].key
    BY <1>1, <1>8, <2>2, DocsAssumption DEF TypeOK
  <2>4. \A j \in Ids : ~Names(j, tx[f].key)'
    BY <1>6, <2>1, <2>2
  <2>5. \A g \in Editors : /\ tx'[g].key = tx[g].key /\ tx'[g].keys = tx[g].keys
                           /\ tx'[g].old.key = tx[g].old.key \/ tx'[g].old.key = asset[i].key
    BY <1>2, <1>4
  <2>6. \A g \in Editors : /\ g # f => tx[g].key # tx[f].key
                           /\ tx[g].old.key # tx[f].key /\ tx[f].key \notin tx[g].keys
    BY <2>1 DEF Held
  <2>7. objects' = objects
    BY <1>3
  <2>8. \A g \in Editors : /\ g # f => tx'[g].key # tx'[f].key
                           /\ tx'[g].old.key # tx'[f].key /\ tx'[f].key \notin tx'[g].keys
    BY <2>1, <2>3, <2>5, <2>6
  <2> QED BY <2>1, <2>2, <2>4, <2>7, <2>8
<1>12. Doomed'
  <2>1. /\ \A j \in Ids : Names(j, asset[i].key) => j = i
        /\ \A n \in 1..MaxRev : revs[i][n] # NoKey => revs[i][n] # asset[i].key
    BY <1>1, <1>8 DEF Placed, Names
  <2> QED BY <1>1, <1>2, <1>3, <1>4, <2>1 DEF Doomed, rowVars, Names
<1>13. QED BY <1>5, <1>6, <1>7, <1>9, <1>10, <1>11, <1>12

-----------------------------------------------------------------------------
(* Commits.                                                                *)

\* A commit that fails: the object is to be removed, and no row has its key.
LEMMA FailKeeps ==
    ASSUME IInv, NEW e \in Editors, pc[e] \in Holding, Goto(e, "cleanup"),
           UNCHANGED <<rowVars, objects, issued, origin, view, tx, faults>>
    PROVE  IInv'
<1> USE DEF IInv
<1>1. pc'[e] = "cleanup" /\ \A f \in Editors : f # e => pc'[f] = pc[f]
  BY DEF Goto, TypeOK
<1>2. TypeOK'
  BY DEF TypeOK, Goto, rowVars
<1>3. /\ Rows' /\ HistoryComplete' /\ Placed' /\ SlugUnique' /\ NoLostUpdate'
      /\ \A i \in Ids : \A k : Names(i, k)' <=> Names(i, k)
  BY RowsStay
<1>4. Views' /\ Bytes'
  BY <1>3 DEF Views, Bytes, rowVars, Exists
<1>5. Requests'
  BY <1>1 DEF Requests, Saving, Holding
<1>6. Inserts' /\ Updates' /\ Readers'
  BY <1>1 DEF Inserts, Updates, Readers, Saving, rowVars, Exists
<1>7. Held'
  BY <1>1, <1>3 DEF Held, Holding
<1>8. Doomed'
  BY <1>1 DEF Doomed, Held, rowVars, Names
<1>9. QED BY <1>2, <1>3, <1>4, <1>5, <1>6, <1>7, <1>8

\* The number a committing save writes is the next one, and it is free.
LEMMA NextRevision ==
    ASSUME IInv, NEW e \in Editors, pc[e] = "commit", Commits(e)
    PROVE  /\ tx[e].id \in Ids /\ tx[e].rev \in 1..MaxRev /\ tx[e].key \in Keys
           /\ tx[e].slug \in AnySlug /\ tx[e].slug # NoSlug
           /\ docs[tx[e].id].rev \in Nat
           /\ tx[e].rev = docs[tx[e].id].rev + 1
           /\ revs[tx[e].id][tx[e].rev] = NoKey
           /\ tx[e].id \in issued.ids /\ tx[e].key \in issued.keys
           /\ tx[e].new <=> ~Exists(tx[e].id)
<1> USE DEF IInv
<1> DEFINE x == tx[e]
<1>1. pc[e] \in Saving /\ pc[e] \in Holding
  BY DEF Saving, Holding
<1>2. /\ x.id \in Ids /\ x.rev \in 1..MaxRev /\ x.key \in Keys /\ x.slug \in AnySlug
      /\ x.slug # NoSlug /\ x.id \in issued.ids /\ x.key \in issued.keys
  <2>1. x.key \in issued.keys
    BY <1>1 DEF Held, TypeOK
  <2>2. x \in Txs
    BY DEF TypeOK, Txs
  <2>3. x.id # NoId /\ x.slug # NoSlug /\ x.rev > 0 /\ x.id \in issued.ids
    BY <1>1 DEF Requests
  <2> QED BY <2>1, <2>2, <2>3, DocsAssumption DEF TypeOK, Txs, AnyId
<1>3. docs[x.id].rev \in Nat
  BY <1>2, RevTypes, DocsAssumption
<1>4. CASE x.new
  <2>1. ~Exists(x.id)
    BY <1>1, <1>4 DEF Inserts
  <2>2. x.rev = 1 /\ docs[x.id] = NoDoc /\ revs[x.id] = NoRevs
    BY <1>2, <1>4, <2>1 DEF Requests, Rows
  <2> QED BY <1>2, <1>3, <1>4, <2>1, <2>2 DEF NoDoc, NoRevs
<1>5. CASE ~x.new
  <2>1. Exists(x.id) /\ revs[x.id][x.rev] = NoKey
    BY <1>5 DEF Commits
  <2>2. ~(x.rev <= docs[x.id].rev)
    BY <1>2, <2>1 DEF HistoryComplete
  <2>3. x.rev <= docs[x.id].rev + 1
    BY <1>1, <1>5, <2>1 DEF Updates
  <2> QED BY <1>2, <1>3, <1>5, <2>1, <2>2, <2>3
<1>6. QED BY <1>4, <1>5

\* A save commits: whether or not its thread is told, its key is now the key
\* of the next revision of its document and of nothing else.
LEMMA Revise ==
    ASSUME IInv, NEW e \in Editors, pc[e] = "commit", Commits(e), WriteRevision(e),
           UNCHANGED <<asset, objects, issued, view>>,
           \/ Done(e) /\ UNCHANGED faults
           \/ /\ Goto(e, "cleanup") /\ UNCHANGED tx
              /\ faults' \in [crashes : 0..MaxFaults, acks : 0..MaxFaults] /\ faults'.acks # 0
    PROVE  IInv'
<1> USE DEF IInv
<1> DEFINE x == tx[e]
<1> DEFINE i == tx[e].id
<1> DEFINE n == tx[e].rev
<1> DEFINE k == tx[e].key
<1>1. /\ i \in Ids /\ n \in 1..MaxRev /\ k \in Keys /\ x.slug \in AnySlug /\ x.slug # NoSlug
      /\ docs[i].rev \in Nat /\ n = docs[i].rev + 1 /\ revs[i][n] = NoKey
      /\ i \in issued.ids /\ k \in issued.keys /\ (x.new <=> ~Exists(i)) /\ i # NoId
  BY NextRevision, DocsAssumption
<1>2. /\ pc[e] \in Saving /\ pc[e] \in Holding /\ pc'[e] \notin Saving /\ pc'[e] \notin Holding
      /\ pc'[e] \in {"idle", "cleanup"} /\ (pc'[e] = "cleanup" => faults'.acks # 0)
      /\ \A f \in Editors : f # e => tx'[f] = tx[f] /\ pc'[f] = pc[f]
      /\ tx'[e] = NoTx \/ tx'[e] = tx[e]
      /\ pc'[e] # "idle" => tx'[e] = tx[e]
      /\ faults'.acks = 0 => faults.acks = 0
  BY DEF Done, Goto, Work, TypeOK, Saving, Holding
<1>3. /\ docs'[i] = [slug |-> x.slug, rev |-> n, key |-> k]
      /\ \A j \in Ids : j # i => docs'[j] = docs[j] /\ revs'[j] = revs[j]
      /\ revs'[i][n] = k
      /\ \A m \in 1..MaxRev : m # n => revs'[i][m] = revs[i][m]
      /\ origin'[k] = x.from
      /\ \A c \in Keys : c # k => origin'[c] = origin[c]
  <2>1. revs[i] \in [1..MaxRev -> AnyKey]
    BY <1>1 DEF TypeOK
  <2> QED BY <1>1, <2>1 DEF WriteRevision, TypeOK
<1>4. TypeOK'
  <2>1. /\ docs' \in [Ids -> [slug : AnySlug, rev : 0..MaxRev, key : AnyKey]]
        /\ revs' \in [Ids -> [1..MaxRev -> AnyKey]]
        /\ origin' \in [Keys -> Origin]
    <3>1. x.from \in Origin /\ k \in AnyKey /\ n \in 0..MaxRev
      BY <1>1, DocsAssumption DEF TypeOK, AnyKey
    <3>2. revs[i] \in [1..MaxRev -> AnyKey]
      BY <1>1 DEF TypeOK
    <3> QED BY <1>1, <3>1, <3>2 DEF WriteRevision, TypeOK
  <2>2. tx' \in [Editors -> Txs]
    <3>1. NoTx \in Txs /\ tx \in [Editors -> Txs]
      BY NoneTypes DEF TypeOK, Txs
    <3> QED BY <3>1 DEF Done, Work
  <2>3. pc' \in [Editors -> Pcs]
    BY DEF TypeOK, Done, Goto, Pcs
  <2> QED BY <2>1, <2>2, <2>3 DEF TypeOK, Txs, Pcs
<1> HIDE DEF x, i, n, k
<1>5. \A j \in Ids : Exists(j)' <=> (Exists(j) \/ j = i)
  BY <1>1, <1>3 DEF Exists
<1>6. \A j \in Ids, c \in Keys : Names(j, c)' <=> (Names(j, c) \/ (j = i /\ c = k))
  <2> SUFFICES ASSUME NEW j \in Ids, NEW c \in Keys
               PROVE  Names(j, c)' <=> (Names(j, c) \/ (j = i /\ c = k))
    OBVIOUS
  <2>1. CASE j = i
    BY <1>1, <1>3, <2>1, DocsAssumption DEF Names
  <2>2. CASE j # i
    BY <1>3, <2>2 DEF Names
  <2> QED BY <2>1, <2>2
<1>7. \A j \in Ids : ~Names(j, k)
  BY <1>2 DEF Held, k
<1>8. Rows'
  BY <1>1, <1>3, <1>5 DEF Rows
<1>9. HistoryComplete'
  <2> SUFFICES ASSUME NEW j \in Ids
               PROVE  /\ \A m \in 1..MaxRev : revs'[j][m] # NoKey <=> m <= docs'[j].rev
                      /\ Exists(j)' => docs'[j].rev > 0 /\ docs'[j].key = revs'[j][docs'[j].rev]
    BY DEF HistoryComplete
  <2>1. CASE j # i
    BY <1>3, <1>5, <2>1 DEF HistoryComplete
  <2>2. CASE j = i
    <3>1. docs'[j].rev = n /\ docs'[j].key = k /\ n > 0
      BY <1>1, <1>3, <2>2
    <3>2. ASSUME NEW m \in 1..MaxRev PROVE revs'[j][m] # NoKey <=> m <= n
      <4>1. CASE m = n
        BY <1>1, <1>3, <2>2, <4>1, DocsAssumption
      <4>2. CASE m # n
        <5>1. revs[i][m] # NoKey <=> m <= docs[i].rev
          BY <1>1 DEF HistoryComplete
        <5> QED BY <1>1, <1>3, <2>2, <4>2, <5>1
      <4> QED BY <4>1, <4>2
    <3> QED BY <1>3, <2>2, <3>1, <3>2
  <2> QED BY <2>1, <2>2
<1>10. Placed'
  <2>1. \A j \in Ids, c \in Keys : Names(j, c)' => c \in issued'.keys
    BY <1>1, <1>6 DEF Placed
  <2>2. \A j, l \in Ids, c \in Keys : Names(j, c)' /\ Names(l, c)' => j = l
    BY <1>1, <1>6, <1>7 DEF Placed
  <2>3. ASSUME NEW j \in Ids, NEW m \in 1..MaxRev, revs'[j][m] # NoKey
        PROVE  asset'[j].key # revs'[j][m]
    <3>1. CASE j = i /\ m = n
      BY <1>1, <1>3, <1>7, <3>1 DEF Names
    <3>2. CASE ~(j = i /\ m = n)
      BY <1>3, <2>3, <3>2 DEF Placed
    <3> QED BY <3>1, <3>2
  <2> QED BY <2>1, <2>2, <2>3 DEF Placed
<1>11. Requests'
  <2>1. NoTx.id = NoId /\ NoTx.key = NoKey /\ NoTx.old = NoAsset /\ NoAsset.key = NoKey
        /\ NoTx.keys = {} /\ ~NoTx.new
    BY DEF NoTx, NoAsset
  <2>2. \A f \in Editors : /\ pc'[f] # "idle" => pc[f] # "idle" /\ tx'[f] = tx[f]
                           /\ pc'[f] \in Saving => pc[f] \in Saving /\ tx'[f] = tx[f]
                           /\ tx'[f] = tx[f] \/ tx'[f] = NoTx
    BY <1>2 DEF Saving
  <2> QED BY <2>1, <2>2 DEF Requests
<1>12. \A f \in Editors : f # e =>
         /\ tx[f].key # k /\ tx[f].old.key # k /\ k \notin tx[f].keys
         /\ x.new /\ tx[f].id = i => FALSE
         /\ x.new /\ view[f].id = i => FALSE
  BY <1>2 DEF Held, Inserts, x, i, k
<1>13. /\ ~x.new => Exists(i) /\ x.slug = docs[i].slug
       /\ x.new => \A j \in Ids : docs[j].slug # x.slug
       /\ x.new => view[e].id # i
  BY <1>1, <1>2 DEF Updates, Inserts, x, i
<1>14. Inserts'
  <2> SUFFICES ASSUME NEW f \in Editors, pc'[f] \in Saving, tx'[f].new
               PROVE  /\ ~Exists(tx[f].id)'
                      /\ \A j \in Ids : docs'[j].slug # tx'[f].slug
                      /\ \A g \in Editors : view'[g].id # tx'[f].id
                      /\ \A g \in Editors : g # f =>
                           /\ tx'[g].id # tx'[f].id
                           /\ ~(pc'[g] \in Saving /\ tx'[g].new /\ tx'[g].slug = tx'[f].slug)
    BY DEF Inserts
  <2>1. f # e /\ tx'[f] = tx[f] /\ pc[f] \in Saving /\ tx[f].new
    BY <1>2
  <2>2. tx[f].id # i /\ tx[f].id \in Ids /\ tx[f].id # NoId
    BY <2>1, DocsAssumption DEF Inserts, Requests, Saving, TypeOK, AnyId, i
  <2>3. ~Exists(tx[f].id)'
    <3>1. ~Exists(tx[f].id)
      BY <2>1 DEF Inserts
    <3>2. docs'[tx[f].id] = docs[tx[f].id]
      BY <1>3, <2>2
    <3> QED BY <2>1, <3>1, <3>2 DEF Exists
  <2>4. x.slug # tx[f].slug
    <3>1. CASE x.new
      BY <1>2, <2>1, <3>1 DEF Inserts, x
    <3>2. CASE ~x.new
      BY <1>1, <1>13, <2>1, <3>2 DEF Inserts
    <3> QED BY <3>1, <3>2
  <2>5. \A j \in Ids : docs'[j].slug # tx[f].slug
    BY <1>1, <1>3, <2>1, <2>4 DEF Inserts
  <2>6. \A g \in Editors : g # f =>
            /\ tx'[g].id # tx[f].id
            /\ ~(pc'[g] \in Saving /\ tx'[g].new /\ tx'[g].slug = tx[f].slug)
    <3>1. NoTx.id = NoId
      BY DEF NoTx
    <3> QED BY <1>2, <2>1, <2>2, <3>1 DEF Inserts
  <2> QED BY <2>1, <2>3, <2>5, <2>6 DEF Inserts
<1>15. Updates'
  <2> SUFFICES ASSUME NEW f \in Editors, pc'[f] \in Saving, ~tx'[f].new, Exists(tx[f].id)'
               PROVE  /\ tx'[f].slug = docs'[tx'[f].id].slug
                      /\ tx'[f].rev <= docs'[tx'[f].id].rev + 1
                      /\ tx'[f].from.id = tx'[f].id =>
                           tx'[f].rev > 1 /\ tx'[f].from.key = revs'[tx'[f].id][tx'[f].rev - 1]
    BY DEF Updates, Exists
  <2>1. f # e /\ tx'[f] = tx[f] /\ pc[f] \in Saving /\ ~tx[f].new
    BY <1>2
  <2>2. tx[f].id \in Ids /\ tx[f].rev \in 0..MaxRev
    BY <2>1 DEF Requests, Saving, TypeOK, AnyId
  <2>3. Exists(tx[f].id)
    BY <1>5, <1>12, <1>13, <2>1, <2>2
  <2>4. /\ tx[f].slug = docs[tx[f].id].slug /\ tx[f].rev <= docs[tx[f].id].rev + 1
        /\ tx[f].from.id = tx[f].id =>
             tx[f].rev > 1 /\ tx[f].from.key = revs[tx[f].id][tx[f].rev - 1]
    BY <2>1, <2>3 DEF Updates
  <2>5. CASE tx[f].id # i
    BY <1>3, <2>1, <2>2, <2>4, <2>5
  <2>6. CASE tx[f].id = i
    <3>1. ~x.new /\ docs'[i].slug = docs[i].slug /\ docs'[i].rev = n
      BY <1>3, <1>12, <1>13, <2>1, <2>6
    <3>2. tx[f].rev <= n + 1
      BY <1>1, <2>2, <2>4, <2>6, DocsAssumption
    <3>3. tx[f].rev > 1 => revs'[i][tx[f].rev - 1] = revs[i][tx[f].rev - 1]
      <4>1. tx[f].rev > 1 => tx[f].rev - 1 \in 1..MaxRev /\ tx[f].rev - 1 # n
        BY <1>1, <2>2, <2>4, <2>6, DocsAssumption
      <4> QED BY <1>3, <4>1
    <3> QED BY <2>1, <2>4, <2>6, <3>1, <3>2, <3>3
  <2> QED BY <2>5, <2>6
<1>16. Views'
  <2> SUFFICES ASSUME NEW f \in Editors, view[f].id # NoId, Exists(view[f].id)'
               PROVE  /\ view[f].rev > 0
                      /\ view[f].rev <= docs'[view[f].id].rev
                      /\ view[f].key = revs'[view[f].id][view[f].rev]
    BY DEF Views, Exists
  <2>1. view[f].id \in Ids /\ view[f].rev \in 0..MaxRev
    BY DEF TypeOK, AnyId
  <2>2. Exists(view[f].id)
    <3>1. Exists(view[f].id)' <=> docs'[view[f].id].slug # NoSlug
      BY DEF Exists
    <3>2. \A j \in Ids : docs'[j].slug # NoSlug => Exists(j) \/ j = i
      BY <1>3 DEF Exists
    <3> QED BY <1>12, <1>13, <2>1, <3>1, <3>2
  <2>3. /\ view[f].rev > 0 /\ view[f].rev <= docs[view[f].id].rev
        /\ view[f].key = revs[view[f].id][view[f].rev]
    BY <2>2 DEF Views
  <2>4. CASE view[f].id # i
    BY <1>3, <2>1, <2>3, <2>4
  <2>5. CASE view[f].id = i
    <3>1. view[f].rev \in 1..MaxRev /\ view[f].rev < n /\ docs'[i].rev = n
      BY <1>1, <1>3, <2>1, <2>3, <2>5, DocsAssumption
    <3> QED BY <1>1, <1>3, <2>3, <2>5, <3>1, DocsAssumption
  <2> QED BY <2>4, <2>5
<1>17. Readers'
  <2> SUFFICES ASSUME NEW f \in Editors, pc'[f] = "read", Exists(tx[f].id)'
               PROVE  /\ tx'[f].key # NoKey
                      /\ \E m \in 1..MaxRev : revs'[tx'[f].id][m] = tx'[f].key
    BY DEF Readers, Exists
  <2>1. f # e /\ tx'[f] = tx[f] /\ pc[f] = "read"
    BY <1>2
  <2>2. tx[f].id \in Ids
    BY <2>1 DEF Requests, TypeOK, AnyId
  <2>3. Exists(tx[f].id)
    BY <1>5, <1>12, <1>13, <2>1, <2>2
  <2>4. PICK m \in 1..MaxRev : revs[tx[f].id][m] = tx[f].key /\ tx[f].key # NoKey
    BY <2>1, <2>3 DEF Readers
  <2>5. revs'[tx[f].id][m] = tx[f].key
    BY <1>1, <1>3, <2>2, <2>4
  <2> QED BY <2>1, <2>4, <2>5
<1>18. Held'
  <2> SUFFICES ASSUME NEW f \in Editors, pc'[f] \in Holding
               PROVE  /\ tx'[f].key \in objects'
                      /\ \A j \in Ids : ~Names(j, tx[f].key)'
                      /\ \A g \in Editors :
                           /\ g # f => tx'[g].key # tx'[f].key
                           /\ tx'[g].old.key # tx'[f].key
                           /\ tx'[f].key \notin tx'[g].keys
    BY DEF Held, Holding
  <2>1. f # e /\ tx'[f] = tx[f] /\ pc[f] \in Holding
    BY <1>2
  <2>2. tx[f].key \in objects /\ \A j \in Ids : ~Names(j, tx[f].key)
    BY <2>1 DEF Held
  <2>3. tx[f].key # NoKey /\ tx[f].key \in Keys /\ tx[f].key # k
    BY <1>12, <2>1, <2>2, DocsAssumption DEF TypeOK
  <2>4. \A j \in Ids : ~Names(j, tx[f].key)'
    BY <1>6, <2>1, <2>2, <2>3
  <2>5. \A g \in Editors : tx'[g] = NoTx \/ tx'[g] = tx[g]
    BY <1>2
  <2>6. NoTx.key = NoKey /\ NoTx.old.key = NoKey /\ NoTx.keys = {}
    BY DEF NoTx, NoAsset
  <2>7. QED BY <2>1, <2>2, <2>3, <2>4, <2>5, <2>6 DEF Held
<1>19. Doomed'
  <2> SUFFICES ASSUME NEW f \in Editors
               PROVE  /\ pc'[f] = "cleanup" /\ faults'.acks = 0 =>
                           \A j \in Ids : ~Names(j, tx[f].key)'
                      /\ pc'[f] = "supersede" => \A j \in Ids : ~Names(j, tx[f].old.key)'
                      /\ pc'[f] = "sweep" =>
                           \A j \in Ids, c \in Keys : c \in tx'[f].keys => ~Names(j, c)'
                      /\ pc'[f] = "delete" =>
                           \A j \in Ids, c \in Keys :
                               c \in tx'[f].keys /\ Names(j, c)' => j = tx'[f].id
                      /\ pc'[f] \in {"assetCommit", "assetDelete"} =>
                           \A j \in Ids : Names(j, tx[f].old.key)' =>
                               /\ j = tx'[f].id /\ asset'[j].key = tx'[f].old.key
                               /\ asset'[j].row = tx'[f].old.row
                      /\ pc'[f] \in {"assetCommit", "assetDelete"} =>
                           \A m \in 1..MaxRev : revs'[tx'[f].id][m] # NoKey =>
                               revs'[tx'[f].id][m] # tx'[f].old.key
    BY DEF Doomed, Names
  <2>1. CASE f = e
    BY <1>2, <2>1
  <2>2. CASE f # e
    <3>1. /\ tx'[f] = tx[f] /\ pc'[f] = pc[f]
          /\ tx[f].key # k /\ tx[f].old.key # k /\ k \notin tx[f].keys
      BY <1>2, <1>12, <2>2
    <3>2. \A j \in Ids : \A c : c # k /\ Names(j, c)' => Names(j, c)
      <4> SUFFICES ASSUME NEW j \in Ids, NEW c, c # k, Names(j, c)' PROVE Names(j, c)
        OBVIOUS
      <4>1. c \in Keys
        BY DEF Names
      <4> QED BY <1>6, <4>1
    <3>3. tx[f].id # NoId => tx[f].id \in Ids
      BY DEF TypeOK, AnyId
    <3>4. \A m \in 1..MaxRev : tx[f].id \in Ids =>
              revs'[tx[f].id][m] = revs[tx[f].id][m] \/ revs'[tx[f].id][m] = k
      BY <1>3
    <3>5. pc[f] # "idle" => tx[f].id \in Ids
      BY <3>3 DEF Requests
    <3>6. /\ pc[f] = "cleanup" /\ faults'.acks = 0 => \A j \in Ids : ~Names(j, tx[f].key)'
          /\ pc[f] = "supersede" => \A j \in Ids : ~Names(j, tx[f].old.key)'
      BY <1>2, <3>1, <3>2 DEF Doomed
    <3>7. /\ pc[f] = "sweep" => \A j \in Ids, c \in Keys : c \in tx[f].keys => ~Names(j, c)'
          /\ pc[f] = "delete" => \A j \in Ids, c \in Keys :
                                     c \in tx[f].keys /\ Names(j, c)' => j = tx[f].id
      BY <3>1, <3>2 DEF Doomed
    <3>8. pc[f] \in {"assetCommit", "assetDelete"} =>
              \A j \in Ids : Names(j, tx[f].old.key)' =>
                  /\ j = tx[f].id /\ asset[j].key = tx[f].old.key
                  /\ asset[j].row = tx[f].old.row
      BY <3>1, <3>2 DEF Doomed
    <3>9. pc[f] \in {"assetCommit", "assetDelete"} =>
              \A m \in 1..MaxRev : revs'[tx[f].id][m] # NoKey => revs'[tx[f].id][m] # tx[f].old.key
      BY <3>1, <3>4, <3>5 DEF Doomed
    <3> QED BY <3>1, <3>6, <3>7, <3>8, <3>9
  <2> QED BY <2>1, <2>2
<1>20. Bytes'
  <2>1. k \in objects
    BY <1>2 DEF Held, k
  <2> QED BY <1>2, <1>6, <2>1 DEF Bytes
<1>21. SlugUnique'
  <2> SUFFICES ASSUME NEW j \in Ids, NEW l \in Ids, docs'[j].slug # NoSlug,
                      docs'[j].slug = docs'[l].slug
               PROVE  j = l
    BY DEF SlugUnique, Exists
  <2>1. \A o \in Ids : o # i => docs[o].slug # x.slug
    BY <1>1, <1>13 DEF SlugUnique
  <2> QED BY <1>1, <1>3, <2>1 DEF SlugUnique, Exists
<1>22. NoLostUpdate'
  <2> SUFFICES ASSUME NEW j \in Ids, NEW m \in 1..MaxRev, revs'[j][m] # NoKey,
                      origin'[revs'[j][m]].id = j
               PROVE  m > 1 /\ origin'[revs'[j][m]].key = revs'[j][m - 1]
    BY DEF NoLostUpdate
  <2>1. CASE j = i /\ m = n
    <3>1. revs'[j][m] = k /\ origin'[k] = x.from /\ x.from.id = i
      BY <1>3, <2>1
    <3>2. ~x.new
      BY <1>1, <3>1 DEF Requests, x
    <3>3. n > 1 /\ x.from.key = revs[i][n - 1]
      BY <1>2, <1>13, <3>1, <3>2 DEF Updates, x, i, n
    <3>4. n - 1 \in 1..MaxRev /\ n - 1 # n
      BY <1>1, <3>3, DocsAssumption
    <3> QED BY <1>3, <2>1, <3>1, <3>3, <3>4
  <2>2. CASE ~(j = i /\ m = n)
    <3>1. revs'[j][m] = revs[j][m]
      BY <1>3, <2>2
    <3>2. revs[j][m] \in Keys /\ revs[j][m] # k
      <4>1. revs[j][m] \in Keys
        BY <3>1, RevTypes DEF AnyKey
      <4> QED BY <1>7, <4>1 DEF Names
    <3>3. m > 1 /\ origin[revs[j][m]].key = revs[j][m - 1]
      BY <1>3, <3>1, <3>2 DEF NoLostUpdate
    <3>4. m - 1 \in 1..MaxRev
      BY <3>3, DocsAssumption
    <3>5. ~(j = i /\ m - 1 = n)
      BY <1>1, <3>1, DocsAssumption DEF HistoryComplete
    <3> QED BY <1>3, <3>1, <3>2, <3>3, <3>4, <3>5
  <2> QED BY <2>1, <2>2
<1>23. QED BY <1>4, <1>8, <1>9, <1>10, <1>11, <1>14, <1>15, <1>16, <1>17, <1>18, <1>19, <1>20, <1>21, <1>22

\* _store_revision's commit: it adds the revision, or the object is removed.
LEMMA CommitBodyKeeps ==
    ASSUME IInv, NEW e \in Editors, CommitBody(e)
    PROVE  IInv'
<1>1. CASE /\ Commits(e) /\ WriteRevision(e) /\ Done(e)
           /\ UNCHANGED <<asset, objects, issued, view, faults>>
  BY <1>1, Revise DEF CommitBody
<1>2. CASE /\ Goto(e, "cleanup") /\ UNCHANGED <<docs, revs, origin, tx>>
           /\ UNCHANGED <<asset, objects, issued, view, faults>>
  <2>1. pc[e] \in Holding /\ UNCHANGED <<rowVars, objects, issued, origin, view, tx, faults>>
    BY <1>2 DEF CommitBody, Holding, rowVars
  <2> QED BY <1>2, <2>1, FailKeeps
<1>3. QED BY <1>1, <1>2 DEF CommitBody

\* The same commit with its answer lost: from here on the promises that need
\* true answers are off.
LEMMA CommitBodyUnknownKeeps ==
    ASSUME IInv, NEW e \in Editors, CommitBodyUnknown(e)
    PROVE  IInv'
<1>1. faults' \in [crashes : 0..MaxFaults, acks : 0..MaxFaults] /\ faults'.acks # 0
  <2>1. faults \in [crashes : 0..MaxFaults, acks : 0..MaxFaults]
    BY DEF IInv, TypeOK
  <2>2. faults.acks + 1 \in 0..MaxFaults /\ faults.acks + 1 # 0
    BY <2>1, DocsAssumption DEF CommitBodyUnknown
  <2> QED BY <2>1, <2>2 DEF CommitBodyUnknown
<1>2. QED BY <1>1, Revise DEF CommitBodyUnknown

-----------------------------------------------------------------------------
(* The steps that end a request.                                           *)

\* store.delete(key) after a commit that failed.
LEMMA CleanupKeeps ==
    ASSUME IInv, NEW e \in Editors, Cleanup(e)
    PROVE  IInv'
<1>1. objects' \subseteq objects /\ \A k \in objects \ objects' : k = tx[e].key
  BY DEF Cleanup
<1>2. /\ faults.acks = 0 => \A i \in Ids : ~Names(i, tx[e].key)
      /\ \A f \in Editors : f # e /\ pc[f] \in Holding => tx[f].key # tx[e].key
  BY DEF Cleanup, IInv, Doomed, Held
<1>3. faults' \in [crashes : 0..MaxFaults, acks : 0..MaxFaults] /\ faults'.acks = faults.acks
  BY DEF Cleanup, IInv, TypeOK
<1>4. Done(e) /\ UNCHANGED <<rowVars, issued, origin, view>>
  BY DEF Cleanup
<1>5. QED BY <1>1, <1>2, <1>3, <1>4, Finish

\* delete_many after the rows of the document are gone.
LEMMA SweepKeeps ==
    ASSUME IInv, NEW e \in Editors, Sweep(e)
    PROVE  IInv'
<1>1. objects' \subseteq objects /\ \A k \in objects \ objects' : k \in tx[e].keys
  BY DEF Sweep
<1>2. /\ \A i \in Ids, k \in tx[e].keys : ~Names(i, k)
      /\ \A f \in Editors : pc[f] \in Holding => tx[f].key \notin tx[e].keys
  BY DEF Sweep, IInv, Doomed, Held
<1>3. faults' \in [crashes : 0..MaxFaults, acks : 0..MaxFaults] /\ faults'.acks = faults.acks
  BY DEF Sweep, IInv, TypeOK
<1>4. Done(e) /\ UNCHANGED <<rowVars, issued, origin, view>>
  BY DEF Sweep
<1>5. QED BY <1>1, <1>2, <1>3, <1>4, Finish

\* The removal of the object an asset row named before.
LEMMA SupersedeKeeps ==
    ASSUME IInv, NEW e \in Editors, Supersede(e)
    PROVE  IInv'
<1>1. objects' \subseteq objects /\ \A k \in objects \ objects' : k = tx[e].old.key
  BY DEF Supersede
<1>2. /\ \A i \in Ids : ~Names(i, tx[e].old.key)
      /\ \A f \in Editors : pc[f] \in Holding => tx[f].key # tx[e].old.key
  BY DEF Supersede, IInv, Doomed, Held
<1>3. faults' \in [crashes : 0..MaxFaults, acks : 0..MaxFaults] /\ faults'.acks = faults.acks
  BY DEF Supersede, IInv, TypeOK
<1>4. Done(e) /\ UNCHANGED <<rowVars, issued, origin, view>>
  BY DEF Supersede
<1>5. QED BY <1>1, <1>2, <1>3, <1>4, Finish

\* A reader that is done.
LEMMA ReadBodyKeeps ==
    ASSUME IInv, NEW e \in Editors, ReadBody(e)
    PROVE  IInv'
<1>1. faults' \in [crashes : 0..MaxFaults, acks : 0..MaxFaults] /\ faults'.acks = faults.acks
  BY DEF ReadBody, IInv, TypeOK
<1>2. Done(e) /\ UNCHANGED <<rowVars, objects, issued, origin, view>>
  BY DEF ReadBody
<1>3. QED BY <1>1, <1>2, Finish

\* A thread that dies with its process.
LEMMA CrashKeeps ==
    ASSUME IInv, NEW e \in Editors, Crash(e)
    PROVE  IInv'
<1>1. faults' \in [crashes : 0..MaxFaults, acks : 0..MaxFaults] /\ faults'.acks = faults.acks
  <2>1. faults \in [crashes : 0..MaxFaults, acks : 0..MaxFaults]
    BY DEF IInv, TypeOK
  <2>2. faults.crashes + 1 \in 0..MaxFaults
    BY <2>1, DocsAssumption DEF Crash
  <2> QED BY <2>1, <2>2 DEF Crash
<1>2. Done(e) /\ UNCHANGED <<rowVars, objects, issued, origin, view>>
  BY DEF Crash
<1>3. QED BY <1>1, <1>2, Finish

-----------------------------------------------------------------------------
(* Deleting.                                                               *)

\* The rows of a document go: nothing of it is named any more, so its keys are
\* free to be removed.
LEMMA DeleteCommitKeeps ==
    ASSUME IInv, NEW e \in Editors, DeleteCommit(e)
    PROVE  IInv'
<1> USE DEF IInv
<1> DEFINE i == tx[e].id
<1>1. i \in Ids /\ pc[e] = "delete"
  BY DEF DeleteCommit, Requests, TypeOK, AnyId
<1>2. /\ docs'[i] = NoDoc /\ revs'[i] = NoRevs /\ asset'[i] = NoAsset
      /\ \A j \in Ids : j # i => docs'[j] = docs[j] /\ revs'[j] = revs[j] /\ asset'[j] = asset[j]
      /\ UNCHANGED <<objects, issued, origin, view, tx, faults>>
  BY <1>1 DEF DeleteCommit, TypeOK
<1>3. /\ pc'[e] = "sweep" /\ \A f \in Editors : f # e => pc'[f] = pc[f]
      /\ pc[e] \notin Holding /\ pc'[e] \notin Holding
      /\ pc[e] \notin Saving /\ pc'[e] \notin Saving
  BY <1>1 DEF DeleteCommit, Goto, TypeOK, Holding, Saving
<1>4. TypeOK'
  <2>1. /\ docs' \in [Ids -> [slug : AnySlug, rev : 0..MaxRev, key : AnyKey]]
        /\ revs' \in [Ids -> [1..MaxRev -> AnyKey]]
        /\ asset' \in [Ids -> Asset]
    BY <1>1, NoneTypes DEF DeleteCommit, TypeOK
  <2>2. pc' \in [Editors -> Pcs]
    BY DEF DeleteCommit, Goto, TypeOK, Pcs
  <2> QED BY <1>2, <2>1, <2>2 DEF TypeOK, Pcs
<1> HIDE DEF i
<1>5. /\ NoDoc.slug = NoSlug /\ NoDoc.rev = 0 /\ NoAsset.key = NoKey
      /\ \A n \in 1..MaxRev : NoRevs[n] = NoKey
  BY DEF NoDoc, NoAsset, NoRevs
<1>6. \A j \in Ids : Exists(j)' <=> (Exists(j) /\ j # i)
  BY <1>2, <1>5 DEF Exists
<1>7. \A j \in Ids : \A c : Names(j, c)' <=> (Names(j, c) /\ j # i)
  <2> SUFFICES ASSUME NEW j \in Ids, NEW c PROVE Names(j, c)' <=> (Names(j, c) /\ j # i)
    OBVIOUS
  <2>1. CASE j = i
    BY <1>2, <1>5, <2>1, DocsAssumption DEF Names
  <2>2. CASE j # i
    BY <1>2, <2>2 DEF Names
  <2> QED BY <2>1, <2>2
<1>8. Rows'
  BY <1>2, <1>6 DEF Rows
<1>9. HistoryComplete'
  <2> SUFFICES ASSUME NEW j \in Ids
               PROVE  /\ \A m \in 1..MaxRev : revs'[j][m] # NoKey <=> m <= docs'[j].rev
                      /\ Exists(j)' => docs'[j].rev > 0 /\ docs'[j].key = revs'[j][docs'[j].rev]
    BY DEF HistoryComplete
  <2>1. CASE j # i
    BY <1>2, <1>6, <2>1 DEF HistoryComplete
  <2>2. CASE j = i
    BY <1>2, <1>5, <1>6, <2>2, DocsAssumption
  <2> QED BY <2>1, <2>2
<1>10. Placed'
  BY <1>2, <1>5, <1>7 DEF Placed
<1>11. Requests'
  BY <1>1, <1>2, <1>3 DEF Requests
<1>12. Inserts'
  <2>1. \A f \in Editors : pc'[f] \in Saving => pc[f] \in Saving /\ tx[f].id \in Ids
                                               /\ tx[f].slug # NoSlug
    BY <1>3 DEF Requests, TypeOK, AnyId, Saving
  <2> SUFFICES ASSUME NEW f \in Editors, pc'[f] \in Saving, tx[f].new
               PROVE  /\ ~Exists(tx[f].id)'
                      /\ \A j \in Ids : docs'[j].slug # tx[f].slug
                      /\ \A g \in Editors : view[g].id # tx[f].id
                      /\ \A g \in Editors : g # f =>
                           /\ tx[g].id # tx[f].id
                           /\ ~(pc'[g] \in Saving /\ tx[g].new /\ tx[g].slug = tx[f].slug)
    BY <1>2 DEF Inserts, Exists
  <2>2. ~Exists(tx[f].id)'
    BY <1>2, <1>6, <2>1 DEF Inserts
  <2>3. \A j \in Ids : docs'[j].slug # tx[f].slug
    BY <1>2, <1>5, <2>1 DEF Inserts
  <2> QED BY <2>1, <2>2, <2>3 DEF Inserts
<1>13. Updates'
  <2> SUFFICES ASSUME NEW f \in Editors, pc'[f] \in Saving, ~tx[f].new, Exists(tx[f].id)'
               PROVE  /\ tx[f].slug = docs'[tx[f].id].slug
                      /\ tx[f].rev <= docs'[tx[f].id].rev + 1
                      /\ tx[f].from.id = tx[f].id =>
                           tx[f].rev > 1 /\ tx[f].from.key = revs'[tx[f].id][tx[f].rev - 1]
    BY <1>2 DEF Updates, Exists
  <2>1. pc[f] \in Saving /\ tx[f].id \in Ids
    BY <1>3 DEF Requests, TypeOK, AnyId, Saving
  <2>2. Exists(tx[f].id) /\ tx[f].id # i
    BY <1>2, <1>6, <2>1
  <2> QED BY <1>2, <2>1, <2>2 DEF Updates
<1>14. Views'
  <2> SUFFICES ASSUME NEW f \in Editors, view[f].id # NoId, Exists(view[f].id)'
               PROVE  /\ view[f].rev > 0
                      /\ view[f].rev <= docs'[view[f].id].rev
                      /\ view[f].key = revs'[view[f].id][view[f].rev]
    BY <1>2 DEF Views, Exists
  <2>1. view[f].id \in Ids
    BY DEF TypeOK, AnyId
  <2>2. Exists(view[f].id) /\ view[f].id # i
    BY <1>2, <1>6, <2>1
  <2> QED BY <1>2, <2>1, <2>2 DEF Views
<1>15. Readers'
  <2> SUFFICES ASSUME NEW f \in Editors, pc'[f] = "read", Exists(tx[f].id)'
               PROVE  /\ tx[f].key # NoKey
                      /\ \E m \in 1..MaxRev : revs'[tx[f].id][m] = tx[f].key
    BY <1>2 DEF Readers, Exists
  <2>1. pc[f] = "read" /\ tx[f].id \in Ids
    BY <1>3 DEF Requests, TypeOK, AnyId
  <2>2. Exists(tx[f].id) /\ tx[f].id # i
    BY <1>2, <1>6, <2>1
  <2> QED BY <1>2, <2>1, <2>2 DEF Readers
<1>16. Held'
  <2>1. \A f \in Editors : pc'[f] \in Holding => pc[f] \in Holding
    BY <1>3
  <2> QED BY <1>2, <1>7, <2>1 DEF Held
<1>17. Doomed'
  <2> SUFFICES ASSUME NEW f \in Editors
               PROVE  /\ pc'[f] = "cleanup" /\ faults.acks = 0 =>
                           \A j \in Ids : ~Names(j, tx[f].key)'
                      /\ pc'[f] = "supersede" => \A j \in Ids : ~Names(j, tx[f].old.key)'
                      /\ pc'[f] = "sweep" =>
                           \A j \in Ids, c \in Keys : c \in tx[f].keys => ~Names(j, c)'
                      /\ pc'[f] = "delete" =>
                           \A j \in Ids, c \in Keys :
                               c \in tx[f].keys /\ Names(j, c)' => j = tx[f].id
                      /\ pc'[f] \in {"assetCommit", "assetDelete"} =>
                           \A j \in Ids : Names(j, tx[f].old.key)' =>
                               /\ j = tx[f].id /\ asset'[j].key = tx[f].old.key
                               /\ asset'[j].row = tx[f].old.row
                      /\ pc'[f] \in {"assetCommit", "assetDelete"} =>
                           \A m \in 1..MaxRev : revs'[tx[f].id][m] # NoKey =>
                               revs'[tx[f].id][m] # tx[f].old.key
    BY <1>2 DEF Doomed, Names
  <2>1. CASE f = e
    <3>1. \A j \in Ids, c \in Keys : c \in tx[e].keys => ~Names(j, c)'
      BY <1>1, <1>7 DEF Doomed, i
    <3> QED BY <1>3, <2>1, <3>1
  <2>2. CASE f # e
    <3>1. pc'[f] = pc[f]
      BY <1>3, <2>2
    <3>2. pc[f] # "idle" => tx[f].id \in Ids
      BY DEF Requests, TypeOK, AnyId
    <3>3. pc[f] \in {"assetCommit", "assetDelete"} =>
              \A m \in 1..MaxRev : revs'[tx[f].id][m] # NoKey => revs'[tx[f].id][m] # tx[f].old.key
      BY <1>2, <1>5, <3>2 DEF Doomed
    <3>4. pc[f] \in {"assetCommit", "assetDelete"} =>
              \A j \in Ids : Names(j, tx[f].old.key)' =>
                  /\ j = tx[f].id /\ asset'[j].key = tx[f].old.key
                  /\ asset'[j].row = tx[f].old.row
      BY <1>2, <1>7 DEF Doomed
    <3>5. /\ pc[f] = "cleanup" /\ faults.acks = 0 => \A j \in Ids : ~Names(j, tx[f].key)'
          /\ pc[f] = "supersede" => \A j \in Ids : ~Names(j, tx[f].old.key)'
      BY <1>2, <1>7 DEF Doomed
    <3>6. /\ pc[f] = "sweep" => \A j \in Ids, c \in Keys : c \in tx[f].keys => ~Names(j, c)'
          /\ pc[f] = "delete" => \A j \in Ids, c \in Keys :
                                     c \in tx[f].keys /\ Names(j, c)' => j = tx[f].id
      BY <1>7 DEF Doomed
    <3> QED BY <3>1, <3>3, <3>4, <3>5, <3>6
  <2> QED BY <2>1, <2>2
<1>18. Bytes'
  BY <1>2, <1>7 DEF Bytes
<1>19. SlugUnique' /\ NoLostUpdate'
  BY <1>2, <1>5 DEF SlugUnique, NoLostUpdate, Exists
<1>20. QED BY <1>4, <1>8, <1>9, <1>10, <1>11, <1>12, <1>13, <1>14, <1>15, <1>16, <1>17, <1>18, <1>19

-----------------------------------------------------------------------------
(* Assets.                                                                 *)

\* The asset row of a document is written: it names the key the request put,
\* or nothing, or it is not the row the request read and stays.  Afterwards
\* no row names the object the request read there.
LEMMA AssetWrite ==
    ASSUME IInv, NEW e \in Editors, pc[e] \in {"assetCommit", "assetDelete"},
           NEW a \in Asset, asset' = [asset EXCEPT ![tx[e].id] = a],
           \/ a = NoAsset
           \/ /\ pc[e] = "assetCommit" /\ Exists(tx[e].id)
              /\ a.row \in Keys /\ a.key = tx[e].key
           \/ a = asset[tx[e].id] /\ asset[tx[e].id].row # tx[e].old.row,
           Goto(e, "supersede"),
           UNCHANGED <<docs, revs, objects, issued, origin, view, tx, faults>>
    PROVE  IInv'
<1> USE DEF IInv
<1> DEFINE i == tx[e].id
<1> DEFINE k == tx[e].key
<1>1. i \in Ids
  BY DEF Requests, TypeOK, AnyId
<1>2. asset'[i] = a /\ \A j \in Ids : j # i => asset'[j] = asset[j]
  BY <1>1 DEF TypeOK
<1>3. /\ pc'[e] = "supersede" /\ \A f \in Editors : f # e => pc'[f] = pc[f]
      /\ pc'[e] \notin Holding /\ pc[e] \notin Saving /\ pc'[e] \notin Saving
  BY DEF Goto, TypeOK, Holding, Saving
<1>4. TypeOK'
  <2>1. asset' \in [Ids -> Asset]
    BY <1>1 DEF TypeOK
  <2>2. pc' \in [Editors -> Pcs]
    BY DEF Goto, TypeOK, Pcs
  <2> QED BY <2>1, <2>2 DEF TypeOK, Pcs
<1>5. pc[e] = "assetCommit" =>
          /\ k \in Keys /\ k \in issued.keys /\ k \in objects
          /\ \A j \in Ids : ~Names(j, k)
          /\ \A f \in Editors : /\ f # e => tx[f].key # k
                                /\ tx[f].old.key # k /\ k \notin tx[f].keys
  BY DEF Held, Holding, TypeOK
<1> HIDE DEF i, k
<1>6. a = NoAsset \/ (a.row \in Keys /\ a.key \in Keys)
  BY <1>1, <1>5 DEF Rows, i, k
<1>7. \A j \in Ids : /\ Exists(j)' <=> Exists(j)
                     /\ docs'[j] = docs[j] /\ revs'[j] = revs[j]
  BY DEF Exists
<1>8. NoAsset.key = NoKey
  BY DEF NoAsset
<1>9. \A j \in Ids : \A c : Names(j, c)' =>
          \/ j = i /\ c = k /\ pc[e] = "assetCommit"
          \/ Names(j, c) /\ (j = i => a = asset[i] \/ c # asset[i].key)
  <2> SUFFICES ASSUME NEW j \in Ids, NEW c, Names(j, c)'
               PROVE  \/ j = i /\ c = k /\ pc[e] = "assetCommit"
                      \/ Names(j, c) /\ (j = i => a = asset[i] \/ c # asset[i].key)
    OBVIOUS
  <2>1. c \in Keys /\ c # NoKey
    BY DocsAssumption DEF Names
  <2>2. CASE j # i
    BY <1>2, <2>2 DEF Names
  <2>3. CASE j = i
    <3>1. CASE asset'[j].key = c
      BY <1>2, <1>8, <2>1, <2>3, <3>1 DEF Names, i, k
    <3>2. CASE \E n \in 1..MaxRev : revs[i][n] = c
      BY <1>1, <2>1, <2>3, <3>2 DEF Names, Placed
    <3> QED BY <2>3, <3>1, <3>2 DEF Names
  <2> QED BY <2>2, <2>3
<1>10. Rows'
  <2>1. ~Exists(i) => a = NoAsset
    BY <1>1 DEF Rows, i
  <2> QED BY <1>1, <1>2, <1>6, <1>7, <2>1 DEF Rows
<1>11. HistoryComplete' /\ SlugUnique' /\ NoLostUpdate'
  BY DEF HistoryComplete, SlugUnique, NoLostUpdate, Exists
<1>12. Placed'
  <2>1. \A j \in Ids, c \in Keys : Names(j, c)' => c \in issued'.keys
    BY <1>5, <1>9 DEF Placed
  <2>2. \A j, l \in Ids, c \in Keys : Names(j, c)' /\ Names(l, c)' => j = l
    BY <1>1, <1>5, <1>9 DEF Placed
  <2>3. ASSUME NEW j \in Ids, NEW n \in 1..MaxRev, revs[j][n] # NoKey
        PROVE  asset'[j].key # revs[j][n]
    <3>1. CASE j # i
      BY <1>2, <2>3, <3>1 DEF Placed
    <3>2. CASE j = i
      <4>1. revs[i][n] # k \/ pc[e] # "assetCommit"
        BY <1>1, <1>5 DEF Names
      <4> QED BY <1>2, <1>8, <2>3, <3>2, <4>1 DEF Placed, i, k
    <3> QED BY <3>1, <3>2
  <2> QED BY <2>1, <2>2, <2>3 DEF Placed
<1>13. Requests'
  BY <1>3 DEF Requests
<1>14. \A f \in Editors : pc'[f] \in Saving <=> pc[f] \in Saving
  BY <1>3
<1>15. Inserts' /\ Updates' /\ Views'
  BY <1>14 DEF Inserts, Updates, Views, Exists
<1>16. Readers'
  BY <1>3 DEF Readers, Exists
<1>17. Held'
  <2> SUFFICES ASSUME NEW f \in Editors, pc'[f] \in Holding
               PROVE  /\ tx[f].key \in objects
                      /\ \A j \in Ids : ~Names(j, tx[f].key)'
                      /\ \A g \in Editors :
                           /\ g # f => tx[g].key # tx[f].key
                           /\ tx[g].old.key # tx[f].key
                           /\ tx[f].key \notin tx[g].keys
    BY DEF Held, Holding
  <2>1. f # e /\ pc[f] \in Holding
    BY <1>3
  <2>2. \A j \in Ids : ~Names(j, tx[f].key)'
    BY <1>5, <1>9, <2>1 DEF Held
  <2> QED BY <2>1, <2>2 DEF Held
<1>18. Doomed'
  <2> SUFFICES ASSUME NEW f \in Editors
               PROVE  /\ pc'[f] = "cleanup" /\ faults.acks = 0 =>
                           \A j \in Ids : ~Names(j, tx[f].key)'
                      /\ pc'[f] = "supersede" => \A j \in Ids : ~Names(j, tx[f].old.key)'
                      /\ pc'[f] = "sweep" =>
                           \A j \in Ids, c \in Keys : c \in tx[f].keys => ~Names(j, c)'
                      /\ pc'[f] = "delete" =>
                           \A j \in Ids, c \in Keys :
                               c \in tx[f].keys /\ Names(j, c)' => j = tx[f].id
                      /\ pc'[f] \in {"assetCommit", "assetDelete"} =>
                           \A j \in Ids : Names(j, tx[f].old.key)' =>
                               /\ j = tx[f].id /\ asset'[j].key = tx[f].old.key
                               /\ asset'[j].row = tx[f].old.row
                      /\ pc'[f] \in {"assetCommit", "assetDelete"} =>
                           \A m \in 1..MaxRev : revs[tx[f].id][m] # NoKey =>
                               revs[tx[f].id][m] # tx[f].old.key
    BY DEF Doomed, Names
  <2>1. CASE f = e
    <3>1. ASSUME NEW j \in Ids, Names(j, tx[e].old.key)' PROVE FALSE
      <4>1. Names(j, tx[e].old.key) /\ (j = i => a = asset[i] \/ tx[e].old.key # asset[i].key)
        BY <1>5, <1>9, <3>1
      <4>2. j = i /\ asset[i].key = tx[e].old.key /\ asset[i].row = tx[e].old.row
        BY <4>1 DEF Doomed, i
      <4>3. asset[i] = a
        BY <4>1, <4>2
      <4>4. a # NoAsset
        BY <1>8, <4>1, <4>2, <4>3, DocsAssumption DEF Names
      <4>5. pc[e] = "assetCommit" /\ a.key = k
        BY <4>2, <4>4 DEF i, k
      <4> QED BY <1>5, <4>2, <4>3, <4>5
    <3> QED BY <1>3, <2>1, <3>1
  <2>2. CASE f # e
    <3>1. pc'[f] = pc[f]
      BY <1>3, <2>2
    <3>2. \A j \in Ids, c \in Keys : c \in tx[f].keys /\ Names(j, c)' => Names(j, c)
      BY <1>5, <1>9
    <3>3. \A j \in Ids : Names(j, tx[f].key)' => Names(j, tx[f].key)
      BY <1>5, <1>9, <2>2
    <3>4. \A j \in Ids : Names(j, tx[f].old.key)' =>
              /\ Names(j, tx[f].old.key)
              /\ j = i => a = asset[i] \/ tx[f].old.key # asset[i].key
      BY <1>5, <1>9
    <3>5. pc[f] \in {"assetCommit", "assetDelete"} =>
              \A j \in Ids : Names(j, tx[f].old.key)' =>
                  /\ j = tx[f].id /\ asset'[j].key = tx[f].old.key
                  /\ asset'[j].row = tx[f].old.row
      BY <1>2, <3>4 DEF Doomed
    <3>6. /\ pc[f] = "cleanup" /\ faults.acks = 0 => \A j \in Ids : ~Names(j, tx[f].key)'
          /\ pc[f] = "supersede" => \A j \in Ids : ~Names(j, tx[f].old.key)'
      BY <3>3, <3>4 DEF Doomed
    <3>7. /\ pc[f] = "sweep" => \A j \in Ids, c \in Keys : c \in tx[f].keys => ~Names(j, c)'
          /\ pc[f] = "delete" => \A j \in Ids, c \in Keys :
                                     c \in tx[f].keys /\ Names(j, c)' => j = tx[f].id
      BY <3>2 DEF Doomed
    <3>8. pc[f] \in {"assetCommit", "assetDelete"} =>
              \A m \in 1..MaxRev : revs[tx[f].id][m] # NoKey => revs[tx[f].id][m] # tx[f].old.key
      BY DEF Doomed
    <3> QED BY <3>1, <3>5, <3>6, <3>7, <3>8
  <2> QED BY <2>1, <2>2
<1>19. Bytes'
  BY <1>5, <1>9 DEF Bytes
<1>20. QED BY <1>4, <1>10, <1>11, <1>12, <1>13, <1>15, <1>16, <1>17, <1>18, <1>19

\* save_asset's commit, on a row that is there or on a free name.
LEMMA AssetCommitKeeps ==
    ASSUME IInv, NEW e \in Editors, AssetCommit(e)
    PROVE  IInv'
<1> USE DEF IInv
<1> DEFINE x == tx[e]
<1>1. CASE /\ Goto(e, "cleanup") /\ UNCHANGED asset
           /\ UNCHANGED <<docs, revs, objects, issued, origin, view, tx, faults>>
  <2>1. pc[e] \in Holding /\ UNCHANGED <<rowVars, objects, issued, origin, view, tx, faults>>
    BY <1>1 DEF AssetCommit, Holding, rowVars
  <2> QED BY <1>1, <2>1, FailKeeps
<1>2. ASSUME AssetCommits(e),
             asset' = [asset EXCEPT ![x.id] =
                         [row |-> IF x.old = NoAsset THEN x.key ELSE x.old.row,
                          key |-> x.key]],
             Goto(e, "supersede"), pc[e] = "assetCommit",
             UNCHANGED <<docs, revs, objects, issued, origin, view, tx, faults>>
      PROVE  IInv'
  <2> DEFINE a == [row |-> IF x.old = NoAsset THEN x.key ELSE x.old.row, key |-> x.key]
  <2>1. x.key \in Keys /\ (x.old = NoAsset \/ x.old.row \in Keys) /\ x.id \in Ids
    BY <1>2 DEF Held, Holding, TypeOK, Requests, AnyId
  <2>2. a \in Asset /\ a.row \in Keys /\ a.key = x.key
    BY <2>1 DEF Asset, AnyKey
  <2>3. Exists(x.id)
    <3>1. CASE x.old = NoAsset
      BY <1>2, <3>1 DEF AssetCommits
    <3>2. CASE x.old # NoAsset
      <4>1. asset[x.id].row \in Keys
        BY <1>2, <2>1, <3>2 DEF AssetCommits
      <4>2. asset[x.id] # NoAsset
        BY <4>1, DocsAssumption DEF NoAsset
      <4> QED BY <2>1, <4>2 DEF Rows
    <3> QED BY <3>1, <3>2
  <2>4. asset' = [asset EXCEPT ![tx[e].id] = a]
    BY <1>2
  <2> HIDE DEF a
  <2> QED BY <1>2, <2>2, <2>3, <2>4, AssetWrite
<1>3. QED BY <1>1, <1>2 DEF AssetCommit

\* The deletion of an asset row by the primary key it was read with.
LEMMA AssetDeleteCommitKeeps ==
    ASSUME IInv, NEW e \in Editors, AssetDeleteCommit(e)
    PROVE  IInv'
<1> USE DEF IInv
<1> DEFINE i == tx[e].id
<1>1. i \in Ids /\ pc[e] = "assetDelete"
  BY DEF AssetDeleteCommit, Requests, TypeOK, AnyId
<1>2. /\ Goto(e, "supersede")
      /\ UNCHANGED <<docs, revs, objects, issued, origin, view, tx, faults>>
  BY DEF AssetDeleteCommit
<1>3. CASE asset[i].row = tx[e].old.row
  <2>1. asset' = [asset EXCEPT ![tx[e].id] = NoAsset] /\ NoAsset \in Asset
    BY <1>3, NoneTypes DEF AssetDeleteCommit
  <2> QED BY <1>1, <1>2, <2>1, AssetWrite
<1>4. CASE asset[i].row # tx[e].old.row
  <2>1. asset' = asset /\ asset[i] \in Asset
    BY <1>1, <1>4 DEF AssetDeleteCommit, TypeOK
  <2>2. asset' = [asset EXCEPT ![tx[e].id] = asset[i]]
    BY <1>1, <2>1 DEF TypeOK
  <2> QED BY <1>1, <1>2, <1>4, <2>1, <2>2, AssetWrite
<1>5. QED BY <1>3, <1>4

-----------------------------------------------------------------------------
(* The theorems.                                                           *)

\* An empty catalogue.
LEMMA InitIInv == Init => IInv
<1> SUFFICES ASSUME Init PROVE IInv
  OBVIOUS
<1> USE DEF Init
<1>1. /\ \A e \in Editors : pc[e] = "idle" /\ tx[e] = NoTx /\ view[e] = NoView
      /\ \A i \in Ids : docs[i] = NoDoc /\ revs[i] = NoRevs /\ asset[i] = NoAsset
  OBVIOUS
<1>2. /\ NoTx.id = NoId /\ NoTx.key = NoKey /\ NoTx.old = NoAsset /\ NoTx.keys = {} /\ ~NoTx.new
      /\ NoView.id = NoId /\ NoDoc.slug = NoSlug /\ NoDoc.rev = 0 /\ NoAsset.key = NoKey
      /\ \A n \in 1..MaxRev : NoRevs[n] = NoKey
  BY DEF NoTx, NoView, NoDoc, NoAsset, NoRevs
<1>3. \A i \in Ids : ~Exists(i) /\ \A k : ~Names(i, k)
  BY <1>1, <1>2, DocsAssumption DEF Exists, Names
<1>4. TypeOK
  <2>1. NoView \in [id : AnyId, slug : AnySlug, rev : 0..MaxRev, key : AnyKey]
    BY DocsAssumption DEF NoView, AnyId, AnySlug, AnyKey
  <2> QED BY <2>1, NoneTypes, DocsAssumption DEF TypeOK
<1>5. Rows /\ HistoryComplete /\ Placed /\ SlugUnique /\ NoLostUpdate
  BY <1>1, <1>2, <1>3, DocsAssumption DEF Rows, HistoryComplete, Placed, SlugUnique, NoLostUpdate
<1>6. Requests /\ Inserts /\ Updates /\ Views /\ Readers
  BY <1>1, <1>2, <1>3 DEF Requests, Inserts, Updates, Views, Readers, Saving
<1>7. Held /\ Doomed /\ Bytes
  BY <1>1, <1>3 DEF Held, Doomed, Bytes, Holding
<1>8. QED BY <1>4, <1>5, <1>6, <1>7 DEF IInv

\* Every step of every request keeps the invariant.
LEMMA NextIInv == IInv /\ [Next]_vars => IInv'
<1> SUFFICES ASSUME IInv, [Next]_vars PROVE IInv'
  OBVIOUS
<1>1. CASE UNCHANGED vars
  <2>1. /\ UNCHANGED <<docs, revs, asset, objects, issued, origin, view, pc, tx, faults>>
        /\ UNCHANGED rowVars
    BY <1>1 DEF vars, rowVars
  <2>2. TypeOK'
    BY <2>1 DEF IInv, TypeOK
  <2>3. /\ Rows' /\ HistoryComplete' /\ Placed' /\ SlugUnique' /\ NoLostUpdate'
        /\ \A i \in Ids : \A k : Names(i, k)' <=> Names(i, k)
    BY <2>1, RowsStay
  <2>4. Requests' /\ Inserts' /\ Updates' /\ Views' /\ Readers'
    BY <2>1 DEF IInv, Requests, Inserts, Updates, Views, Readers, Exists
  <2>5. Held' /\ Doomed' /\ Bytes'
    BY <2>1, <2>3 DEF IInv, Held, Doomed, Bytes
  <2> QED BY <2>2, <2>3, <2>4, <2>5 DEF IInv
<1>2. ASSUME NEW e \in Editors, Save(e) PROVE IInv'
  BY <1>2, SaveCheckedKeeps, PutBodyKeeps, CommitBodyKeeps, CommitBodyUnknownKeeps, CleanupKeeps,
     ReplaceKeeps, CreateKeeps DEF Save
<1>3. ASSUME NEW e \in Editors, Remove(e) PROVE IInv'
  BY <1>3, DeleteReadKeeps, DeleteCommitKeeps, SweepKeeps DEF Remove
<1>4. ASSUME NEW e \in Editors, Attach(e) PROVE IInv'
  BY <1>4, AssetPutKeeps, AssetReadKeeps, AssetCommitKeeps, AssetDeleteReadKeeps,
     AssetDeleteCommitKeeps, SupersedeKeeps DEF Attach
<1>5. ASSUME NEW e \in Editors, Read(e) PROVE IInv'
  BY <1>5, LoadKeeps, OpenBodyKeeps, ReadBodyKeeps DEF Read
<1>6. ASSUME NEW e \in Editors, Crash(e) PROVE IInv'
  BY <1>6, CrashKeeps
<1>7. QED BY <1>1, <1>2, <1>3, <1>4, <1>5, <1>6 DEF Next

\* The ownership argument holds for the whole catalogue.
THEOREM Ownership == Spec => []IInv
BY InitIInv, NextIInv, PTL DEF Spec

\* docs.py puts objects before it commits rows and removes them after: with
\* any number of request threads, dying at any point, a slug addresses one
\* document, every key a row names is stored, and a reader that found a row
\* opens its bytes unless the document was deleted, as long as no commit
\* reported a false error.
THEOREM RowsAlwaysServed == Spec => []RowsServed
<1>1. IInv => RowsServed
  <2> SUFFICES ASSUME IInv PROVE RowsServed
    OBVIOUS
  <2> USE DEF IInv
  <2>1. NoDangling
    <3> SUFFICES ASSUME faults.acks = 0, NEW i \in Ids
                 PROVE  KeysOf(i) \cup ({docs[i].key} \ {NoKey}) \subseteq objects
      BY DEF NoDangling
    <3>1. KeysOf(i) \subseteq objects
      BY KeysNamed DEF Bytes, Names
    <3>2. CASE Exists(i)
      <4>1. docs[i].rev \in 1..MaxRev /\ docs[i].key = revs[i][docs[i].rev]
        BY <3>2, RevTypes, DocsAssumption DEF HistoryComplete
      <4>2. docs[i].key # NoKey => docs[i].key \in KeysOf(i)
        BY <4>1 DEF KeysOf
      <4> QED BY <3>1, <4>2
    <3>3. CASE ~Exists(i)
      BY <3>1, <3>3 DEF Rows, NoDoc
    <3> QED BY <3>2, <3>3
  <2>2. ReaderFinds
    <3> SUFFICES ASSUME faults.acks = 0, NEW e \in Editors, pc[e] = "read", Exists(tx[e].id)
                 PROVE  tx[e].key \in objects
      BY DEF ReaderFinds
    <3>1. tx[e].id \in Ids /\ tx[e].key \in AnyKey
      BY DEF Requests, TypeOK, AnyId
    <3>2. Names(tx[e].id, tx[e].key)
      BY <3>1 DEF Readers, Names, AnyKey
    <3> QED BY <3>1, <3>2 DEF Bytes, Names
  <2>3. QED BY <2>1, <2>2 DEF RowsServed
<1>2. QED BY <1>1, Ownership, PTL

\* Two saves that read the same row never share a revision number, and none is
\* skipped: the unique constraint of document_revisions fails the second one.
THEOREM History == Spec => []HistoryComplete
<1>1. IInv => HistoryComplete
  BY DEF IInv
<1>2. QED BY <1>1, Ownership, PTL

\* save_content compares the revision the editor sent with a row it does not
\* lock; all the same the body it replaces is the one the editor saw.
THEOREM Unlost == Spec => []NoLostUpdate
<1>1. IInv => NoLostUpdate
  BY DEF IInv
<1>2. QED BY <1>1, Ownership, PTL

\* "The previous body is never overwritten": no step changes the key of a
\* revision, except the delete of its document.
THEOREM Immutable == Spec => RevisionsImmutable
<1> DEFINE Kept == \A i \in Ids, n \in 1..MaxRev :
                     revs[i][n] # NoKey => (revs'[i][n] = revs[i][n] \/ docs'[i] = NoDoc)
<1>1. ASSUME IInv, NEW e \in Editors, pc[e] = "commit", Commits(e), WriteRevision(e) PROVE Kept
  <2>1. /\ tx[e].id \in Ids /\ tx[e].rev \in 1..MaxRev
        /\ revs[tx[e].id][tx[e].rev] = NoKey
    BY <1>1, NextRevision
  <2>2. revs' = [revs EXCEPT ![tx[e].id][tx[e].rev] = tx[e].key]
    BY <1>1 DEF WriteRevision
  <2>3. ASSUME NEW i \in Ids, NEW n \in 1..MaxRev, revs[i][n] # NoKey
        PROVE  revs'[i][n] = revs[i][n]
    <3>1. revs[i] \in [1..MaxRev -> AnyKey]
      BY <1>1 DEF IInv, TypeOK
    <3> QED BY <1>1, <2>1, <2>2, <2>3, <3>1 DEF IInv, TypeOK
  <2> QED BY <2>3
<1>2. ASSUME IInv, NEW e \in Editors, DeleteCommit(e) PROVE Kept
  BY <1>2 DEF DeleteCommit, IInv, TypeOK
<1>3. ASSUME IInv, NEW e \in Editors, Save(e) PROVE Kept
  <2>1. CASE CommitBody(e) \/ CommitBodyUnknown(e)
    BY <1>1, <1>3, <2>1 DEF CommitBody, CommitBodyUnknown
  <2>2. CASE ~(CommitBody(e) \/ CommitBodyUnknown(e))
    BY <1>3, <2>2 DEF Save, SaveChecked, PutBody, Cleanup, Replace, Create, rowVars
  <2> QED BY <2>1, <2>2
<1>4. ASSUME NEW e \in Editors, Remove(e), ~DeleteCommit(e) PROVE Kept
  BY <1>4 DEF Remove, Sweep, DeleteRead, rowVars
<1>5. ASSUME NEW e \in Editors, Attach(e) \/ Read(e) \/ Crash(e) PROVE Kept
  BY <1>5 DEF Attach, AssetRead, AssetCommit, AssetDeleteCommit, Supersede, AssetPut,
              AssetDeleteRead, Read, ReadBody, Load, OpenBody, Crash, rowVars
<1>6. IInv /\ [Next]_vars => [Kept]_vars
  BY <1>2, <1>3, <1>4, <1>5 DEF Next
<1>7. QED BY <1>6, Ownership, PTL DEF Spec, RevisionsImmutable

-----------------------------------------------------------------------------
(* The page's editor: what a save replaces, and what the preview shows.     *)

RequestFields == {"op", "id", "text", "revision", "seq", "base", "edited", "status", "answer", "list"}
EditorFields == {"open", "content", "baseline", "saved", "revision", "base", "conflict", "saving"}
PaneFields == {"html", "seq", "landed", "timer", "missed", "mode", "shown"}

EditorShapes ==
    /\ texts \in Nat /\ DOMAIN store = DocIds /\ DOMAIN editor = EditorFields /\ DOMAIN pane = PaneFields
    /\ \A r \in docFlight : DOMAIN r = RequestFields

\* Creations the server has not served: the text of each is the birth mark of
\* the document it is going to be, and of no other.
Creating == {r \in docFlight : r.op = "create" /\ r.status = "sent"}

\* What the page was given of a document is not ahead of the store: of the same
\* birth, it is behind it or the same text.
SnapshotSound(b) ==
    b.id \in DocIds =>
      /\ store[b.id].revision > 0 /\ store[b.id].born = b.born =>
           /\ b.revision <= store[b.id].revision
           /\ b.revision = store[b.id].revision => b.text = store[b.id].text
      /\ b.revision \in Nat /\ b.born \in 0 .. texts /\ \A r \in Creating : r.text # b.born

RequestSound(r) ==
    /\ SnapshotSound(r.answer)
    /\ r.op = "save" => SnapshotSound(r.base) /\ r.revision = r.base.revision

BirthsApart ==
    /\ \A d \in DocIds : /\ store[d].revision \in Nat /\ store[d].born \in 0 .. texts
                         /\ \A r \in Creating : r.text # store[d].born
    /\ \A r \in Creating : r.text \in 1 .. texts
    /\ \A r, s \in Creating : r.text = s.text => r = s

SaveInv ==
    /\ EditorShapes /\ BirthsApart
    /\ SnapshotSound(detail) /\ SnapshotSound(editor.base) /\ editor.revision = editor.base.revision
    /\ \A r \in docFlight : RequestSound(r)
    /\ OverwritesSeen

\* A preview is asked for whenever the buffer and the newest preview part.
Settled == editor.open /\ pane.mode # "edit" /\ ~pane.timer /\ ~pane.missed
PreviewInv ==
    /\ pane.seq \in Nat /\ pane.landed \in 0 .. pane.seq
    /\ \A r \in docFlight : r.op = "preview" => r.seq \in 0 .. pane.seq
    /\ Settled => \A r \in docFlight : r.op = "preview" /\ r.seq = pane.seq => r.text = editor.content
    /\ Settled /\ pane.shown = "preview" /\ pane.landed = pane.seq => pane.html = editor.content

LEMMA RequestMade ==
    ASSUME NEW op, NEW id, NEW text, NEW revision, NEW seq, NEW base
    PROVE  LET q == Request(op, id, text, revision, seq, base) IN
           /\ DOMAIN q = RequestFields /\ q.op = op /\ q.id = id /\ q.text = text /\ q.revision = revision
           /\ q.seq = seq /\ q.base = base /\ q.status = "sent" /\ q.answer = Unset
BY DEF Request, RequestFields

LEMMA UnsetSound == ASSUME SaveInv PROVE SnapshotSound(Unset)
<1>1. Unset.revision = 0 /\ Unset.born = 0
  BY DEF Unset
<1>2. \A r \in Creating : r.text # 0
  BY DEF SaveInv, BirthsApart
<1> QED
  BY <1>1, <1>2 DEF SnapshotSound, SaveInv, EditorShapes, BirthsApart

\* A step that leaves the store alone and adds no creation.
LEMMA SaveKeeps ==
    ASSUME SaveInv, EditorShapes', UNCHANGED <<store, overwrote>>, texts <= texts',
           \A q \in docFlight' : q \in docFlight \/ (~(q.op = "create" /\ q.status = "sent") /\ RequestSound(q)),
           SnapshotSound(detail'), SnapshotSound(editor'.base), editor'.revision = editor'.base.revision
    PROVE  SaveInv'
<1>1. Creating' \subseteq Creating
  BY DEF Creating
<1>2. ASSUME NEW b, SnapshotSound(b) PROVE SnapshotSound(b)'
  BY <1>1, <1>2 DEF SnapshotSound, SaveInv, EditorShapes
<1>3. BirthsApart'
  BY <1>1 DEF SaveInv, BirthsApart, EditorShapes
<1>4. \A q \in docFlight' : RequestSound(q)'
  <2> TAKE q \in docFlight'
  <2>1. RequestSound(q)
    BY DEF SaveInv
  <2>2. SnapshotSound(q.answer) => SnapshotSound(q.answer)'
    BY <1>2
  <2>3. SnapshotSound(q.base) => SnapshotSound(q.base)'
    BY <1>2
  <2> QED
    BY <2>1, <2>2, <2>3 DEF RequestSound
<1>5. SnapshotSound(detail)' /\ SnapshotSound(editor.base)'
  BY <1>2
<1> QED
  BY <1>3, <1>4, <1>5 DEF SaveInv, OverwritesSeen

\* What the page sends, other than creations.
LEMMA AskedSound ==
    ASSUME SaveInv, NEW op, NEW id, NEW text, NEW revision, NEW seq, NEW base,
           op # "create", op = "save" => SnapshotSound(base) /\ revision = base.revision
    PROVE  LET q == Request(op, id, text, revision, seq, base) IN
           /\ DOMAIN q = RequestFields /\ ~(q.op = "create" /\ q.status = "sent") /\ RequestSound(q)
<1> DEFINE q == Request(op, id, text, revision, seq, base)
<1>1. /\ DOMAIN q = RequestFields /\ q.op = op /\ q.revision = revision /\ q.base = base /\ q.answer = Unset
  BY RequestMade
<1> HIDE DEF q
<1>2. SnapshotSound(Unset)
  BY UnsetSound
<1>3. RequestSound(q)
  BY <1>1, <1>2 DEF RequestSound
<1>4. DOMAIN q = RequestFields /\ ~(q.op = "create" /\ q.status = "sent") /\ RequestSound(q)
  BY <1>1, <1>3
<1> QED
  BY <1>4 DEF q

\* Requests of the page: any set of sound ones added to those under way.
LEMMA SaveSends ==
    ASSUME SaveInv, NEW rs, docFlight' = docFlight \cup rs, UNCHANGED <<store, overwrote, detail>>,
           \A q \in rs : DOMAIN q = RequestFields /\ ~(q.op = "create" /\ q.status = "sent") /\ RequestSound(q),
           texts <= texts', texts' \in Nat, DOMAIN editor' = EditorFields, DOMAIN pane' = PaneFields,
           editor'.base = editor.base \/ editor'.base = detail, editor'.revision = editor'.base.revision
    PROVE  SaveInv'
<1>1. EditorShapes'
  BY DEF SaveInv, EditorShapes
<1>2. SnapshotSound(detail') /\ SnapshotSound(editor'.base)
  BY DEF SaveInv
<1> QED
  BY <1>1, <1>2, SaveKeeps

\* ... and none at all.
LEMMA SaveQuiet ==
    ASSUME SaveInv, UNCHANGED <<docFlight, store, overwrote, detail>>,
           texts <= texts', texts' \in Nat, DOMAIN editor' = EditorFields, DOMAIN pane' = PaneFields,
           editor'.base = editor.base \/ editor'.base = detail, editor'.revision = editor'.base.revision
    PROVE  SaveInv'
<1>1. EditorShapes'
  BY DEF SaveInv, EditorShapes
<1>2. SnapshotSound(detail') /\ SnapshotSound(editor'.base)
  BY DEF SaveInv
<1> QED
  BY <1>1, <1>2, SaveKeeps

LEMMA SaveAsks ==
    ASSUME SaveInv, NEW rs, Send(rs), UNCHANGED <<store, overwrote, detail, texts, editor, pane>>,
           \A q \in rs : DOMAIN q = RequestFields /\ ~(q.op = "create" /\ q.status = "sent") /\ RequestSound(q)
    PROVE  SaveInv'
BY SaveSends DEF Send, SaveInv, EditorShapes

\* A preview is one request or none, and changes none of what is saved.
LEMMA PreviewAsked ==
    ASSUME SaveInv, NEW e, NEW p, DOMAIN p = PaneFields, NEW doc
    PROVE  /\ DOMAIN runPreview(e, p, doc)[1] = PaneFields
           /\ \A q \in runPreview(e, p, doc)[2] :
                DOMAIN q = RequestFields /\ ~(q.op = "create" /\ q.status = "sent") /\ RequestSound(q)
<1>1. CASE doc = Unset
  <2>1. /\ runPreview(e, p, doc)[1] = [p EXCEPT !.missed = TRUE]
        /\ runPreview(e, p, doc)[2] = {}
    BY <1>1 DEF runPreview
  <2> QED
    BY <2>1 DEF PaneFields
<1>2. CASE doc # Unset
  <2> DEFINE q == Request("preview", doc.id, e.content, 0, p.seq + 1, Unset)
  <2>1. /\ runPreview(e, p, doc)[1] = [p EXCEPT !.seq = @ + 1, !.timer = FALSE, !.missed = FALSE]
        /\ runPreview(e, p, doc)[2] = {q}
    BY <1>2 DEF runPreview
  <2>2. DOMAIN runPreview(e, p, doc)[1] = PaneFields
    BY <2>1 DEF PaneFields
  <2>3. DOMAIN q = RequestFields /\ ~(q.op = "create" /\ q.status = "sent") /\ RequestSound(q)
    BY AskedSound
  <2> HIDE DEF q
  <2> QED
    BY <2>1, <2>2, <2>3
<1> QED
  BY <1>1, <1>2

LEMMA SavePage ==
    ASSUME SaveInv, NEW id, NEW keep \in BOOLEAN,
           LoadDocument(keep) \/ select(id) \/ remove(id)
    PROVE  SaveInv'
<1>1. CASE LoadDocument(keep)
  <2> DEFINE op == IF keep THEN "reload" ELSE "load"
             q == Request(op, "", 0, 0, 0, Unset)
  <2>1. DOMAIN q = RequestFields /\ ~(q.op = "create" /\ q.status = "sent") /\ RequestSound(q)
    BY AskedSound
  <2>2. Send({q}) /\ UNCHANGED <<store, overwrote, detail, texts, editor, pane>>
    BY <1>1 DEF LoadDocument, FetchCatalog
  <2> HIDE DEF q
  <2> QED
    BY <2>1, <2>2, SaveAsks
<1>2. CASE select(id)
  <2> DEFINE q == Request("doc", id, 0, 0, 0, Unset)
  <2>1. DOMAIN q = RequestFields /\ ~(q.op = "create" /\ q.status = "sent") /\ RequestSound(q)
    BY AskedSound
  <2>2. Send({q}) /\ UNCHANGED <<store, overwrote, detail, texts, editor, pane>>
    BY <1>2 DEF select, Fetch
  <2> HIDE DEF q
  <2> QED
    BY <2>1, <2>2, SaveAsks
<1>3. CASE remove(id)
  <2> DEFINE q == Request("delete", id, 0, 0, 0, Unset)
  <2>1. DOMAIN q = RequestFields /\ ~(q.op = "create" /\ q.status = "sent") /\ RequestSound(q)
    BY AskedSound
  <2>2. Send({q}) /\ UNCHANGED <<store, overwrote, detail, texts, editor, pane>>
    BY <1>3 DEF remove
  <2> HIDE DEF q
  <2> QED
    BY <2>1, <2>2, SaveAsks
<1> QED
  BY <1>1, <1>2, <1>3

\* A creation carries a text nobody typed before.
LEMMA SaveCreate == ASSUME SaveInv, NEW id, create(id) PROVE SaveInv'
<1> DEFINE q == Request("create", id, texts', 0, 0, Unset)
<1>1. DOMAIN q = RequestFields /\ q.text = texts' /\ q.answer = Unset /\ q.op = "create"
  BY RequestMade
<1>2. /\ docFlight' = docFlight \cup {q} /\ texts' = texts + 1
      /\ UNCHANGED <<store, overwrote, detail, editor, pane>>
  BY DEF create, Send
<1> HIDE DEF q
<1>3. EditorShapes'
  BY <1>1, <1>2 DEF SaveInv, EditorShapes
<1>4. Creating' \subseteq Creating \cup {q}
  BY <1>2 DEF Creating
<1>5. ASSUME NEW b, SnapshotSound(b) PROVE SnapshotSound(b)'
  <2> SUFFICES ASSUME b.id \in DocIds PROVE SnapshotSound(b)'
    BY DEF SnapshotSound
  <2>1. b.born \in 0 .. texts /\ texts \in Nat
    BY <1>5 DEF SnapshotSound, SaveInv, EditorShapes
  <2>2. \A r \in Creating' : r.text # b.born
    BY <1>1, <1>2, <1>4, <1>5, <2>1 DEF SnapshotSound
  <2> QED
    BY <1>2, <1>5, <2>1, <2>2 DEF SnapshotSound
<1>6. BirthsApart'
  <2>1. texts \in Nat
    BY DEF SaveInv, EditorShapes
  <2>2. \A d \in DocIds : /\ store'[d].revision \in Nat /\ store'[d].born \in 0 .. texts'
                          /\ \A r \in Creating' : r.text # store'[d].born
    BY <1>1, <1>2, <1>4, <2>1 DEF SaveInv, BirthsApart
  <2>3. \A r \in Creating' : r.text \in 1 .. texts'
    BY <1>1, <1>2, <1>4, <2>1 DEF SaveInv, BirthsApart
  <2>4. \A r, s \in Creating' : r.text = s.text => r = s
    BY <1>1, <1>2, <1>4, <2>1 DEF SaveInv, BirthsApart
  <2> QED
    BY <2>2, <2>3, <2>4 DEF BirthsApart
<1>7. \A r \in docFlight' : RequestSound(r)'
  <2> TAKE r \in docFlight'
  <2>1. CASE r = q
    BY <1>1, <1>5, <2>1, UnsetSound DEF RequestSound
  <2>2. CASE r \in docFlight
    <3>1. RequestSound(r)
      BY <2>2 DEF SaveInv
    <3>2. SnapshotSound(r.answer) => SnapshotSound(r.answer)'
      BY <1>5
    <3>3. SnapshotSound(r.base) => SnapshotSound(r.base)'
      BY <1>5
    <3> QED
      BY <3>1, <3>2, <3>3 DEF RequestSound
  <2> QED
    BY <1>2, <2>1, <2>2
<1>8. SnapshotSound(detail)' /\ SnapshotSound(editor.base)'
  BY <1>2, <1>5 DEF SaveInv
<1> QED
  BY <1>2, <1>3, <1>6, <1>7, <1>8 DEF SaveInv, OverwritesSeen

LEMMA SaveOpens == ASSUME SaveInv, openEditor PROVE SaveInv'
<1> DEFINE e == [editor EXCEPT !.open = TRUE, !.content = detail.text, !.baseline = detail.text,
                               !.saved = detail.text,
                               !.revision = detail.revision, !.base = detail, !.conflict = FALSE]
           p == [pane EXCEPT !.html = detail.text, !.mode = "split", !.shown = "document", !.timer = FALSE]
<1>1. /\ editor' = e /\ pane' = runPreview(e, p, detail)[1] /\ Send(runPreview(e, p, detail)[2])
      /\ UNCHANGED <<store, detail, texts, overwrote>>
  BY DEF openEditor
<1>2. DOMAIN e = EditorFields /\ e.base = detail /\ e.revision = detail.revision
  BY DEF SaveInv, EditorShapes, EditorFields
<1>3. DOMAIN p = PaneFields
  BY DEF SaveInv, EditorShapes, PaneFields
<1> HIDE DEF e, p
<1>4. /\ DOMAIN pane' = PaneFields
      /\ \A q \in runPreview(e, p, detail)[2] :
           DOMAIN q = RequestFields /\ ~(q.op = "create" /\ q.status = "sent") /\ RequestSound(q)
  BY <1>1, <1>3, PreviewAsked
<1>5. docFlight' = docFlight \cup runPreview(e, p, detail)[2] /\ texts' \in Nat
  BY <1>1 DEF Send, SaveInv, EditorShapes
<1> QED
  BY <1>1, <1>2, <1>4, <1>5, SaveSends DEF SaveInv, EditorShapes

LEMMA SaveTypes == ASSUME SaveInv, Type PROVE SaveInv'
<1>1. /\ UNCHANGED docFlight /\ texts' = texts + 1 /\ UNCHANGED <<store, overwrote, detail>>
      /\ editor' = [editor EXCEPT !.content = texts']
      /\ pane' = IF pane.mode # "edit" THEN [pane EXCEPT !.timer = TRUE] ELSE pane
  BY DEF Type
<1>2. /\ DOMAIN editor' = EditorFields /\ editor'.base = editor.base /\ editor'.revision = editor.revision
      /\ DOMAIN pane' = PaneFields
  BY <1>1 DEF SaveInv, EditorShapes, EditorFields
<1> QED
  BY <1>1, <1>2, SaveQuiet DEF SaveInv, EditorShapes

LEMMA SavePreviews ==
    ASSUME SaveInv, NEW p, DOMAIN p = PaneFields, pane' = runPreview(editor, p, detail)[1],
           Send(runPreview(editor, p, detail)[2]), UNCHANGED <<store, detail, editor, texts, overwrote>>
    PROVE  SaveInv'
<1>1. /\ DOMAIN pane' = PaneFields
      /\ \A q \in runPreview(editor, p, detail)[2] :
           DOMAIN q = RequestFields /\ ~(q.op = "create" /\ q.status = "sent") /\ RequestSound(q)
  BY PreviewAsked
<1>2. docFlight' = docFlight \cup runPreview(editor, p, detail)[2]
  BY DEF Send
<1> QED
  BY <1>1, <1>2, SaveSends DEF SaveInv, EditorShapes

LEMMA SaveTimer == ASSUME SaveInv, PreviewTimer PROVE SaveInv'
<1> DEFINE p == [pane EXCEPT !.timer = FALSE]
<1>1. DOMAIN p = PaneFields
  BY DEF SaveInv, EditorShapes, PaneFields
<1>2. /\ pane' = runPreview(editor, p, detail)[1] /\ Send(runPreview(editor, p, detail)[2])
      /\ UNCHANGED <<store, detail, editor, texts, overwrote>>
  BY DEF PreviewTimer
<1> HIDE DEF p
<1> QED
  BY <1>1, <1>2, SavePreviews

LEMMA SaveMode == ASSUME SaveInv, NEW m, SetMode(m) PROVE SaveInv'
<1> DEFINE p == [pane EXCEPT !.mode = m]
<1>1. DOMAIN p = PaneFields
  BY DEF SaveInv, EditorShapes, PaneFields
<1>2. UNCHANGED <<store, detail, editor, texts, overwrote>>
  BY DEF SetMode
<1>3. CASE m # "edit"
  <2>1. pane' = runPreview(editor, p, detail)[1] /\ Send(runPreview(editor, p, detail)[2])
    BY <1>3 DEF SetMode
  <2> HIDE DEF p
  <2> QED
    BY <1>1, <1>2, <2>1, SavePreviews
<1>4. CASE m = "edit"
  <2>1. pane' = p /\ Send({})
    BY <1>4 DEF SetMode
  <2> HIDE DEF p
  <2>2. UNCHANGED docFlight /\ DOMAIN pane' = PaneFields
    BY <1>1, <2>1 DEF Send
  <2> QED
    BY <1>2, <2>2, SaveQuiet DEF SaveInv, EditorShapes
<1> QED
  BY <1>3, <1>4

\* A save carries the revision of the document its buffer is based on.
LEMMA SaveSaves == ASSUME SaveInv, save_document PROVE SaveInv'
<1> DEFINE q0 == Request("save", detail.id, editor.content, editor.revision, 0, editor.base)
           q == [q0 EXCEPT !.edited = editor.saved]
<1>1. /\ DOMAIN q0 = RequestFields /\ q0.op = "save" /\ q0.revision = editor.revision
      /\ q0.base = editor.base /\ q0.answer = Unset
  BY RequestMade
<1>2. editor' = [editor EXCEPT !.saving = TRUE] /\ Send({q}) /\ UNCHANGED <<store, overwrote, detail, pane, texts>>
  BY DEF save_document
<1> HIDE DEF q0
<1>3. /\ DOMAIN q = RequestFields /\ q.op = "save" /\ q.revision = editor.revision
      /\ q.base = editor.base /\ q.answer = Unset
  BY <1>1 DEF RequestFields
<1> HIDE DEF q
<1>4. RequestSound(q)
  BY <1>3, UnsetSound DEF RequestSound, SaveInv
<1>5. DOMAIN editor' = EditorFields /\ editor'.base = editor.base /\ editor'.revision = editor.revision
  BY <1>2 DEF SaveInv, EditorShapes, EditorFields
<1>6. docFlight' = docFlight \cup {q}
  BY <1>2 DEF Send
<1> QED
  BY <1>2, <1>3, <1>4, <1>5, <1>6, SaveSends DEF SaveInv, EditorShapes

LEMMA SaveCloses == ASSUME SaveInv, close PROVE SaveInv'
<1>1. /\ UNCHANGED docFlight /\ UNCHANGED <<store, overwrote, detail, texts>>
      /\ editor' = [editor EXCEPT !.open = FALSE] /\ pane' = [pane EXCEPT !.timer = FALSE]
  BY DEF close
<1>2. /\ DOMAIN editor' = EditorFields /\ editor'.base = editor.base /\ editor'.revision = editor.revision
      /\ DOMAIN pane' = PaneFields
  BY <1>1 DEF SaveInv, EditorShapes, EditorFields, PaneFields
<1> QED
  BY <1>1, <1>2, SaveQuiet DEF SaveInv, EditorShapes

-----------------------------------------------------------------------------
(* The server's side.                                                       *)

LEMMA AnswerMade ==
    ASSUME SaveInv, NEW r \in docFlight, NEW status, NEW answer, NEW list
    PROVE  LET q == [r EXCEPT !.status = status, !.answer = answer, !.list = list] IN
           /\ DOMAIN q = RequestFields /\ q.op = r.op /\ q.status = status /\ q.answer = answer /\ q.base = r.base
           /\ q.revision = r.revision /\ q.text = r.text /\ q.seq = r.seq /\ q.id = r.id
BY DEF SaveInv, EditorShapes, RequestFields

\* What the server shows of a document is what it has.
LEMMA ShownSound ==
    ASSUME SaveInv, NEW id PROVE SnapshotSound(AsShown(id, store))
<1> DEFINE b == AsShown(id, store)
<1>1. /\ b.id = id /\ b.text = store[id].text /\ b.revision = store[id].revision
      /\ b.born = store[id].born
  BY DEF AsShown
<1> HIDE DEF b
<1>2. SnapshotSound(b)
  BY <1>1 DEF SnapshotSound, SaveInv, BirthsApart
<1> QED
  BY <1>2 DEF b

\* An answer that changes nothing.
LEMMA SaveServes ==
    ASSUME SaveInv, NEW r \in docFlight, NEW status, status # "sent", NEW answer, SnapshotSound(answer),
           NEW s, Served(r, status, answer, s),
           UNCHANGED <<store, overwrote, catalog, detail, editor, pane, texts>>
    PROVE  SaveInv'
<1> DEFINE q == [r EXCEPT !.status = status, !.answer = answer, !.list = {d \in DocIds : s[d].revision > 0}]
<1>1. docFlight' = (docFlight \ {r}) \cup {q}
  BY DEF Served
<1>2. /\ DOMAIN q = RequestFields /\ q.op = r.op /\ q.status = status /\ q.answer = answer /\ q.base = r.base
      /\ q.revision = r.revision
  BY AnswerMade
<1> HIDE DEF q
<1>3. RequestSound(q)
  BY <1>2 DEF SaveInv, RequestSound
<1>4. EditorShapes'
  BY <1>1, <1>2 DEF SaveInv, EditorShapes
<1>5. \A k \in docFlight' : k \in docFlight \/ (~(k.op = "create" /\ k.status = "sent") /\ RequestSound(k))
  BY <1>1, <1>2, <1>3
<1> QED
  BY <1>4, <1>5, SaveKeeps DEF SaveInv, EditorShapes

LEMMA SaveLost == ASSUME SaveInv, NEW r \in docFlight, Lost(r) PROVE SaveInv'
BY SaveServes, UnsetSound DEF Lost

LEMMA SaveReads ==
    ASSUME SaveInv, NEW r \in docFlight, docs_catalog(r) \/ docs_document(r) \/ docs_update_read(r),
           UNCHANGED <<catalog, detail, editor, pane, texts>>
    PROVE  SaveInv'
<1>1. CASE docs_catalog(r)
  BY <1>1, SaveServes, UnsetSound DEF docs_catalog
<1>2. CASE docs_document(r) \/ docs_update_read(r)
  <2>1. PICK status : status # "sent" /\ Served(r, status, AsShown(r.id, store), store)
    BY <1>2 DEF docs_document, docs_update_read
  <2>2. UNCHANGED <<store, overwrote>>
    BY <1>2 DEF docs_document, docs_update_read
  <2> QED
    BY <2>1, <2>2, SaveServes, ShownSound
<1> QED
  BY <1>1, <1>2

\* A document is written once more, or created by the request of its birth mark, or removed.
Written1(d) == store[d].revision > 0 /\ store'[d].revision = store[d].revision + 1 /\ store'[d].born = store[d].born
Born(d) == \E r \in Creating \ Creating' : store'[d].revision = 1 /\ store'[d].born = r.text
Removed(d) == store'[d].revision = 0 /\ store'[d].born = 0
StoreMoves ==
    /\ DOMAIN store' = DocIds /\ texts <= texts' /\ texts' \in Nat /\ Creating' \subseteq Creating
    /\ \A d \in DocIds : store'[d] = store[d] \/ Written1(d) \/ Born(d) \/ Removed(d)

LEMMA SnapshotKept ==
    ASSUME SaveInv, StoreMoves, NEW b, SnapshotSound(b) PROVE SnapshotSound(b)'
<1> SUFFICES ASSUME b.id \in DocIds PROVE SnapshotSound(b)'
  BY DEF SnapshotSound
<1> DEFINE d == b.id
<1>1. /\ b.revision \in Nat /\ b.born \in 0 .. texts /\ (\A r \in Creating : r.text # b.born)
      /\ texts \in Nat /\ store[d].revision \in Nat
  BY DEF SnapshotSound, SaveInv, BirthsApart, EditorShapes
<1>2. b.born \in 0 .. texts' /\ \A r \in Creating' : r.text # b.born
  BY <1>1 DEF StoreMoves
<1>3. CASE store'[d] = store[d]
  BY <1>1, <1>2, <1>3 DEF SnapshotSound
<1>4. CASE Written1(d)
  BY <1>1, <1>2, <1>4 DEF SnapshotSound, Written1
<1>5. CASE Born(d)
  BY <1>1, <1>2, <1>5 DEF SnapshotSound, Born
<1>6. CASE Removed(d)
  BY <1>1, <1>2, <1>6 DEF SnapshotSound, Removed
<1> QED
  BY <1>3, <1>4, <1>5, <1>6 DEF StoreMoves

LEMMA BirthsKept == ASSUME SaveInv, StoreMoves PROVE BirthsApart'
<1>1. texts \in Nat /\ texts' \in Nat /\ texts <= texts' /\ Creating' \subseteq Creating
  BY DEF SaveInv, EditorShapes, StoreMoves
<1>2. ASSUME NEW d \in DocIds
      PROVE  /\ store'[d].revision \in Nat /\ store'[d].born \in 0 .. texts'
             /\ \A r \in Creating' : r.text # store'[d].born
  <2>1. /\ store[d].revision \in Nat /\ store[d].born \in 0 .. texts
        /\ \A r \in Creating : r.text # store[d].born /\ r.text \in 1 .. texts
    BY DEF SaveInv, BirthsApart
  <2>2. CASE store'[d] = store[d]
    BY <1>1, <2>1, <2>2
  <2>3. CASE Written1(d)
    BY <1>1, <2>1, <2>3 DEF Written1
  <2>4. CASE Born(d)
    <3>1. PICK r \in Creating \ Creating' : store'[d].revision = 1 /\ store'[d].born = r.text
      BY <2>4 DEF Born
    <3>2. \A s \in Creating' : s.text # r.text
      BY <1>1, <3>1 DEF SaveInv, BirthsApart
    <3> QED
      BY <1>1, <2>1, <3>1, <3>2
  <2>5. CASE Removed(d)
    BY <1>1, <2>1, <2>5 DEF Removed
  <2> QED
    BY <2>2, <2>3, <2>4, <2>5 DEF StoreMoves
<1>3. /\ \A r \in Creating' : r.text \in 1 .. texts'
      /\ \A r, s \in Creating' : r.text = s.text => r = s
  BY <1>1 DEF SaveInv, BirthsApart
<1> QED
  BY <1>2, <1>3 DEF BirthsApart

LEMMA ShownAfter ==
    ASSUME BirthsApart', NEW b, NEW id, b = AsShown(id, store)' PROVE SnapshotSound(b)'
<1>1. /\ b.id = id /\ b.text = store'[id].text /\ b.revision = store'[id].revision
      /\ b.born = store'[id].born
  BY DEF AsShown
<1>2. ASSUME id \in DocIds
      PROVE  /\ b.revision \in Nat /\ b.born \in 0 .. texts' /\ \A r \in Creating' : r.text # b.born
  BY <1>1, <1>2 DEF BirthsApart
<1> QED
  BY <1>1, <1>2 DEF SnapshotSound

\* A request served with a write: its answer is sound after it.
LEMMA SaveWrites ==
    ASSUME SaveInv, StoreMoves, NEW r \in docFlight, NEW q, docFlight' = (docFlight \ {r}) \cup {q},
           DOMAIN q = RequestFields, q.op = r.op, q.base = r.base, q.revision = r.revision,
           SnapshotSound(q.answer)', UNCHANGED <<detail, editor, pane>>, OverwritesSeen'
    PROVE  SaveInv'
<1>1. BirthsApart'
  BY BirthsKept
<1>2. \A k \in docFlight' : RequestSound(k)'
  <2> TAKE k \in docFlight'
  <2>1. CASE k = q
    <3>1. RequestSound(r)
      BY DEF SaveInv
    <3>2. SnapshotSound(q.base) => SnapshotSound(q.base)'
      BY SnapshotKept
    <3> QED
      BY <2>1, <3>1, <3>2 DEF RequestSound
  <2>2. CASE k \in docFlight
    <3>1. RequestSound(k)
      BY <2>2 DEF SaveInv
    <3>2. SnapshotSound(k.answer) => SnapshotSound(k.answer)'
      BY SnapshotKept
    <3>3. SnapshotSound(k.base) => SnapshotSound(k.base)'
      BY SnapshotKept
    <3> QED
      BY <3>1, <3>2, <3>3 DEF RequestSound
  <2> QED
    BY <2>1, <2>2
<1>3. SnapshotSound(detail)' /\ SnapshotSound(editor.base)'
  BY SnapshotKept DEF SaveInv
<1>4. EditorShapes'
  BY DEF SaveInv, EditorShapes, StoreMoves
<1> QED
  BY <1>1, <1>2, <1>3, <1>4 DEF SaveInv

\* Written, by whoever wrote.
LEMMA WrittenDoc ==
    ASSUME SaveInv, NEW id, NEW text, store' = Written(id, text)
    PROVE  /\ DOMAIN store' = DocIds
           /\ \A d \in DocIds : store'[d] = store[d] \/ Written1(d)
                \/ (d = id /\ store[d].revision = 0 /\ store'[d].revision = 1 /\ store'[d].born = text)
<1>1. DOMAIN store' = DocIds /\ \A d \in DocIds : d # id => store'[d] = store[d]
  BY DEF Written, SaveInv, EditorShapes
<1>2. ASSUME id \in DocIds
      PROVE  /\ store'[id].revision = store[id].revision + 1
             /\ store'[id].born = IF store[id].revision = 0 THEN text ELSE store[id].born
  BY <1>2 DEF Written, SaveInv, EditorShapes
<1>3. \A d \in DocIds : store[d].revision \in Nat
  BY DEF SaveInv, BirthsApart
<1> QED
  BY <1>1, <1>2, <1>3 DEF Written1

LEMMA SaveCreated ==
    ASSUME SaveInv, NEW r \in docFlight, r.status = "sent", docs_create(r),
           UNCHANGED <<detail, editor, pane, texts>>
    PROVE  SaveInv'
<1>1. PICK b, list :
        /\ b = AsShown(r.id, store)'
        /\ docFlight' = (docFlight \ {r}) \cup {[r EXCEPT !.status = "ok", !.answer = b, !.list = list]}
  BY DEF docs_create, Served, AsShown
<1> DEFINE q == [r EXCEPT !.status = "ok", !.answer = b, !.list = list]
<1>2. /\ DOMAIN q = RequestFields /\ q.op = r.op /\ q.status = "ok" /\ q.answer = b /\ q.base = r.base
      /\ q.revision = r.revision
  BY AnswerMade
<1>3. /\ r.op = "create" /\ store' = Written(r.id, r.text) /\ UNCHANGED overwrote
      /\ docFlight' = (docFlight \ {r}) \cup {q}
  BY <1>1 DEF docs_create
<1> HIDE DEF q
<1>4. r \in Creating \ Creating' /\ Creating' \subseteq Creating
  BY <1>2, <1>3 DEF Creating
<1>5. StoreMoves
  BY <1>3, <1>4, WrittenDoc DEF StoreMoves, Born, SaveInv, EditorShapes
<1>6. SnapshotSound(q.answer)'
  <2>1. SnapshotSound(b)'
    BY <1>1, <1>5, BirthsKept, ShownAfter
  <2> QED
    BY <1>2, <2>1 DEF SnapshotSound
<1>7. OverwritesSeen'
  BY <1>3 DEF SaveInv, OverwritesSeen
<1> QED
  BY <1>2, <1>3, <1>5, <1>6, <1>7, SaveWrites

LEMMA SaveDeleted ==
    ASSUME SaveInv, NEW r \in docFlight, r.status = "sent", docs_delete(r),
           UNCHANGED <<detail, editor, pane, texts>>
    PROVE  SaveInv'
<1>1. PICK status, list :
        docFlight' = (docFlight \ {r}) \cup {[r EXCEPT !.status = status, !.answer = Unset, !.list = list]}
  BY DEF docs_delete, Served
<1> DEFINE q == [r EXCEPT !.status = status, !.answer = Unset, !.list = list]
<1>2. /\ DOMAIN q = RequestFields /\ q.op = r.op /\ q.answer = Unset /\ q.base = r.base
      /\ q.revision = r.revision
  BY AnswerMade
<1>3. docFlight' = (docFlight \ {r}) \cup {q}
  BY <1>1
<1> HIDE DEF q
<1>4. /\ r.op = "delete" /\ UNCHANGED overwrote
      /\ store' = [store EXCEPT ![r.id] = [text |-> 0, revision |-> 0, born |-> 0]]
  BY DEF docs_delete
<1>5. Creating' \subseteq Creating
  BY <1>2, <1>3, <1>4 DEF Creating
<1>6. StoreMoves
  BY <1>4, <1>5 DEF StoreMoves, Removed, SaveInv, EditorShapes
<1>7. SnapshotSound(q.answer)'
  <2>1. SnapshotSound(Unset)'
    BY <1>6, UnsetSound, SnapshotKept
  <2> QED
    BY <1>2, <2>1 DEF SnapshotSound
<1>8. OverwritesSeen'
  BY <1>4 DEF SaveInv, OverwritesSeen
<1> QED
  BY <1>2, <1>3, <1>6, <1>7, <1>8, SaveWrites

\* The save is taken on the revision its buffer is based on: of one birth, the
\* text replaced is the one the page was given.
LEMMA SaveUpdated ==
    ASSUME SaveInv, NEW r \in docFlight, r.status = "sent", docs_update(r),
           UNCHANGED <<catalog, detail, editor, pane, texts>>
    PROVE  SaveInv'
<1>1. CASE r.id \in Present /\ store[r.id].revision = r.revision
  <2>0. PICK list :
          docFlight' = (docFlight \ {r}) \cup {[r EXCEPT !.status = "saved", !.answer = Unset, !.list = list]}
    BY <1>1 DEF docs_update, Served
  <2> DEFINE q == [r EXCEPT !.status = "saved", !.answer = Unset, !.list = list]
  <2>1. /\ r.op = "save" /\ store' = Written(r.id, r.text) /\ docFlight' = (docFlight \ {r}) \cup {q}
        /\ overwrote' = [id |-> r.id, text |-> store[r.id].text, born |-> store[r.id].born,
                         base |-> r.base, edited |-> r.edited]
    BY <1>1, <2>0 DEF docs_update
  <2>2. /\ DOMAIN q = RequestFields /\ q.op = r.op /\ q.answer = Unset /\ q.base = r.base
        /\ q.revision = r.revision
    BY AnswerMade
  <2> HIDE DEF q
  <2>3. Creating' \subseteq Creating
    BY <2>1, <2>2 DEF Creating
  <2>4. r.id \in DocIds /\ store[r.id].revision > 0
    BY <1>1 DEF Present
  <2>5. StoreMoves
    BY <2>1, <2>3, <2>4, WrittenDoc DEF StoreMoves, SaveInv, EditorShapes
  <2>6. SnapshotSound(q.answer)'
    <3>1. SnapshotSound(Unset)'
      BY <2>5, UnsetSound, SnapshotKept
    <3> QED
      BY <2>2, <3>1 DEF SnapshotSound
  <2>7. SnapshotSound(r.base) /\ r.revision = r.base.revision
    BY <2>1 DEF SaveInv, RequestSound
  <2>8. OverwritesSeen'
    BY <1>1, <2>1, <2>4, <2>7 DEF OverwritesSeen, SnapshotSound
  <2> QED
    BY <2>1, <2>2, <2>5, <2>6, <2>8, SaveWrites
<1>2. CASE ~(r.id \in Present /\ store[r.id].revision = r.revision)
  <2>1. PICK status : status # "sent" /\ Served(r, status, Unset, store)
    BY <1>2 DEF docs_update
  <2>2. UNCHANGED <<store, overwrote>>
    BY <1>2 DEF docs_update
  <2> QED
    BY <2>1, <2>2, SaveServes, UnsetSound
<1> QED
  BY <1>1, <1>2

LEMMA SaveServe == ASSUME SaveInv, NEW r \in docFlight, Serve(r) PROVE SaveInv'
<1>1. UNCHANGED <<catalog, detail, editor, pane, texts>>
  BY DEF Serve
<1>2. CASE docs_catalog(r) \/ docs_document(r) \/ docs_update_read(r)
  BY <1>1, <1>2, SaveReads
<1>3. CASE r.status = "sent" /\ (docs_create(r) \/ docs_delete(r) \/ docs_update(r))
  BY <1>1, <1>3, SaveCreated, SaveDeleted, SaveUpdated
<1> QED
  BY <1>2, <1>3 DEF Serve

\* Another operator's save.
LEMMA SaveOther == ASSUME SaveInv, NEW id, Other(id) PROVE SaveInv'
<1>1. /\ id \in DocIds /\ store[id].revision > 0 /\ texts' = texts + 1 /\ store' = Written(id, texts')
      /\ UNCHANGED <<detail, editor, pane, docFlight, overwrote>>
  BY DEF Other, Present
<1>2. Creating' = Creating
  BY <1>1 DEF Creating
<1>3. StoreMoves
  BY <1>1, <1>2, WrittenDoc DEF StoreMoves, SaveInv, EditorShapes
<1>4. BirthsApart'
  BY <1>3, BirthsKept
<1>5. \A k \in docFlight' : RequestSound(k)'
  <2> TAKE k \in docFlight'
  <2>1. RequestSound(k)
    BY <1>1 DEF SaveInv
  <2>2. SnapshotSound(k.answer) => SnapshotSound(k.answer)'
    BY <1>3, SnapshotKept
  <2>3. SnapshotSound(k.base) => SnapshotSound(k.base)'
    BY <1>3, SnapshotKept
  <2> QED
    BY <2>1, <2>2, <2>3 DEF RequestSound
<1>6. SnapshotSound(detail)' /\ SnapshotSound(editor.base)'
  BY <1>1, <1>3, SnapshotKept DEF SaveInv
<1>7. EditorShapes'
  BY <1>1, <1>3 DEF SaveInv, EditorShapes, StoreMoves
<1> QED
  BY <1>1, <1>4, <1>5, <1>6, <1>7 DEF SaveInv, OverwritesSeen

-----------------------------------------------------------------------------
(* Answers.                                                                 *)

LEMMA SaveLands ==
    ASSUME SaveInv, NEW r \in docFlight, NEW new, Taken(r, new), UNCHANGED <<store, texts, overwrote>>,
           \A q \in new : DOMAIN q = RequestFields /\ ~(q.op = "create" /\ q.status = "sent") /\ RequestSound(q),
           DOMAIN editor' = EditorFields, DOMAIN pane' = PaneFields,
           SnapshotSound(detail'), SnapshotSound(editor'.base), editor'.revision = editor'.base.revision
    PROVE  SaveInv'
<1>1. docFlight' = (docFlight \ {r}) \cup new
  BY DEF Taken
<1>2. EditorShapes'
  BY <1>1 DEF SaveInv, EditorShapes
<1>3. texts <= texts'
  BY DEF SaveInv, EditorShapes
<1> QED
  BY <1>1, <1>2, <1>3, SaveKeeps

\* Every landing keeps the editor but land_save, and the pane but two of them.
LEMMA SaveLandsElsewhere ==
    ASSUME SaveInv, NEW r \in docFlight, NEW new, Taken(r, new), UNCHANGED <<store, texts, overwrote, editor>>,
           \A q \in new : DOMAIN q = RequestFields /\ ~(q.op = "create" /\ q.status = "sent") /\ RequestSound(q),
           DOMAIN pane' = PaneFields, SnapshotSound(detail')
    PROVE  SaveInv'
BY SaveLands DEF SaveInv, EditorShapes

LEMMA SaveLandsAlone ==
    ASSUME SaveInv, NEW r \in docFlight, Taken(r, {}), UNCHANGED <<store, texts, overwrote, editor>>,
           DOMAIN pane' = PaneFields, SnapshotSound(detail')
    PROVE  SaveInv'
<1> DEFINE new == {}
<1>1. Taken(r, new) /\ new = {}
  OBVIOUS
<1> HIDE DEF new
<1> QED
  BY <1>1, SaveLandsElsewhere

LEMMA SaveFetches ==
    ASSUME SaveInv, NEW op, op \in {"doc", "load", "refresh"}, NEW id
    PROVE  \A q \in {Request(op, id, 0, 0, 0, Unset)} :
             DOMAIN q = RequestFields /\ ~(q.op = "create" /\ q.status = "sent") /\ RequestSound(q)
<1> DEFINE q == Request(op, id, 0, 0, 0, Unset)
<1>1. DOMAIN q = RequestFields /\ ~(q.op = "create" /\ q.status = "sent") /\ RequestSound(q)
  BY AskedSound
<1> HIDE DEF q
<1>2. \A k \in {q} : DOMAIN k = RequestFields /\ ~(k.op = "create" /\ k.status = "sent") /\ RequestSound(k)
  BY <1>1
<1> QED
  BY <1>2 DEF q

LEMMA SaveLand == ASSUME SaveInv, NEW r \in docFlight, Land(r) PROVE SaveInv'
<1>0. /\ DOMAIN editor = EditorFields /\ DOMAIN pane = PaneFields /\ SnapshotSound(detail)
      /\ SnapshotSound(r.answer) /\ SnapshotSound(Unset)
  BY UnsetSound DEF SaveInv, EditorShapes, RequestSound
<1>1. CASE land_load(r)
  <2>1. PICK id : /\ Taken(r, {}) \/ Taken(r, {Request("doc", id, 0, 0, 0, Unset)})
                  /\ detail' \in {detail, Unset} /\ UNCHANGED <<store, editor, pane, texts, overwrote>>
    BY <1>1 DEF land_load, Fetch
  <2>2. SnapshotSound(detail')
    BY <1>0, <2>1
  <2>3. CASE Taken(r, {})
    BY <1>0, <2>1, <2>2, <2>3, SaveLandsAlone
  <2>4. CASE Taken(r, {Request("doc", id, 0, 0, 0, Unset)})
    BY <1>0, <2>1, <2>2, <2>4, SaveFetches, SaveLandsElsewhere
  <2> QED
    BY <2>1, <2>3, <2>4
<1>2. CASE land_refresh(r)
  <2>1. Taken(r, {}) /\ UNCHANGED <<store, detail, editor, pane, texts, overwrote>>
    BY <1>2 DEF land_refresh
  <2> QED
    BY <1>0, <2>1, SaveLandsAlone
<1>3. CASE land_doc(r)
  <2>1. /\ Taken(r, {}) /\ detail' \in {detail, r.answer}
        /\ UNCHANGED <<store, editor, pane, texts, overwrote>>
    BY <1>3 DEF land_doc
  <2> QED
    BY <1>0, <2>1, SaveLandsAlone
<1>4. CASE land_changed(r)
  <2>1. /\ Taken(r, {}) \/ Taken(r, {Request("load", "", 0, 0, 0, Unset)})
        /\ detail' \in {detail, Unset} /\ UNCHANGED <<store, editor, pane, texts, overwrote>>
    BY <1>4 DEF land_changed, FetchCatalog
  <2>2. SnapshotSound(detail')
    BY <1>0, <2>1
  <2>3. CASE Taken(r, {})
    BY <1>0, <2>1, <2>2, <2>3, SaveLandsAlone
  <2>4. CASE Taken(r, {Request("load", "", 0, 0, 0, Unset)})
    BY <1>0, <2>1, <2>2, <2>4, SaveFetches, SaveLandsElsewhere
  <2> QED
    BY <2>1, <2>3, <2>4
<1>5. CASE land_preview(r)
  <2>1. /\ Taken(r, {}) /\ UNCHANGED <<store, detail, editor, texts, overwrote>>
        /\ pane' = pane \/ pane' = [pane EXCEPT !.html = r.text, !.shown = "preview", !.landed = r.seq]
    BY <1>5 DEF land_preview
  <2>2. DOMAIN pane' = PaneFields
    BY <1>0, <2>1 DEF PaneFields
  <2> QED
    BY <1>0, <2>1, <2>2, SaveLandsAlone
<1>6. CASE land_save(r) /\ r.status = "ok"
  <2>1. /\ editor' = [editor EXCEPT !.saving = FALSE, !.revision = r.answer.revision,
                                    !.base = r.answer, !.conflict = FALSE,
                                    !.baseline = editor.content, !.saved = r.text]
        /\ pane' = [pane EXCEPT !.html = r.answer.text, !.shown = "document"]
        /\ detail' = r.answer
        /\ Taken(r, {Request("refresh", "", 0, 0, 0, Unset)})
        /\ UNCHANGED <<store, texts, overwrote>>
    BY <1>6 DEF land_save, refreshCatalog, FetchCatalog
  <2>2. /\ DOMAIN pane' = PaneFields /\ DOMAIN editor' = EditorFields
        /\ editor'.base = r.answer /\ editor'.revision = r.answer.revision
    BY <1>0, <2>1 DEF PaneFields, EditorFields
  <2>3. \A q \in {Request("refresh", "", 0, 0, 0, Unset)} :
          DOMAIN q = RequestFields /\ ~(q.op = "create" /\ q.status = "sent") /\ RequestSound(q)
    BY SaveFetches
  <2> QED
    BY <1>0, <2>1, <2>2, <2>3, SaveLands
<1>7. CASE land_save(r) /\ r.status # "ok"
  <2>1. /\ editor' = [editor EXCEPT !.saving = FALSE, !.conflict = @ \/ r.status = "conflict"]
        /\ Taken(r, {}) /\ UNCHANGED <<store, texts, overwrote, pane, detail>>
    BY <1>7 DEF land_save
  <2>2. DOMAIN editor' = EditorFields /\ editor'.base = editor.base /\ editor'.revision = editor.revision
    BY <1>0, <2>1 DEF EditorFields
  <2> QED
    BY <1>0, <2>1, <2>2, SaveLands DEF SaveInv
<1> QED
  BY <1>1, <1>2, <1>3, <1>4, <1>5, <1>6, <1>7 DEF Land

-----------------------------------------------------------------------------
LEMMA SaveInit == DocConsoleInit => SaveInv
<1> SUFFICES ASSUME DocConsoleInit PROVE SaveInv
  OBVIOUS
<1>1. EditorShapes /\ Creating = {} /\ docFlight = {}
  BY DEF DocConsoleInit, EditorShapes, EditorFields, PaneFields, Creating
<1>0. texts = 0 /\ \A d \in DocIds : store[d].revision = 1 /\ store[d].born = 0 /\ store[d].text = 0
  BY DEF DocConsoleInit
<1>2. BirthsApart
  BY <1>1, <1>0 DEF BirthsApart
<1>3. SnapshotSound(Unset)
  <2>1. Unset.revision = 0 /\ Unset.born = 0 /\ Unset.text = 0
    BY DEF Unset
  <2> QED
    BY <1>1, <1>0, <2>1 DEF SnapshotSound
<1>4. SnapshotSound(detail)
  <2>1. PICK id \in DocIds : detail = AsShown(id, store)
    BY DEF DocConsoleInit
  <2>2. detail.id = id /\ detail.text = 0 /\ detail.revision = 1 /\ detail.born = 0
    BY <2>1 DEF AsShown, DocConsoleInit
  <2> QED
    BY <1>1, <1>0, <2>2 DEF SnapshotSound
<1>5. editor.base = Unset /\ editor.revision = 0 /\ Unset.revision = 0
  BY DEF DocConsoleInit, Unset
<1>6. OverwritesSeen
  BY DEF DocConsoleInit, OverwritesSeen, Unset
<1> QED
  BY <1>1, <1>2, <1>3, <1>4, <1>5, <1>6 DEF SaveInv

LEMMA SaveStep == SaveInv /\ [DocConsoleNext]_docConsoleVars => SaveInv'
<1> SUFFICES ASSUME SaveInv, [DocConsoleNext]_docConsoleVars PROVE SaveInv'
  OBVIOUS
<1>1. ASSUME NEW keep \in BOOLEAN, LoadDocument(keep) PROVE SaveInv'
  BY <1>1, SavePage
<1>2. ASSUME NEW id \in DocIds, select(id) \/ create(id) \/ remove(id) \/ Other(id) PROVE SaveInv'
  BY <1>2, SavePage, SaveCreate, SaveOther
<1>3. CASE openEditor \/ Type \/ PreviewTimer \/ save_document \/ close
  BY <1>3, SaveOpens, SaveTypes, SaveTimer, SaveSaves, SaveCloses
<1>4. ASSUME NEW m, SetMode(m) PROVE SaveInv'
  BY <1>4, SaveMode
<1>5. ASSUME NEW r \in docFlight, Serve(r) \/ Lost(r) \/ Land(r) PROVE SaveInv'
  BY <1>5, SaveServe, SaveLost, SaveLand
<1>6. CASE UNCHANGED docConsoleVars
  BY <1>6, SaveQuiet DEF docConsoleVars, SaveInv, EditorShapes
<1> QED
  BY <1>1, <1>2, <1>3, <1>4, <1>5, <1>6 DEF DocConsoleNext

-----------------------------------------------------------------------------
(* The preview.                                                             *)

\* A step that leaves the buffer alone, and the pane but for what a landed save shows.
LEMMA PreviewKeeps ==
    ASSUME PreviewInv, editor'.open => editor.open, editor'.content = editor.content,
           pane'.seq = pane.seq, pane'.landed = pane.landed, pane'.timer = pane.timer,
           pane'.missed = pane.missed, pane'.mode = pane.mode,
           pane'.shown = "document" \/ (pane'.shown = pane.shown /\ pane'.html = pane.html),
           \A r \in docFlight' : r.op = "preview" =>
             \E q \in docFlight : q.op = "preview" /\ q.seq = r.seq /\ q.text = r.text
    PROVE  PreviewInv'
<1>1. Settled' => Settled
  BY DEF Settled
<1> QED
  BY <1>1 DEF PreviewInv

\* A step after which the editor is shut or its buffer is due for a preview.
LEMMA PreviewUnsettled ==
    ASSUME PreviewInv, ~Settled', pane'.seq = pane.seq, pane'.landed = pane.landed,
           \A r \in docFlight' : r.op = "preview" => r \in docFlight
    PROVE  PreviewInv'
BY DEF PreviewInv

\* runPreview: the newest request is of the buffer as it is.
LEMMA PreviewRuns ==
    ASSUME PreviewInv, NEW p, DOMAIN p = PaneFields, p.seq = pane.seq, p.landed = pane.landed, NEW doc, NEW e,
           pane' = runPreview(e, p, doc)[1], docFlight' = docFlight \cup runPreview(e, p, doc)[2],
           editor'.content = e.content
    PROVE  PreviewInv'
<1>1. CASE doc = Unset
  <2>1. pane' = [p EXCEPT !.missed = TRUE] /\ docFlight' = docFlight
    BY <1>1 DEF runPreview
  <2>2. pane'.missed = TRUE /\ pane'.seq = pane.seq /\ pane'.landed = pane.landed
    BY <2>1 DEF PaneFields
  <2> QED
    BY <2>1, <2>2, PreviewUnsettled DEF Settled
<1>2. CASE doc # Unset
  <2> DEFINE q == Request("preview", doc.id, e.content, 0, p.seq + 1, Unset)
  <2>1. /\ pane' = [p EXCEPT !.seq = @ + 1, !.timer = FALSE, !.missed = FALSE]
        /\ docFlight' = docFlight \cup {q}
    BY <1>2 DEF runPreview
  <2>2. pane'.seq = pane.seq + 1 /\ pane'.landed = pane.landed
    BY <2>1 DEF PaneFields
  <2>3. q.op = "preview" /\ q.text = e.content /\ q.seq = pane.seq + 1
    BY RequestMade
  <2> HIDE DEF q
  <2>4. pane.seq \in Nat /\ pane.landed \in 0 .. pane.seq
        /\ \A r \in docFlight : r.op = "preview" => r.seq \in 0 .. pane.seq
    BY DEF PreviewInv
  <2>5. \A r \in docFlight' : r.op = "preview" =>
          r.seq \in 0 .. pane'.seq /\ (r.seq = pane'.seq => r.text = editor'.content)
    BY <2>1, <2>2, <2>3, <2>4
  <2>6. pane'.seq \in Nat /\ pane'.landed \in 0 .. pane'.seq /\ pane'.landed # pane'.seq
    BY <2>2, <2>4
  <2> QED
    BY <2>5, <2>6 DEF PreviewInv
<1> QED
  BY <1>1, <1>2

\* What a page sends besides previews.
LEMMA PreviewOthers ==
    ASSUME PreviewInv, UNCHANGED <<editor, pane>>,
           \A r \in docFlight' : r.op = "preview" => r \in docFlight
    PROVE  PreviewInv'
BY PreviewKeeps

LEMMA PreviewPage ==
    ASSUME PreviewInv, NEW id, NEW keep \in BOOLEAN,
           LoadDocument(keep) \/ select(id) \/ remove(id) \/ create(id)
    PROVE  PreviewInv'
<1>1. PICK op, of, text : /\ op # "preview" /\ UNCHANGED <<editor, pane>>
                          /\ docFlight' = docFlight \cup {Request(op, of, text, 0, 0, Unset)}
  <2>1. CASE LoadDocument(keep)
    BY <2>1 DEF LoadDocument, Send, FetchCatalog
  <2>2. CASE select(id)
    BY <2>2 DEF select, Send, Fetch
  <2>3. CASE remove(id)
    BY <2>3 DEF remove, Send
  <2>4. CASE create(id)
    BY <2>4 DEF create, Send
  <2> QED
    BY <2>1, <2>2, <2>3, <2>4
<1> DEFINE q == Request(op, of, text, 0, 0, Unset)
<1>2. q.op = op /\ docFlight' = docFlight \cup {q}
  BY <1>1, RequestMade
<1> HIDE DEF q
<1> QED
  BY <1>1, <1>2, PreviewOthers

LEMMA PreviewOpens == ASSUME SaveInv, PreviewInv, openEditor PROVE PreviewInv'
<1> DEFINE e == [editor EXCEPT !.open = TRUE, !.content = detail.text, !.baseline = detail.text,
                               !.saved = detail.text,
                               !.revision = detail.revision, !.base = detail, !.conflict = FALSE]
           p == [pane EXCEPT !.html = detail.text, !.mode = "split", !.shown = "document", !.timer = FALSE]
<1>1. editor' = e /\ pane' = runPreview(e, p, detail)[1] /\ docFlight' = docFlight \cup runPreview(e, p, detail)[2]
  BY DEF openEditor, Send
<1>2. DOMAIN p = PaneFields /\ p.seq = pane.seq /\ p.landed = pane.landed
  BY DEF SaveInv, EditorShapes, PaneFields
<1> HIDE DEF e, p
<1> QED
  BY <1>1, <1>2, PreviewRuns

LEMMA PreviewTypes == ASSUME SaveInv, PreviewInv, Type PROVE PreviewInv'
<1>1. /\ UNCHANGED docFlight
      /\ pane' = IF pane.mode # "edit" THEN [pane EXCEPT !.timer = TRUE] ELSE pane
  BY DEF Type
<1>2. /\ pane'.seq = pane.seq /\ pane'.landed = pane.landed /\ pane'.mode = pane.mode
      /\ pane.mode # "edit" => pane'.timer = TRUE
  BY <1>1 DEF SaveInv, EditorShapes, PaneFields
<1>3. ~Settled'
  BY <1>2 DEF Settled
<1> QED
  BY <1>1, <1>2, <1>3, PreviewUnsettled

LEMMA PreviewRedone ==
    ASSUME SaveInv, PreviewInv, NEW m, PreviewTimer \/ SetMode(m)
    PROVE  PreviewInv'
<1>1. CASE PreviewTimer
  <2> DEFINE p == [pane EXCEPT !.timer = FALSE]
  <2>1. /\ pane' = runPreview(editor, p, detail)[1] /\ docFlight' = docFlight \cup runPreview(editor, p, detail)[2]
        /\ UNCHANGED editor
    BY <1>1 DEF PreviewTimer, Send
  <2>2. DOMAIN p = PaneFields /\ p.seq = pane.seq /\ p.landed = pane.landed
    BY DEF SaveInv, EditorShapes, PaneFields
  <2> HIDE DEF p
  <2> QED
    BY <2>1, <2>2, PreviewRuns
<1>2. CASE SetMode(m) /\ m # "edit"
  <2> DEFINE p == [pane EXCEPT !.mode = m]
  <2>1. /\ pane' = runPreview(editor, p, detail)[1] /\ docFlight' = docFlight \cup runPreview(editor, p, detail)[2]
        /\ UNCHANGED editor
    BY <1>2 DEF SetMode, Send
  <2>2. DOMAIN p = PaneFields /\ p.seq = pane.seq /\ p.landed = pane.landed
    BY DEF SaveInv, EditorShapes, PaneFields
  <2> HIDE DEF p
  <2> QED
    BY <2>1, <2>2, PreviewRuns
<1>3. CASE SetMode(m) /\ m = "edit"
  <2>1. pane' = [pane EXCEPT !.mode = m] /\ docFlight' = docFlight
    BY <1>3 DEF SetMode, Send
  <2>2. pane'.seq = pane.seq /\ pane'.landed = pane.landed /\ pane'.mode = "edit"
    BY <1>3, <2>1 DEF SaveInv, EditorShapes, PaneFields
  <2> QED
    BY <2>1, <2>2, PreviewUnsettled DEF Settled
<1> QED
  BY <1>1, <1>2, <1>3

LEMMA PreviewSaves == ASSUME SaveInv, PreviewInv, save_document \/ close PROVE PreviewInv'
<1>1. CASE save_document
  <2> DEFINE q0 == Request("save", detail.id, editor.content, editor.revision, 0, editor.base)
             q == [q0 EXCEPT !.edited = editor.saved]
  <2>1. DOMAIN q0 = RequestFields /\ q0.op = "save"
    BY RequestMade
  <2>2. editor' = [editor EXCEPT !.saving = TRUE] /\ docFlight' = docFlight \cup {q} /\ UNCHANGED pane
    BY <1>1 DEF save_document, Send
  <2> HIDE DEF q0
  <2>3. q.op = "save"
    BY <2>1 DEF RequestFields
  <2> HIDE DEF q
  <2>4. editor'.open = editor.open /\ editor'.content = editor.content
    BY <2>2 DEF SaveInv, EditorShapes, EditorFields
  <2>5. \A r \in docFlight' : r.op = "preview" => r \in docFlight
    BY <2>2, <2>3
  <2> QED
    BY <2>2, <2>4, <2>5, PreviewKeeps
<1>2. CASE close
  <2>1. /\ editor' = [editor EXCEPT !.open = FALSE] /\ pane' = [pane EXCEPT !.timer = FALSE]
        /\ UNCHANGED docFlight
    BY <1>2 DEF close
  <2>2. editor'.open = FALSE /\ pane'.seq = pane.seq /\ pane'.landed = pane.landed
    BY <2>1 DEF SaveInv, EditorShapes, EditorFields, PaneFields
  <2> QED
    BY <2>1, <2>2, PreviewUnsettled DEF Settled
<1> QED
  BY <1>1, <1>2

\* The server answers with the request it was sent.
LEMMA PreviewServed ==
    ASSUME SaveInv, PreviewInv, NEW r \in docFlight, Serve(r) \/ Lost(r)
    PROVE  PreviewInv'
<1>1. PICK status, answer, list :
        docFlight' = (docFlight \ {r}) \cup {[r EXCEPT !.status = status, !.answer = answer, !.list = list]}
  <2>1. PICK status, answer, s : Served(r, status, answer, s)
    <3>1. CASE Lost(r)
      BY <3>1 DEF Lost
    <3>2. CASE docs_catalog(r) \/ docs_document(r) \/ docs_update_read(r)
      BY <3>2 DEF docs_catalog, docs_document, docs_update_read
    <3>3. CASE docs_create(r)
      BY <3>3 DEF docs_create
    <3>4. CASE docs_delete(r)
      BY <3>4 DEF docs_delete
    <3>5. CASE docs_update(r)
      BY <3>5 DEF docs_update
    <3> QED
      BY <3>1, <3>2, <3>3, <3>4, <3>5 DEF Serve
  <2> QED
    BY <2>1 DEF Served
<1> DEFINE q == [r EXCEPT !.status = status, !.answer = answer, !.list = list]
<1>2. q.op = r.op /\ q.seq = r.seq /\ q.text = r.text
  BY AnswerMade
<1>3. docFlight' = (docFlight \ {r}) \cup {q}
  BY <1>1
<1> HIDE DEF q
<1>4. UNCHANGED <<editor, pane>>
  BY DEF Serve, Lost
<1> QED
  BY <1>2, <1>3, <1>4, PreviewKeeps

LEMMA PreviewLand == ASSUME SaveInv, PreviewInv, NEW r \in docFlight, Land(r) PROVE PreviewInv'
<1>1. CASE land_load(r) \/ land_refresh(r) \/ land_doc(r) \/ land_changed(r)
  <2>1. PICK op, of : /\ op # "preview" /\ UNCHANGED <<editor, pane>>
                      /\ \/ docFlight' = (docFlight \ {r}) \cup {Request(op, of, 0, 0, 0, Unset)}
                         \/ docFlight' = docFlight \ {r}
    <3>1. CASE land_load(r)
      BY <3>1 DEF land_load, Taken, Fetch
    <3>2. CASE land_refresh(r) \/ land_doc(r)
      BY <3>2 DEF land_refresh, land_doc, Taken
    <3>3. CASE land_changed(r)
      BY <3>3 DEF land_changed, Taken, FetchCatalog
    <3> QED
      BY <1>1, <3>1, <3>2, <3>3
  <2> DEFINE q == Request(op, of, 0, 0, 0, Unset)
  <2>2. q.op = op /\ (docFlight' = (docFlight \ {r}) \cup {q} \/ docFlight' = docFlight \ {r})
    BY <2>1, RequestMade
  <2> HIDE DEF q
  <2> QED
    BY <2>1, <2>2, PreviewOthers
<1>2. CASE land_preview(r)
  <2>1. docFlight' = docFlight \ {r} /\ UNCHANGED editor /\ r.op = "preview"
    BY <1>2 DEF land_preview, Taken
  <2>2. CASE pane' = pane
    BY <2>1, <2>2, PreviewOthers
  <2>3. CASE pane' # pane
    <3>1. r.seq = pane.seq /\ pane' = [pane EXCEPT !.html = r.text, !.shown = "preview", !.landed = r.seq]
      BY <1>2, <2>3 DEF land_preview
    <3>2. /\ pane'.html = r.text /\ pane'.landed = pane.seq /\ pane'.seq = pane.seq
          /\ pane'.timer = pane.timer /\ pane'.missed = pane.missed /\ pane'.mode = pane.mode
      BY <3>1 DEF SaveInv, EditorShapes, PaneFields
    <3>3. Settled' => Settled
      BY <2>1, <3>2 DEF Settled
    <3> QED
      BY <2>1, <3>1, <3>2, <3>3 DEF PreviewInv
  <2> QED
    BY <2>2, <2>3
<1>3. CASE land_save(r) /\ r.status = "ok"
  <2>1. /\ editor' = [editor EXCEPT !.saving = FALSE, !.revision = r.answer.revision,
                                    !.base = r.answer, !.conflict = FALSE,
                                    !.baseline = editor.content, !.saved = r.text]
        /\ pane' = [pane EXCEPT !.html = r.answer.text, !.shown = "document"]
        /\ detail' = r.answer
        /\ Taken(r, {Request("refresh", "", 0, 0, 0, Unset)})
        /\ UNCHANGED <<store, texts, overwrote>>
    BY <1>3 DEF land_save, refreshCatalog, FetchCatalog
  <2>2. PICK k : k.op = "refresh" /\ Taken(r, {k})
    <3> DEFINE q == Request("refresh", "", 0, 0, 0, Unset)
    <3>1. q.op = "refresh"
      BY DEF Request
    <3>2. Taken(r, {q})
      BY <2>1
    <3> HIDE DEF q
    <3> QED
      BY <3>1, <3>2
  <2>3. /\ editor'.open = editor.open /\ editor'.content = editor.content
        /\ pane'.shown = "document" /\ pane'.landed = pane.landed /\ pane'.seq = pane.seq
        /\ pane'.timer = pane.timer /\ pane'.missed = pane.missed /\ pane'.mode = pane.mode
    BY <2>1 DEF SaveInv, EditorShapes, PaneFields, EditorFields
  <2>4. \A i \in docFlight' : i.op = "preview" => i \in docFlight
    BY <2>2 DEF Taken
  <2> QED
    BY <2>3, <2>4, PreviewKeeps
<1>4. CASE land_save(r) /\ r.status # "ok"
  <2>1. /\ editor' = [editor EXCEPT !.saving = FALSE, !.conflict = @ \/ r.status = "conflict"]
        /\ docFlight' = docFlight \ {r} /\ UNCHANGED pane
    BY <1>4 DEF land_save, Taken
  <2>2. editor'.open = editor.open /\ editor'.content = editor.content
    BY <2>1 DEF SaveInv, EditorShapes, EditorFields
  <2> QED
    BY <2>1, <2>2, PreviewKeeps
<1> QED
  BY <1>1, <1>2, <1>3, <1>4 DEF Land

LEMMA PreviewStep == SaveInv /\ PreviewInv /\ [DocConsoleNext]_docConsoleVars => PreviewInv'
<1> SUFFICES ASSUME SaveInv, PreviewInv, [DocConsoleNext]_docConsoleVars PROVE PreviewInv'
  OBVIOUS
<1>1. ASSUME NEW keep \in BOOLEAN, LoadDocument(keep) PROVE PreviewInv'
  BY <1>1, PreviewPage
<1>2. ASSUME NEW id \in DocIds, select(id) \/ create(id) \/ remove(id) PROVE PreviewInv'
  BY <1>2, PreviewPage
<1>3. ASSUME NEW id \in DocIds, Other(id) PROVE PreviewInv'
  BY <1>3, PreviewOthers DEF Other
<1>4. CASE openEditor \/ Type \/ PreviewTimer \/ save_document \/ close
  BY <1>4, PreviewOpens, PreviewTypes, PreviewRedone, PreviewSaves
<1>5. ASSUME NEW m, SetMode(m) PROVE PreviewInv'
  BY <1>5, PreviewRedone
<1>6. ASSUME NEW r \in docFlight, Serve(r) \/ Lost(r) \/ Land(r) PROVE PreviewInv'
  BY <1>6, PreviewServed, PreviewLand
<1>7. CASE UNCHANGED docConsoleVars
  BY <1>7, PreviewOthers DEF docConsoleVars
<1> QED
  BY <1>1, <1>2, <1>3, <1>4, <1>5, <1>6, <1>7 DEF DocConsoleNext

\* A save the server took on the document it was based on replaced the text the
\* page was given last, and the preview that has caught up shows the buffer,
\* whatever order the answers arrive in (DocsView.vue, DocEditor.vue).
THEOREM EditorHolds == DocConsoleSpec => []EditorTrue
<1>1. DocConsoleInit => PreviewInv
  <2>1. ASSUME DocConsoleInit
        PROVE  pane.seq = 0 /\ pane.landed = 0 /\ ~editor.open /\ docFlight = {}
    BY <2>1 DEF DocConsoleInit
  <2> QED
    BY <2>1 DEF PreviewInv, Settled
<1>2. SaveInv /\ PreviewInv => EditorTrue
  BY DEF SaveInv, PreviewInv, EditorTrue, PreviewTrue, Settled
<1> QED
  BY <1>1, <1>2, SaveInit, SaveStep, PreviewStep, PTL DEF DocConsoleSpec

-----------------------------------------------------------------------------
(* The console's pages: what each may ask for, and whose answer it waits for. *)

OpsOf(p) ==
    CASE p = "home"     -> {"overview"}
      [] p = "repos"    -> {"sync", "job"}
      [] p = "repo"     -> {"repo", "issues"}
      [] p = "preview"  -> {"runner", "ticket"}
      [] p = "findings" -> {"rows", "decide"}
      [] p = "finding"  -> {"fix", "retry", "cancel"}
      [] p = "models"   -> {"save"}
      [] OTHER          -> {}

IsSeq(f) == \E S : f \in Seq(S)

\* Of the requests of one kind under way, the last is for arg; there is none.
Newest(f, op, arg) ==
    \E i \in DOMAIN f : f[i].op = op /\ f[i].arg = arg /\ \A j \in DOMAIN f : j > i => f[j].op # op
Unasked(f, op) == \A i \in DOMAIN f : f[i].op # op

\* A session whose identity is known is of somebody who may see the overview.
SessionShaped(s) ==
    /\ DOMAIN s = {"loaded", "info", "inflight", "error", "retries", "timers"}
    /\ s.loaded \in BOOLEAN /\ s.inflight \in BOOLEAN /\ s.error \in BOOLEAN
SignedIn(s) == s.loaded => ~s.info.auth_enabled \/ s.info.authenticated

GuardSound ==
    /\ nav # NoNav => nav[1] \in Guarded
    /\ decided.page \in Guarded => decided.loaded \/ decided.failed

FlightSound ==
    /\ IsSeq(flight)
    /\ \A i \in DOMAIN flight :
          flight[i].op \in OpsOf(page) /\ (flight[i].op = "save" => RouteAccepted(flight[i].arg))

\* The overview waits for the session, or has asked, or has a timer, or gave up.
HomeSound == page = "home" =>
    /\ DOMAIN screen = {"stats", "warm", "boot", "warmPolls", "bootRetries", "waiting"}
    /\ screen.waiting \in BOOLEAN /\ screen.boot \in BOOLEAN
    /\ screen.waiting => session.inflight
    /\ ~screen.waiting /\ screen.stats = None =>
           flight # <<>> \/ screen.boot \/ screen.bootRetries >= BOOT_MAX_RETRIES

\* A pane shows what it last asked for, or has still to be told.
PaneSound ==
    /\ page = "repo" =>
          /\ DOMAIN screen = {"slug", "filter", "repo", "issues"}
          /\ \/ Newest(flight, "repo", screen.slug)
             \/ Unasked(flight, "repo") /\ screen.repo \in {None, screen.slug}
          /\ \/ Newest(flight, "issues", <<screen.slug, screen.filter>>)
             \/ Unasked(flight, "issues") /\ screen.issues \in {<<>>, <<screen.slug, screen.filter>>}
    /\ page = "findings" =>
          /\ DOMAIN screen = {"filter", "rows", "active"}
          /\ \/ Newest(flight, "rows", screen.filter)
             \/ Unasked(flight, "rows") /\ screen.rows \in {<<>>, <<screen.filter>>}

ConsoleInv ==
    /\ page \in Pages \cup {"blank", "login"}
    /\ SessionShaped(session) /\ (page # "login" => SignedIn(session))
    /\ GuardSound /\ FlightSound /\ HomeSound /\ PaneSound

-----------------------------------------------------------------------------
(* Requests under way.                                                     *)

LEMMA Joined ==
    ASSUME NEW f, IsSeq(f), NEW g, IsSeq(g), NEW h, h = f \o g
    PROVE  /\ IsSeq(h) /\ Len(f) \in Nat /\ Len(g) \in Nat /\ Len(h) = Len(f) + Len(g)
           /\ DOMAIN f = 1 .. Len(f) /\ DOMAIN g = 1 .. Len(g) /\ DOMAIN h = 1 .. (Len(f) + Len(g))
           /\ \A i \in 1 .. Len(f) : h[i] = f[i]
           /\ \A i \in 1 .. Len(g) : h[Len(f) + i] = g[i]
           /\ \A i \in DOMAIN h : i \in DOMAIN f \/ \E k \in DOMAIN g : h[i] = g[k]
<1>1. PICK S : f \in Seq(S)
  BY DEF IsSeq
<1>2. PICK T : g \in Seq(T)
  BY DEF IsSeq
<1>3. f \in Seq(S \cup T) /\ g \in Seq(S \cup T)
  <2>1. ASSUME NEW A, NEW B, NEW s \in Seq(A), A \subseteq B PROVE s \in Seq(B)
    <3>1. s \in [1 .. Len(s) -> A] /\ Len(s) \in Nat
      OBVIOUS
    <3>2. s \in [1 .. Len(s) -> B]
      BY <2>1, <3>1
    <3> QED BY <3>1, <3>2
  <2> QED BY <1>1, <1>2, <2>1
<1> DEFINE R == S \cup T
<1> HIDE DEF R
<1>4. f \in Seq(R) /\ g \in Seq(R)
  BY <1>3 DEF R
<1>5. f \o g \in Seq(R) /\ Len(f \o g) = Len(f) + Len(g) /\ Len(f) \in Nat /\ Len(g) \in Nat
  BY <1>4
<1>6. \A i \in 1 .. Len(f) : (f \o g)[i] = f[i]
  BY <1>4
<1>7. \A i \in 1 .. Len(g) : (f \o g)[Len(f) + i] = g[i]
  BY <1>4
<1>8. DOMAIN f = 1 .. Len(f) /\ DOMAIN g = 1 .. Len(g) /\ DOMAIN (f \o g) = 1 .. (Len(f) + Len(g))
  BY <1>4, <1>5
<1>9. ASSUME NEW i \in DOMAIN (f \o g) PROVE i \in DOMAIN f \/ \E k \in DOMAIN g : (f \o g)[i] = g[k]
  <2>1. i \in 1 .. Len(f) \/ (i - Len(f) \in 1 .. Len(g) /\ i = Len(f) + (i - Len(f)))
    BY <1>5, <1>8
  <2> QED BY <1>7, <1>8, <2>1
<1>10. IsSeq(f \o g)
  BY <1>5 DEF IsSeq
<1> QED BY <1>5, <1>6, <1>7, <1>8, <1>9, <1>10

LEMMA Shorter ==
    ASSUME NEW f, IsSeq(f), 1 \in DOMAIN f, NEW h, h = Lists!RemoveAt(f, 1)
    PROVE  /\ IsSeq(h) /\ Len(f) \in Nat \ {0} /\ Len(h) = Len(f) - 1
           /\ DOMAIN f = 1 .. Len(f) /\ DOMAIN h = 1 .. (Len(f) - 1)
           /\ \A i \in DOMAIN h : h[i] = f[i + 1] /\ i + 1 \in DOMAIN f
<1>1. PICK S : f \in Seq(S)
  BY DEF IsSeq
<1>2. Len(f) \in Nat \ {0} /\ DOMAIN f = 1 .. Len(f)
  BY <1>1
<1>3. SubSeq(f, 1, 1 - 1) = <<>>
  <2>1. SubSeq(f, 1, 0) \in Seq(S) /\ Len(SubSeq(f, 1, 0)) = 0
    BY <1>1, <1>2
  <2> QED BY <2>1
<1> DEFINE t == SubSeq(f, 1 + 1, Len(f))
<1>4. t \in Seq(S) /\ Len(t) = Len(f) - 1 /\ \A i \in 1 .. (Len(f) - 1) : t[i] = f[i + 1]
  BY <1>1, <1>2
<1> HIDE DEF t
<1>5. <<>> \o t = t
  BY <1>4
<1>6. h = t
  BY <1>3, <1>5 DEF Lists!RemoveAt, t
<1>7. IsSeq(h)
  BY <1>4, <1>6 DEF IsSeq
<1>8. DOMAIN h = 1 .. (Len(f) - 1)
  BY <1>2, <1>4, <1>6
<1>9. \A i \in 1 .. (Len(f) - 1) : i + 1 \in 1 .. Len(f)
  BY <1>2
<1> QED BY <1>2, <1>4, <1>6, <1>7, <1>8, <1>9

\* What is asked anew is the newest, what else is asked makes no difference.
LEMMA AskedAnew ==
    ASSUME NEW f, IsSeq(f), NEW g, IsSeq(g), NEW op, NEW arg, Newest(g, op, arg)
    PROVE  Newest(f \o g, op, arg)
<1> DEFINE h == f \o g
<1>1. /\ Len(f) \in Nat /\ Len(g) \in Nat /\ DOMAIN f = 1 .. Len(f) /\ DOMAIN g = 1 .. Len(g)
      /\ DOMAIN h = 1 .. (Len(f) + Len(g))
      /\ \A i \in 1 .. Len(g) : h[Len(f) + i] = g[i]
  BY Joined
<1> HIDE DEF h
<1>2. PICK k \in DOMAIN g : g[k].op = op /\ g[k].arg = arg /\ \A j \in DOMAIN g : j > k => g[j].op # op
  BY DEF Newest
<1>3. Len(f) + k \in DOMAIN h /\ h[Len(f) + k] = g[k]
  BY <1>1, <1>2
<1>4. ASSUME NEW j \in DOMAIN h, j > Len(f) + k PROVE h[j].op # op
  <2>1. j - Len(f) \in DOMAIN g /\ j - Len(f) > k /\ j = Len(f) + (j - Len(f))
    BY <1>1, <1>2, <1>4
  <2>2. h[j] = g[j - Len(f)]
    BY <1>1, <2>1
  <2> QED BY <1>2, <2>1, <2>2
<1>5. Newest(h, op, arg)
  BY <1>2, <1>3, <1>4 DEF Newest
<1> QED BY <1>5 DEF h

LEMMA AskedElse ==
    ASSUME NEW f, IsSeq(f), NEW g, IsSeq(g), NEW op, Unasked(g, op)
    PROVE  /\ \A arg : Newest(f, op, arg) => Newest(f \o g, op, arg)
           /\ Unasked(f, op) => Unasked(f \o g, op)
<1> DEFINE h == f \o g
<1>1. /\ Len(f) \in Nat /\ Len(g) \in Nat /\ DOMAIN f = 1 .. Len(f) /\ DOMAIN g = 1 .. Len(g)
      /\ DOMAIN h = 1 .. (Len(f) + Len(g))
      /\ \A i \in 1 .. Len(f) : h[i] = f[i]
      /\ \A i \in 1 .. Len(g) : h[Len(f) + i] = g[i]
  BY Joined
<1> HIDE DEF h
<1>2. ASSUME NEW j \in DOMAIN h, j \notin DOMAIN f PROVE h[j].op # op
  <2>1. j - Len(f) \in DOMAIN g /\ j = Len(f) + (j - Len(f))
    BY <1>1, <1>2
  <2>2. h[j] = g[j - Len(f)]
    BY <1>1, <2>1
  <2> QED BY <2>1, <2>2 DEF Unasked
<1>3. ASSUME NEW arg, Newest(f, op, arg) PROVE Newest(h, op, arg)
  <2>1. PICK i \in DOMAIN f : f[i].op = op /\ f[i].arg = arg /\ \A j \in DOMAIN f : j > i => f[j].op # op
    BY <1>3 DEF Newest
  <2>2. i \in DOMAIN h /\ h[i] = f[i]
    BY <1>1, <2>1
  <2>3. \A j \in DOMAIN h : j > i => h[j].op # op
    BY <1>1, <1>2, <2>1
  <2> QED BY <2>1, <2>2, <2>3 DEF Newest
<1>4. ASSUME Unasked(f, op) PROVE Unasked(h, op)
  BY <1>1, <1>2, <1>4 DEF Unasked
<1> QED BY <1>3, <1>4 DEF h

\* An answer in its turn: the newest request is still to be answered, or was it.
LEMMA AnswerTaken ==
    ASSUME NEW f, IsSeq(f), 1 \in DOMAIN f, NEW op
    PROVE  /\ Unasked(f, op) => f[1].op # op /\ Unasked(Lists!RemoveAt(f, 1), op)
           /\ \A arg : Newest(f, op, arg) =>
                \/ Newest(Lists!RemoveAt(f, 1), op, arg)
                \/ f[1].op = op /\ f[1].arg = arg /\ Unasked(Lists!RemoveAt(f, 1), op)
<1> DEFINE h == Lists!RemoveAt(f, 1)
<1>1. /\ Len(f) \in Nat \ {0} /\ DOMAIN f = 1 .. Len(f) /\ DOMAIN h = 1 .. (Len(f) - 1)
      /\ \A i \in DOMAIN h : h[i] = f[i + 1] /\ i + 1 \in DOMAIN f
  BY Shorter
<1> HIDE DEF h
<1>2. ASSUME Unasked(f, op) PROVE f[1].op # op /\ Unasked(h, op)
  BY <1>1, <1>2 DEF Unasked
<1>3. ASSUME NEW arg, Newest(f, op, arg)
      PROVE  Newest(h, op, arg) \/ (f[1].op = op /\ f[1].arg = arg /\ Unasked(h, op))
  <2>1. PICK i \in DOMAIN f : f[i].op = op /\ f[i].arg = arg /\ \A j \in DOMAIN f : j > i => f[j].op # op
    BY <1>3 DEF Newest
  <2>2. CASE i = 1
    <3>1. \A j \in DOMAIN h : j + 1 \in DOMAIN f /\ j + 1 > i /\ h[j] = f[j + 1]
      BY <1>1, <2>2
    <3> QED BY <2>1, <2>2, <3>1 DEF Unasked
  <2>3. CASE i # 1
    <3>1. i - 1 \in DOMAIN h /\ h[i - 1] = f[i]
      BY <1>1, <2>1, <2>3
    <3>2. \A j \in DOMAIN h : j > i - 1 => j + 1 \in DOMAIN f /\ j + 1 > i /\ h[j] = f[j + 1]
      BY <1>1, <2>1
    <3> QED BY <2>1, <3>1, <3>2 DEF Newest
  <2> QED BY <2>2, <2>3
<1> QED BY <1>2, <1>3 DEF h

-----------------------------------------------------------------------------
(* Opening pages.                                                          *)

LEMMA SessionLoads ==
    ASSUME NEW s, SessionShaped(s)
    PROVE  /\ SessionShaped(load(s)) /\ load(s).loaded = s.loaded /\ load(s).info = s.info
           /\ ~s.loaded => load(s).inflight
           /\ s.inflight => load(s).inflight
BY DEF SessionShaped, load

\* The requests sent along with a page, and those of a page without any.
LEMMA FewAsks ==
    /\ IsSeq(<<>>) /\ DOMAIN <<>> = {} /\ \A op : Unasked(<<>>, op)
    /\ \A op, arg : /\ IsSeq(<<Ask(op, arg)>>) /\ DOMAIN <<Ask(op, arg)>> = {1}
                    /\ <<Ask(op, arg)>>[1] = Ask(op, arg) /\ <<Ask(op, arg)>> # <<>> /\ Newest(<<Ask(op, arg)>>, op, arg)
                    /\ \A o : o # op => Unasked(<<Ask(op, arg)>>, o)
    /\ \A op, arg, op2, arg2 : LET g == <<Ask(op, arg), Ask(op2, arg2)>> IN
                    /\ IsSeq(g) /\ DOMAIN g = {1, 2} /\ g[1] = Ask(op, arg) /\ g[2] = Ask(op2, arg2)
                    /\ op # op2 => Newest(g, op, arg) /\ Newest(g, op2, arg2)
<1>1. IsSeq(<<>>) /\ DOMAIN <<>> = {} /\ \A op : Unasked(<<>>, op)
  <2>1. <<>> \in Seq({})
    OBVIOUS
  <2> QED BY <2>1 DEF IsSeq, Unasked
<1>2. ASSUME NEW op, NEW arg
      PROVE  /\ IsSeq(<<Ask(op, arg)>>) /\ DOMAIN <<Ask(op, arg)>> = {1}
             /\ <<Ask(op, arg)>>[1] = Ask(op, arg) /\ <<Ask(op, arg)>> # <<>> /\ Newest(<<Ask(op, arg)>>, op, arg)
             /\ \A o : o # op => Unasked(<<Ask(op, arg)>>, o)
  <2> DEFINE x == Ask(op, arg)
             g == <<x>>
  <2>1. x.op = op /\ x.arg = arg
    BY DEF Ask
  <2> HIDE DEF x
  <2>2. g \in Seq({x}) /\ Len(g) = 1 /\ DOMAIN g = {1} /\ g[1] = x /\ g # <<>>
    OBVIOUS
  <2> HIDE DEF g
  <2>3. IsSeq(g) /\ Newest(g, op, arg) /\ \A o : o # op => Unasked(g, o)
    BY <2>1, <2>2 DEF IsSeq, Newest, Unasked
  <2> QED BY <2>2, <2>3 DEF g, x
<1>3. ASSUME NEW op, NEW arg, NEW op2, NEW arg2
      PROVE  LET g == <<Ask(op, arg), Ask(op2, arg2)>> IN
             /\ IsSeq(g) /\ DOMAIN g = {1, 2} /\ g[1] = Ask(op, arg) /\ g[2] = Ask(op2, arg2)
             /\ op # op2 => Newest(g, op, arg) /\ Newest(g, op2, arg2)
  <2> DEFINE x == Ask(op, arg)
             y == Ask(op2, arg2)
             g == <<x, y>>
  <2>1. x.op = op /\ x.arg = arg /\ y.op = op2 /\ y.arg = arg2
    BY DEF Ask
  <2> HIDE DEF x, y
  <2>2. g \in Seq({x, y}) /\ Len(g) = 2 /\ DOMAIN g = {1, 2} /\ g[1] = x /\ g[2] = y
    OBVIOUS
  <2> HIDE DEF g
  <2>3. IsSeq(g) /\ (op # op2 => Newest(g, op, arg) /\ Newest(g, op2, arg2))
    BY <2>1, <2>2 DEF IsSeq, Newest
  <2> QED BY <2>2, <2>3 DEF g, x, y
<1> QED BY <1>1, <1>2, <1>3

\* What the page shown may have under way.
Fit(x) == x.op \in OpsOf(page) /\ (x.op = "save" => RouteAccepted(x.arg))

LEMMA FlightJoined ==
    ASSUME NEW f, IsSeq(f), NEW g, IsSeq(g), page' = page, flight' = f \o g,
           \A i \in DOMAIN f : Fit(f[i]), \A i \in DOMAIN g : Fit(g[i])
    PROVE  FlightSound' /\ (g # <<>> => flight' # <<>>)
<1> DEFINE h == f \o g
<1>1. h = f \o g
  OBVIOUS
<1>0. IsSeq(h) /\ Len(h) = Len(f) + Len(g)
  BY Joined
<1>2. /\ Len(f) \in Nat /\ Len(g) \in Nat /\ DOMAIN f = 1 .. Len(f) /\ DOMAIN g = 1 .. Len(g)
      /\ DOMAIN h = 1 .. (Len(f) + Len(g))
      /\ \A i \in 1 .. Len(f) : h[i] = f[i]
      /\ \A i \in 1 .. Len(g) : h[Len(f) + i] = g[i]
  BY Joined
<1> HIDE DEF h
<1>3. ASSUME NEW i \in DOMAIN h PROVE Fit(h[i])
  <2>1. CASE i \in DOMAIN f
    BY <1>2, <2>1
  <2>2. CASE i \notin DOMAIN f
    <3>1. i - Len(f) \in DOMAIN g /\ i = Len(f) + (i - Len(f))
      BY <1>2, <2>2
    <3>2. h[i] = g[i - Len(f)]
      BY <1>2, <3>1
    <3> QED BY <3>1, <3>2
  <2> QED BY <2>1, <2>2
<1>4. FlightSound'
  BY <1>0, <1>1, <1>2, <1>3 DEF FlightSound, Fit
<1>5. ASSUME g # <<>> PROVE h # <<>>
  <2>1. PICK T : g \in Seq(T)
    BY DEF IsSeq
  <2>2. Len(g) > 0
    BY <1>2, <1>5, <2>1
  <2>3. Len(h) > 0
    BY <1>0, <1>2, <2>2
  <2> QED BY <2>3
<1> QED BY <1>1, <1>4, <1>5

\* A page as it opens.
LEMMA MountStep ==
    ASSUME NEW p \in Pages, NEW q, NEW s, SessionShaped(s), SignedIn(s), mount(p, q, s)
    PROVE  /\ page' = p /\ SessionShaped(session)' /\ SignedIn(session)'
           /\ FlightSound' /\ HomeSound' /\ PaneSound'
<1>1. CASE p = "home"
  <2> DEFINE v == Opened("home", q)
  <2>1. /\ page' = "home" /\ session' = load(s) /\ screen' = [v EXCEPT !.waiting = ~s.loaded]
        /\ flight' = IF s.loaded /\ HomeMay(s) THEN <<Ask("overview", None)>> ELSE <<>>
    BY <1>1 DEF mount
  <2>2. /\ DOMAIN v = {"stats", "warm", "boot", "warmPolls", "bootRetries", "waiting"}
        /\ v.boot = FALSE
    BY DEF Opened
  <2> HIDE DEF v
  <2>3. SessionShaped(load(s)) /\ load(s).loaded = s.loaded /\ load(s).info = s.info /\ (~s.loaded => load(s).inflight)
    BY SessionLoads
  <2>4. SessionShaped(session)' /\ SignedIn(session)'
    BY <2>1, <2>3 DEF SessionShaped, SignedIn
  <2>5. s.loaded \in BOOLEAN
    BY DEF SessionShaped
  <2>6. /\ DOMAIN screen' = DOMAIN v /\ screen'.waiting = ~s.loaded /\ screen'.boot = FALSE
    BY <2>1, <2>2
  <2>7. s.loaded => flight' # <<>>
    <3>1. s.loaded => HomeMay(s)
      BY DEF SignedIn, HomeMay
    <3> QED BY <2>1, <3>1, FewAsks
  <2>8. HomeSound'
    BY <2>1, <2>2, <2>3, <2>5, <2>6, <2>7 DEF HomeSound
  <2>9. FlightSound'
    <3>1. CASE flight' = <<>>
      BY <3>1, FewAsks DEF FlightSound
    <3>2. CASE flight' = <<Ask("overview", None)>>
      <4>1. /\ IsSeq(flight') /\ DOMAIN flight' = {1} /\ flight'[1] = Ask("overview", None)
        BY <3>2, FewAsks
      <4>2. flight'[1].op = "overview"
        BY <4>1 DEF Ask
      <4> QED BY <2>1, <4>1, <4>2 DEF FlightSound, OpsOf
    <3> QED BY <2>1, <3>1, <3>2
  <2>10. PaneSound'
    BY <2>1 DEF PaneSound
  <2> QED BY <1>1, <2>1, <2>4, <2>8, <2>9, <2>10
<1>2. CASE p # "home"
  <2>1. page' = p /\ session' = s /\ screen' = Opened(p, q) /\ flight' = FirstAsks(p, q)
    BY <1>2 DEF mount
  <2>2. SessionShaped(session)' /\ SignedIn(session)'
    BY <2>1 DEF SessionShaped, SignedIn
  <2>3. HomeSound'
    BY <1>2, <2>1 DEF HomeSound
  <2>4. CASE p = "repo"
    <3> DEFINE f == flight'
               v == screen'
    <3>1. f = <<Ask("repo", q), Ask("issues", <<q, None>>)>>
      BY <2>1, <2>4 DEF FirstAsks
    <3>2. /\ IsSeq(f) /\ DOMAIN f = {1, 2} /\ f[1] = Ask("repo", q) /\ f[2] = Ask("issues", <<q, None>>)
          /\ Newest(f, "repo", q) /\ Newest(f, "issues", <<q, None>>)
      BY <3>1, FewAsks
    <3>3. DOMAIN v = {"slug", "filter", "repo", "issues"} /\ v.slug = q /\ v.filter = None
      BY <2>1, <2>4 DEF Opened
    <3>4. f[1].op = "repo" /\ f[2].op = "issues"
      BY <3>2 DEF Ask
    <3>5. FlightSound'
      BY <2>1, <2>4, <3>2, <3>4 DEF FlightSound, OpsOf
    <3>6. PaneSound'
      BY <2>1, <2>4, <3>2, <3>3 DEF PaneSound
    <3> QED BY <2>1, <2>2, <2>3, <3>5, <3>6
  <2>5. CASE p \in {"preview", "findings"}
    <3>1. PICK op, arg : op \in OpsOf(p) /\ flight' = <<Ask(op, arg)>> /\ op # "save" /\ (p = "findings" => op = "rows" /\ arg = None)
      BY <2>1, <2>5 DEF FirstAsks, OpsOf
    <3>2. /\ IsSeq(flight') /\ DOMAIN flight' = {1} /\ flight'[1] = Ask(op, arg) /\ Newest(flight', op, arg)
      BY <3>1, FewAsks
    <3>3. flight'[1].op = op
      BY <3>2 DEF Ask
    <3>4. FlightSound'
      BY <2>1, <3>1, <3>2, <3>3 DEF FlightSound
    <3>5. p = "findings" => DOMAIN screen' = {"filter", "rows", "active"} /\ screen'.filter = None
      BY <2>1 DEF Opened
    <3>6. PaneSound'
      BY <2>1, <2>5, <3>1, <3>2, <3>5 DEF PaneSound
    <3> QED BY <2>1, <2>2, <2>3, <3>4, <3>6
  <2>6. CASE p \in {"repos", "finding", "models"}
    <3>1. flight' = <<>>
      BY <2>1, <2>6 DEF FirstAsks
    <3>2. FlightSound' /\ PaneSound'
      BY <2>1, <2>6, <3>1, FewAsks DEF FlightSound, PaneSound
    <3> QED BY <2>1, <2>2, <2>3, <3>2
  <2> QED BY <1>2, <2>4, <2>5, <2>6 DEF Pages
<1> QED BY <1>1, <1>2

\* The overview goes on when the request it waits for has ended.
LEMMA HomeStep ==
    ASSUME ConsoleInv, page # "login", UNCHANGED page, NEW s, SessionShaped(s), SignedIn(s), session' = s,
           s.inflight = session.inflight \/ (~s.inflight /\ (s.loaded \/ s.error)), HomeGoesOn(s)
    PROVE  FlightSound' /\ HomeSound' /\ PaneSound'
<1>1. CASE page = "home" /\ screen.waiting /\ ~s.inflight
  <2>1. /\ screen' = [screen EXCEPT !.waiting = FALSE]
        /\ flight' = IF HomeMay(s) THEN Append(flight, Ask("overview", None)) ELSE flight
    BY <1>1 DEF HomeGoesOn
  <2>2. s.loaded \/ s.error
    BY <1>1 DEF ConsoleInv, HomeSound
  <2>3. HomeMay(s)
    BY <2>2 DEF SignedIn, HomeMay
  <2>4. IsSeq(flight) /\ \A i \in DOMAIN flight : flight[i].op = "overview"
    BY <1>1 DEF ConsoleInv, FlightSound, OpsOf
  <2> DEFINE g == <<Ask("overview", None)>>
  <2>5. PICK f : f = flight
    OBVIOUS
  <2>6. flight' = f \o g
    <3>1. PICK S : f \in Seq(S)
      BY <2>4, <2>5 DEF IsSeq
    <3> DEFINE x == Ask("overview", None)
    <3> HIDE DEF x
    <3>2. Append(f, x) = f \o <<x>>
      BY <3>1
    <3> QED BY <2>1, <2>3, <2>5, <3>2 DEF x
  <2>7. IsSeq(g) /\ g # <<>> /\ \A i \in DOMAIN g : g[i].op = "overview"
    <3>1. IsSeq(g) /\ DOMAIN g = {1} /\ g[1] = Ask("overview", None) /\ g # <<>>
      BY FewAsks
    <3> QED BY <3>1 DEF Ask
  <2> HIDE DEF g
  <2>8. IsSeq(f) /\ (\A i \in DOMAIN f : Fit(f[i])) /\ \A i \in DOMAIN g : Fit(g[i])
    BY <1>1, <2>4, <2>5, <2>7 DEF Fit, OpsOf
  <2>9. FlightSound'
    BY <2>6, <2>7, <2>8, FlightJoined
  <2>10. flight' # <<>>
    BY <2>6, <2>7, <2>8, FlightJoined
  <2>11. HomeSound'
    BY <1>1, <2>1, <2>10 DEF ConsoleInv, HomeSound
  <2>12. PaneSound'
    BY <1>1 DEF PaneSound
  <2> QED BY <2>9, <2>11, <2>12
<1>2. CASE ~(page = "home" /\ screen.waiting /\ ~s.inflight)
  <2>1. UNCHANGED <<screen, flight>>
    BY <1>2 DEF HomeGoesOn
  <2>2. HomeSound'
    BY <1>2, <2>1 DEF ConsoleInv, HomeSound
  <2>3. FlightSound' /\ PaneSound'
    BY <2>1 DEF ConsoleInv, FlightSound, PaneSound, Newest, Unasked, IsSeq
  <2> QED BY <2>2, <2>3
<1> QED BY <1>1, <1>2

\* The guard decides for somebody known, or after the request for it failed.
LEMMA DecideStep ==
    ASSUME ConsoleInv, page # "login", NEW p \in Pages, NEW q, NEW s, SessionShaped(s), SignedIn(s),
           s.inflight = session.inflight \/ (~s.inflight /\ (s.loaded \/ s.error)),
           p \in Guarded => s.loaded \/ s.error, decide(p, q, s)
    PROVE  ConsoleInv'
<1> DEFINE to == IF p \in Guarded /\ ~can(s, p) THEN "home" ELSE p
<1>1. to \in Pages
  BY DEF Pages
<1>2. decided' = [page |-> p, loaded |-> s.loaded, failed |-> s.error] /\ nav' = NoNav
  BY DEF decide
<1>3. GuardSound'
  BY <1>2 DEF GuardSound
<1>4. CASE to = page
  <2>1. session' = s /\ HomeGoesOn(s) /\ page' = page
    BY <1>4 DEF decide
  <2>2. FlightSound' /\ HomeSound' /\ PaneSound'
    BY <2>1, HomeStep
  <2>3. SessionShaped(session)' /\ SignedIn(session)'
    BY <2>1 DEF SessionShaped, SignedIn
  <2> QED BY <1>3, <2>1, <2>2, <2>3 DEF ConsoleInv
<1>5. CASE to # page
  <2>1. mount(to, q, s)
    BY <1>5 DEF decide
  <2>2. /\ page' = to /\ SessionShaped(session)' /\ SignedIn(session)'
        /\ FlightSound' /\ HomeSound' /\ PaneSound'
    BY <1>1, <2>1, MountStep
  <2> QED BY <1>1, <1>3, <2>2 DEF ConsoleInv
<1> QED BY <1>4, <1>5

LEMMA ResumeStep ==
    ASSUME ConsoleInv, page # "login", NEW s, SessionShaped(s), SignedIn(s), ~s.inflight,
           s.loaded \/ s.error, Resume(s)
    PROVE  ConsoleInv'
<1>1. CASE nav # NoNav
  <2>1. nav[1] \in Guarded /\ nav[1] \in Pages
    BY <1>1 DEF ConsoleInv, GuardSound, Guarded
  <2>2. decide(nav[1], nav[2], s)
    BY <1>1 DEF Resume
  <2> DEFINE p == nav[1]
             q == nav[2]
  <2>3. p \in Pages /\ decide(p, q, s)
    BY <2>1, <2>2
  <2> HIDE DEF p, q
  <2> QED BY <2>3, DecideStep
<1>2. CASE nav = NoNav
  <2>1. session' = s /\ HomeGoesOn(s) /\ UNCHANGED <<page, nav, decided, mounts>>
    BY <1>2 DEF Resume
  <2>2. FlightSound' /\ HomeSound' /\ PaneSound'
    BY <2>1, HomeStep
  <2>3. SessionShaped(session)' /\ SignedIn(session)' /\ GuardSound'
    BY <2>1 DEF SessionShaped, SignedIn, GuardSound, ConsoleInv
  <2> QED BY <2>1, <2>2, <2>3 DEF ConsoleInv
<1> QED BY <1>1, <1>2

LEMMA NavigateStep ==
    ASSUME ConsoleInv, NEW p \in Pages, NEW q, navigate(p, q)
    PROVE  ConsoleInv'
<1>1. SessionShaped(session) /\ SignedIn(session) /\ page # "login"
  BY DEF ConsoleInv, navigate
<1>2. CASE p \in Guarded /\ ~session.loaded
  <2>1. nav' = <<p, q>> /\ session' = load(session) /\ UNCHANGED <<page, screen, flight, decided>>
    BY <1>2 DEF navigate, await
  <2>2. /\ SessionShaped(load(session)) /\ load(session).loaded = session.loaded
        /\ load(session).info = session.info /\ (session.inflight => load(session).inflight)
    BY <1>1, SessionLoads
  <2>3. SessionShaped(session)' /\ SignedIn(session)'
    BY <1>1, <2>1, <2>2 DEF SessionShaped, SignedIn
  <2>4. GuardSound'
    BY <1>2, <2>1 DEF GuardSound, ConsoleInv
  <2>5. HomeSound'
    BY <2>1, <2>2 DEF HomeSound, ConsoleInv
  <2>6. FlightSound' /\ PaneSound'
    BY <2>1 DEF ConsoleInv, FlightSound, PaneSound, Newest, Unasked, IsSeq
  <2> QED BY <2>1, <2>3, <2>4, <2>5, <2>6 DEF ConsoleInv
<1>3. CASE ~(p \in Guarded /\ ~session.loaded)
  <2>1. decide(p, q, session)
    BY <1>3 DEF navigate
  <2> QED BY <1>1, <1>3, <2>1, DecideStep
<1> QED BY <1>2, <1>3

\* The browser leaves: nothing is shown, asked or awaited any more.
LEMMA LeftStep ==
    ASSUME ConsoleInv, redirectToLogin, decided' = decided, SessionShaped(session)'
    PROVE  ConsoleInv'
<1>1. page' = "login" /\ nav' = NoNav /\ flight' = <<>>
  BY DEF redirectToLogin
<1>2. FlightSound' /\ HomeSound' /\ PaneSound'
  BY <1>1, FewAsks DEF FlightSound, HomeSound, PaneSound
<1>3. GuardSound'
  BY <1>1 DEF GuardSound, ConsoleInv
<1> QED BY <1>1, <1>2, <1>3 DEF ConsoleInv

LEMMA SessionStep ==
    ASSUME ConsoleInv, session_answered \/ session_failed \/ session_retry
    PROVE  ConsoleInv'
<1>1. SessionShaped(session) /\ page # "login" /\ SignedIn(session)
  BY DEF ConsoleInv, session_answered, session_failed, session_retry
<1>2. CASE session_answered
  <2>1. PICK who \in Identities :
          LET s == [session EXCEPT !.info = who, !.loaded = TRUE, !.inflight = FALSE, !.retries = 0] IN
          IF who.auth_enabled /\ ~who.authenticated
          THEN redirectToLogin /\ session' = s /\ UNCHANGED <<decided, mounts>>
          ELSE Resume(s)
    BY <1>2 DEF session_answered
  <2> DEFINE s == [session EXCEPT !.info = who, !.loaded = TRUE, !.inflight = FALSE, !.retries = 0]
  <2>2. SessionShaped(s) /\ s.info = who /\ s.loaded /\ ~s.inflight
    BY <1>1 DEF SessionShaped
  <2>3. CASE who.auth_enabled /\ ~who.authenticated
    <3>1. redirectToLogin /\ session' = s /\ decided' = decided
      BY <2>1, <2>3
    <3> HIDE DEF s
    <3>2. SessionShaped(session)'
      BY <2>2, <3>1 DEF SessionShaped
    <3> QED BY <3>1, <3>2, LeftStep
  <2>4. CASE ~(who.auth_enabled /\ ~who.authenticated)
    <3>1. Resume(s)
      BY <2>1, <2>4
    <3> HIDE DEF s
    <3>2. SignedIn(s)
      BY <2>2, <2>4 DEF SignedIn
    <3> QED BY <1>1, <2>2, <3>1, <3>2, ResumeStep
  <2> QED BY <2>3, <2>4
<1>3. CASE session_failed
  <2> DEFINE again == ~session.loaded /\ session.retries < MAX_RETRIES
             s == [session EXCEPT !.inflight = FALSE, !.error = TRUE,
                                  !.retries = IF again THEN @ + 1 ELSE @,
                                  !.timers = IF again THEN @ + 1 ELSE @]
  <2>1. Resume(s)
    BY <1>3 DEF session_failed
  <2>2. /\ SessionShaped(s) /\ s.info = session.info /\ s.loaded = session.loaded
        /\ ~s.inflight /\ s.error
    BY <1>1 DEF SessionShaped
  <2> HIDE DEF s
  <2>3. SignedIn(s)
    BY <1>1, <2>2 DEF SignedIn
  <2> QED BY <1>1, <2>1, <2>2, <2>3, ResumeStep
<1>4. CASE session_retry
  <2> DEFINE r == [session EXCEPT !.timers = @ - 1]
  <2>1. session' = load(r) /\ UNCHANGED <<nav, page, screen, flight, decided>>
    BY <1>4 DEF session_retry
  <2>2. /\ SessionShaped(r) /\ r.loaded = session.loaded /\ r.info = session.info
        /\ r.inflight = session.inflight
    BY <1>1 DEF SessionShaped
  <2> HIDE DEF r
  <2>3. /\ SessionShaped(load(r)) /\ load(r).loaded = r.loaded /\ load(r).info = r.info
        /\ (r.inflight => load(r).inflight)
    BY <2>2, SessionLoads
  <2>4. SessionShaped(session)' /\ SignedIn(session)'
    BY <1>1, <2>1, <2>2, <2>3 DEF SessionShaped, SignedIn
  <2>5. HomeSound'
    BY <2>1, <2>2, <2>3 DEF HomeSound, ConsoleInv
  <2>6. FlightSound' /\ PaneSound' /\ GuardSound'
    BY <2>1 DEF ConsoleInv, FlightSound, PaneSound, GuardSound, Newest, Unasked, IsSeq
  <2> QED BY <2>1, <2>4, <2>5, <2>6 DEF ConsoleInv
<1> QED BY <1>2, <1>3, <1>4

-----------------------------------------------------------------------------
(* Using a page.                                                           *)

\* A step of the page shown touches neither the session nor the guard.
LEMMA OnPage ==
    ASSUME ConsoleInv, UNCHANGED <<session, nav, page, decided>>, FlightSound', HomeSound', PaneSound'
    PROVE  ConsoleInv'
<1>1. SessionShaped(session)' /\ (page' # "login" => SignedIn(session)') /\ GuardSound'
  BY DEF ConsoleInv, SessionShaped, SignedIn, GuardSound
<1> QED BY <1>1 DEF ConsoleInv

\* What every page's Show has in common.
LEMMA Shows ==
    ASSUME ConsoleInv, NEW p, NEW v, NEW g, Show(p, v, g), IsSeq(g), \A i \in DOMAIN g : Fit(g[i])
    PROVE  /\ page = p /\ screen' = v /\ flight' = flight \o g /\ IsSeq(flight)
           /\ UNCHANGED <<session, nav, page, decided>>
           /\ FlightSound' /\ (g # <<>> => flight' # <<>>)
<1>1. /\ page = p /\ screen' = v /\ flight' = flight \o g /\ page' = page
      /\ UNCHANGED <<session, nav, page, decided>>
  BY DEF Show
<1>4. PICK f : f = flight
  OBVIOUS
<1>2. IsSeq(f) /\ \A i \in DOMAIN f : Fit(f[i])
  BY <1>4 DEF ConsoleInv, FlightSound, Fit
<1>5. page' = page /\ flight' = f \o g
  BY <1>1, <1>4
<1>6. IsSeq(g) /\ \A i \in DOMAIN g : Fit(g[i])
  OBVIOUS
<1>3. FlightSound'
  BY <1>2, <1>5, <1>6, FlightJoined
<1>7. g # <<>> => flight' # <<>>
  BY <1>2, <1>5, <1>6, FlightJoined
<1> QED BY <1>1, <1>2, <1>3, <1>4, <1>7

LEMMA HomeTimerStep ==
    ASSUME ConsoleInv, home_timer
    PROVE  ConsoleInv'
<1>1. PICK v : /\ v \in {[screen EXCEPT !.warm = FALSE], [screen EXCEPT !.boot = FALSE]}
               /\ Show("home", v, <<Ask("overview", None)>>)
  BY DEF home_timer
<1> DEFINE g == <<Ask("overview", None)>>
<1>2. page = "home"
  BY DEF home_timer
<1>3. IsSeq(g) /\ g # <<>> /\ \A i \in DOMAIN g : Fit(g[i])
  <2>1. IsSeq(g) /\ DOMAIN g = {1} /\ g[1] = Ask("overview", None) /\ g # <<>>
    BY FewAsks
  <2> HIDE DEF g
  <2>2. g[1].op = "overview"
    BY <2>1 DEF Ask
  <2> QED BY <1>2, <2>1, <2>2 DEF Fit, OpsOf
<1>4. Show("home", v, g)
  BY <1>1
<1> HIDE DEF g
<1>5. /\ screen' = v /\ UNCHANGED <<session, nav, page, decided>> /\ FlightSound' /\ flight' # <<>>
  BY <1>3, <1>4, Shows
<1>6. HomeSound'
  BY <1>1, <1>2, <1>5 DEF ConsoleInv, HomeSound
<1>7. PaneSound'
  BY <1>2, <1>5 DEF PaneSound
<1> QED BY <1>5, <1>6, <1>7, OnPage

\* The pages that keep neither a pane nor timers of their own.
LEMMA PlainShow ==
    ASSUME ConsoleInv, NEW p \in {"repos", "preview", "finding", "models"}, NEW v, NEW g, Show(p, v, g),
           \/ g = <<>>
           \/ \E op, arg : op \in OpsOf(p) /\ g = <<Ask(op, arg)>> /\ (op = "save" => RouteAccepted(arg))
    PROVE  ConsoleInv'
<1>1. page = p
  BY DEF Show
<1>2. IsSeq(g) /\ \A i \in DOMAIN g : Fit(g[i])
  <2>1. CASE g = <<>>
    BY <2>1, FewAsks
  <2>2. ASSUME NEW op \in OpsOf(p), NEW arg, g = <<Ask(op, arg)>>, op = "save" => RouteAccepted(arg)
        PROVE  IsSeq(g) /\ \A i \in DOMAIN g : Fit(g[i])
    <3>1. IsSeq(g) /\ DOMAIN g = {1} /\ g[1] = Ask(op, arg)
      BY <2>2, FewAsks
    <3>2. g[1].op = op /\ g[1].arg = arg
      BY <3>1 DEF Ask
    <3>3. Fit(g[1])
      BY <1>1, <2>2, <3>2 DEF Fit
    <3> QED BY <3>1, <3>3
  <2> QED BY <2>1, <2>2
<1>3. UNCHANGED <<session, nav, page, decided>> /\ FlightSound'
  BY <1>2, Shows
<1>4. HomeSound' /\ PaneSound'
  BY <1>1, <1>3 DEF HomeSound, PaneSound
<1> QED BY <1>3, <1>4, OnPage

\* The form's check is the API's, so what it sends is taken.
LEMMA FormTaken ==
    ASSUME NEW d, validate(d)
    PROVE  RouteAccepted(buildPayload(d))
<1> DEFINE b == buildPayload(d)
           x == [format |-> d.format, efforts |-> d.efforts]
<1>1. /\ b.provider = d.provider /\ b.context_window = d.context_window /\ b.max_tokens = d.max_tokens
      /\ b.reasoning = IF d.format # "" \/ d.efforts # {} THEN <<x>> ELSE <<>>
  BY DEF buildPayload
<1>2. x.format = d.format /\ x.efforts = d.efforts
  OBVIOUS
<1> HIDE DEF x, b
<1>3. CASE d.format # "" \/ d.efforts # {}
  <2>1. DOMAIN b.reasoning = {1} /\ b.reasoning[1] = x
    <3>1. b.reasoning = <<x>>
      BY <1>1, <1>3
    <3>2. DOMAIN <<x>> = {1} /\ <<x>>[1] = x
      OBVIOUS
    <3> QED BY <3>1, <3>2
  <2>2. RouteAccepted(b)
    BY <1>1, <1>2, <1>3, <2>1 DEF RouteAccepted, validate
  <2> QED BY <2>2 DEF b
<1>4. CASE ~(d.format # "" \/ d.efforts # {})
  <2>1. DOMAIN b.reasoning = {}
    <3>1. b.reasoning = <<>>
      BY <1>1, <1>4
    <3> QED BY <3>1, FewAsks
  <2>2. RouteAccepted(b)
    BY <1>1, <2>1 DEF RouteAccepted, validate
  <2> QED BY <2>2 DEF b
<1> QED BY <1>3, <1>4

LEMMA PlainStep ==
    ASSUME ConsoleInv,
           \/ \E s \in RepoSlugs : sync(s) \/ loadRunner(s)
           \/ refresh \/ mintTicket \/ createFixTask \/ save \/ CancelEdit
           \/ \E what \in {"retry", "cancel"} : ActOnTask(what)
           \/ \E d \in Drafts : startEdit(d)
           \/ \E p \in {"openai", "anthropic"} : onProviderChange(p)
    PROVE  ConsoleInv'
<1>1. ASSUME NEW s \in RepoSlugs, sync(s) PROVE ConsoleInv'
  <2>1. Show("repos", screen, <<Ask("sync", s)>>) /\ "sync" \in OpsOf("repos")
    BY <1>1 DEF sync, OpsOf
  <2> QED BY <2>1, PlainShow
<1>2. ASSUME NEW s \in RepoSlugs, loadRunner(s) PROVE ConsoleInv'
  <2>1. /\ Show("preview", [screen EXCEPT !.selected = s, !.ticket = None, !.runner = None], <<Ask("runner", s)>>)
        /\ "runner" \in OpsOf("preview")
    BY <1>2 DEF loadRunner, OpsOf
  <2> QED BY <2>1, PlainShow
<1>3. CASE refresh
  <2>1. /\ Show("repos", [screen EXCEPT !.inFlight = TRUE], <<Ask("job", screen.timer)>>)
        /\ "job" \in OpsOf("repos")
    BY <1>3 DEF refresh, OpsOf
  <2> QED BY <2>1, PlainShow
<1>4. CASE mintTicket
  <2>1. /\ Show("preview", [screen EXCEPT !.minting = TRUE], <<Ask("ticket", screen.selected)>>)
        /\ "ticket" \in OpsOf("preview")
    BY <1>4 DEF mintTicket, OpsOf
  <2> QED BY <2>1, PlainShow
<1>5. CASE createFixTask
  <2>1. /\ Show("finding", [screen EXCEPT !.fixing = TRUE], <<Ask("fix", None)>>)
        /\ "fix" \in OpsOf("finding")
    BY <1>5 DEF createFixTask, OpsOf
  <2> QED BY <2>1, PlainShow
<1>6. CASE save
  <2> DEFINE d == screen.draft[1]
  <2>1. /\ Show("models", [screen EXCEPT !.saving = TRUE], <<Ask("save", buildPayload(d))>>)
        /\ "save" \in OpsOf("models") /\ validate(d)
    BY <1>6 DEF save, OpsOf
  <2> HIDE DEF d
  <2>2. RouteAccepted(buildPayload(d))
    BY <2>1, FormTaken
  <2> QED BY <2>1, <2>2, PlainShow
<1>7. CASE CancelEdit
  <2>1. Show("models", cancelEdit(screen), <<>>)
    BY <1>7 DEF CancelEdit
  <2> QED BY <2>1, PlainShow
<1>8. ASSUME NEW what \in {"retry", "cancel"}, ActOnTask(what) PROVE ConsoleInv'
  <2>1. Show("finding", screen, <<Ask(what, screen.task[1])>>) /\ what \in OpsOf("finding") /\ what # "save"
    BY <1>8 DEF ActOnTask, OpsOf
  <2> QED BY <2>1, PlainShow
<1>9. ASSUME NEW d \in Drafts, startEdit(d) PROVE ConsoleInv'
  <2>1. Show("models", [screen EXCEPT !.mode = "edit", !.draft = <<d>>], <<>>)
    BY <1>9 DEF startEdit
  <2> QED BY <2>1, PlainShow
<1>10. ASSUME NEW p \in {"openai", "anthropic"}, onProviderChange(p) PROVE ConsoleInv'
  <2>1. PICK v : Show("models", v, <<>>)
    BY <1>10 DEF onProviderChange
  <2> QED BY <2>1, PlainShow
<1> QED BY <1>1, <1>2, <1>3, <1>4, <1>5, <1>6, <1>7, <1>8, <1>9, <1>10

\* A repository's page, asked for another repository or another filter.
LEMMA RepoShow ==
    ASSUME ConsoleInv, (\E s \in RepoSlugs : OpenSlug(s)) \/ (\E f \in Filters : applyIssueFilters(f))
    PROVE  ConsoleInv'
<1>1. page = "repo"
  BY DEF OpenSlug, applyIssueFilters
<1>2. PICK f : f = flight
  OBVIOUS
<1>3. /\ DOMAIN screen = {"slug", "filter", "repo", "issues"} /\ IsSeq(f)
      /\ \/ Newest(f, "repo", screen.slug)
         \/ Unasked(f, "repo") /\ screen.repo \in {None, screen.slug}
  BY <1>1, <1>2 DEF ConsoleInv, PaneSound, FlightSound
<1>4. ASSUME NEW s \in RepoSlugs, OpenSlug(s) PROVE ConsoleInv'
  <2> DEFINE v == [screen EXCEPT !.slug = s]
  <2>1. PICK l : l = screen.filter
    OBVIOUS
  <2> DEFINE g == <<Ask("repo", s), Ask("issues", <<s, l>>)>>
  <2>2. Show("repo", v, g)
    BY <1>4, <2>1 DEF OpenSlug
  <2>3. /\ IsSeq(g) /\ DOMAIN g = {1, 2} /\ g[1] = Ask("repo", s) /\ g[2] = Ask("issues", <<s, l>>)
        /\ Newest(g, "repo", s) /\ Newest(g, "issues", <<s, l>>)
    BY FewAsks
  <2>4. v.slug = s /\ v.filter = l /\ DOMAIN v = {"slug", "filter", "repo", "issues"}
    BY <1>3, <2>1
  <2> HIDE DEF g, v
  <2>5. g[1].op = "repo" /\ g[2].op = "issues"
    BY <2>3 DEF Ask
  <2>6. \A i \in DOMAIN g : Fit(g[i])
    BY <1>1, <2>3, <2>5 DEF Fit, OpsOf
  <2>7. /\ screen' = v /\ flight' = f \o g /\ UNCHANGED <<session, nav, page, decided>> /\ FlightSound'
    BY <1>2, <2>2, <2>3, <2>6, Shows
  <2>8. Newest(f \o g, "repo", s) /\ Newest(f \o g, "issues", <<s, l>>)
    BY <1>3, <2>3, AskedAnew
  <2>9. HomeSound' /\ PaneSound'
    BY <1>1, <2>4, <2>7, <2>8 DEF HomeSound, PaneSound
  <2> QED BY <2>7, <2>9, OnPage
<1>5. ASSUME NEW l \in Filters, applyIssueFilters(l) PROVE ConsoleInv'
  <2> DEFINE v == [screen EXCEPT !.filter = l]
  <2>1. PICK s : s = screen.slug
    OBVIOUS
  <2> DEFINE g == <<Ask("issues", <<s, l>>)>>
  <2>2. Show("repo", v, g)
    BY <1>5, <2>1 DEF applyIssueFilters
  <2>3. /\ IsSeq(g) /\ DOMAIN g = {1} /\ g[1] = Ask("issues", <<s, l>>)
        /\ Newest(g, "issues", <<s, l>>)
    BY FewAsks
  <2>11. Unasked(g, "repo")
    <3>1. "repo" # "issues"
      OBVIOUS
    <3> QED BY <3>1, FewAsks
  <2>4. /\ v.slug = s /\ v.filter = l /\ v.repo = screen.repo
        /\ DOMAIN v = {"slug", "filter", "repo", "issues"}
    BY <1>3, <2>1
  <2> HIDE DEF g, v
  <2>5. g[1].op = "issues"
    BY <2>3 DEF Ask
  <2>6. \A i \in DOMAIN g : Fit(g[i])
    BY <1>1, <2>3, <2>5 DEF Fit, OpsOf
  <2>7. /\ screen' = v /\ flight' = f \o g /\ UNCHANGED <<session, nav, page, decided>> /\ FlightSound'
    BY <1>2, <2>2, <2>3, <2>6, Shows
  <2>8. Newest(f \o g, "issues", <<s, l>>)
    BY <1>3, <2>3, AskedAnew
  <2>9. /\ Newest(f, "repo", s) => Newest(f \o g, "repo", s)
        /\ Unasked(f, "repo") => Unasked(f \o g, "repo")
    BY <1>3, <2>3, <2>11, AskedElse
  <2>10. HomeSound' /\ PaneSound'
    BY <1>1, <1>3, <2>1, <2>4, <2>7, <2>8, <2>9 DEF HomeSound, PaneSound
  <2> QED BY <2>7, <2>10, OnPage
<1> QED BY <1>4, <1>5

\* The findings' page, filtered anew or deciding about a row.
LEMMA FindingsShow ==
    ASSUME ConsoleInv, submitDecision \/ \E f \in Filters : SetFilter(f) \/ openDecision(f)
    PROVE  ConsoleInv'
<1>1. page = "findings"
  BY DEF submitDecision, SetFilter, openDecision
<1>2. PICK f : f = flight
  OBVIOUS
<1>3. /\ DOMAIN screen = {"filter", "rows", "active"} /\ IsSeq(f)
      /\ \/ Newest(f, "rows", screen.filter)
         \/ Unasked(f, "rows") /\ screen.rows \in {<<>>, <<screen.filter>>}
  BY <1>1, <1>2 DEF ConsoleInv, PaneSound, FlightSound
<1>4. ASSUME NEW l \in Filters, SetFilter(l) PROVE ConsoleInv'
  <2> DEFINE v == [screen EXCEPT !.filter = l]
             g == <<Ask("rows", l)>>
  <2>2. Show("findings", v, g)
    BY <1>4 DEF SetFilter
  <2>3. IsSeq(g) /\ DOMAIN g = {1} /\ g[1] = Ask("rows", l) /\ Newest(g, "rows", l)
    BY FewAsks
  <2>4. v.filter = l /\ DOMAIN v = {"filter", "rows", "active"}
    BY <1>3
  <2> HIDE DEF g, v
  <2>5. g[1].op = "rows"
    BY <2>3 DEF Ask
  <2>6. \A i \in DOMAIN g : Fit(g[i])
    BY <1>1, <2>3, <2>5 DEF Fit, OpsOf
  <2>7. /\ screen' = v /\ flight' = f \o g /\ UNCHANGED <<session, nav, page, decided>> /\ FlightSound'
    BY <1>2, <2>2, <2>3, <2>6, Shows
  <2>8. Newest(f \o g, "rows", l)
    BY <1>3, <2>3, AskedAnew
  <2>9. HomeSound' /\ PaneSound'
    BY <1>1, <2>4, <2>7, <2>8 DEF HomeSound, PaneSound
  <2> QED BY <2>7, <2>9, OnPage
<1>5. ASSUME NEW v, NEW g, Show("findings", v, g), IsSeq(g), \A i \in DOMAIN g : Fit(g[i]), Unasked(g, "rows"),
             v.filter = screen.filter, v.rows = screen.rows, DOMAIN v = DOMAIN screen
      PROVE  ConsoleInv'
  <2>1. PICK l : l = screen.filter
    OBVIOUS
  <2>2. /\ screen' = v /\ flight' = f \o g /\ UNCHANGED <<session, nav, page, decided>> /\ FlightSound'
    BY <1>2, <1>5, Shows
  <2>3. /\ Newest(f, "rows", l) => Newest(f \o g, "rows", l)
        /\ Unasked(f, "rows") => Unasked(f \o g, "rows")
    BY <1>3, <1>5, AskedElse
  <2>4. HomeSound' /\ PaneSound'
    BY <1>1, <1>3, <1>5, <2>1, <2>2, <2>3 DEF HomeSound, PaneSound
  <2> QED BY <2>2, <2>4, OnPage
<1>6. ASSUME NEW l \in Filters, openDecision(l) PROVE ConsoleInv'
  <2> DEFINE v == [screen EXCEPT !.active = l]
  <2>1. Show("findings", v, <<>>)
    BY <1>6 DEF openDecision
  <2>2. v.filter = screen.filter /\ v.rows = screen.rows /\ DOMAIN v = DOMAIN screen
    OBVIOUS
  <2> HIDE DEF v
  <2>3. IsSeq(<<>>) /\ Unasked(<<>>, "rows") /\ \A i \in DOMAIN <<>> : Fit(<<>>[i])
    BY FewAsks
  <2> QED BY <1>5, <2>1, <2>2, <2>3
<1>7. CASE submitDecision
  <2>1. PICK l : l = screen.active
    OBVIOUS
  <2> DEFINE g == <<Ask("decide", l)>>
  <2>2. Show("findings", screen, g)
    BY <1>7, <2>1 DEF submitDecision
  <2>3. IsSeq(g) /\ DOMAIN g = {1} /\ g[1] = Ask("decide", l)
    BY FewAsks
  <2>8. Unasked(g, "rows")
    <3>1. "rows" # "decide"
      OBVIOUS
    <3> QED BY <3>1, FewAsks
  <2> HIDE DEF g
  <2>4. g[1].op = "decide"
    BY <2>3 DEF Ask
  <2>5. \A i \in DOMAIN g : Fit(g[i])
    BY <1>1, <2>3, <2>4 DEF Fit, OpsOf
  <2>6. PICK v : v = screen
    OBVIOUS
  <2>7. Show("findings", v, g) /\ v.filter = screen.filter /\ v.rows = screen.rows /\ DOMAIN v = DOMAIN screen
    BY <2>2, <2>6
  <2> QED BY <1>5, <2>3, <2>5, <2>7, <2>8
<1> QED BY <1>4, <1>6, <1>7

-----------------------------------------------------------------------------
(* Answers, each to the first request under way.                           *)

Ops == {"overview", "sync", "job", "repo", "issues", "runner", "ticket", "rows", "decide", "fix", "retry",
        "cancel", "save"}

\* Only a decision asks on, for the rows under the filter by then.
LEMMA Quietly ==
    ASSUME NEW v, NEW r, r.op \in Ops \ {"decide"}, NEW a \in Answers(v, r)
    PROVE  a[2] = <<>>
<1>1. CASE r.op = "overview"
  <2>1. Answers(v, r) = {<<HomeLoaded(v, ready), <<>>>> : ready \in BOOLEAN}
    BY <1>1 DEF Answers
  <2> QED BY <2>1
<1>2. CASE r.op \in {"sync", "repo", "issues", "runner", "ticket", "rows", "retry", "cancel", "save"}
  <2>1. \E w : Answers(v, r) = {<<w, <<>>>>}
    BY <1>2 DEF Answers
  <2> QED BY <2>1
<1>3. CASE r.op = "job"
  <2>1. Answers(v, r) = {<<refreshed(v, r.arg, status), <<>>>> : status \in {"running", "done"}}
    BY <1>3 DEF Answers
  <2> QED BY <2>1
<1>4. CASE r.op = "fix"
  <2> DEFINE w(x) == [v EXCEPT !.fixing = FALSE, !.task = IF x.queued THEN <<x.task_id, "queued">> ELSE <<>>]
  <2>1. Answers(v, r) = {<<w(x), <<>>>> : x \in fix_finding}
    BY <1>4 DEF Answers
  <2> HIDE DEF w
  <2> QED BY <2>1
<1> QED BY <1>1, <1>2, <1>3, <1>4 DEF Ops

LEMMA Decided ==
    ASSUME NEW v, NEW r, r.op = "decide", NEW a \in Answers(v, r)
    PROVE  a[1] = [v EXCEPT !.active = None] /\ a[2] = <<Ask("rows", v.filter)>>
BY DEF Answers

LEMMA Figures ==
    ASSUME NEW v, NEW r, r.op = "overview", NEW a \in Answers(v, r)
    PROVE  \E ready \in BOOLEAN : a[1] = HomeLoaded(v, ready)
<1>1. Answers(v, r) = {<<HomeLoaded(v, ready), <<>>>> : ready \in BOOLEAN}
  BY DEF Answers
<1> QED BY <1>1

LEMMA Panes ==
    ASSUME NEW v, NEW r
    PROVE  /\ r.op = "repo" => Answers(v, r) = {<<[v EXCEPT !.repo = r.arg], <<>>>>}
           /\ r.op = "issues" => Answers(v, r) = {<<[v EXCEPT !.issues = r.arg], <<>>>>}
           /\ r.op = "rows" => Answers(v, r) = {<<[v EXCEPT !.rows = <<r.arg>>], <<>>>>}
BY DEF Answers

LEMMA Refusals ==
    ASSUME NEW v, NEW r
    PROVE  /\ r.op = "overview" => Failed(v, r) = HomeFailed(v)
           /\ r.op = "repo" => Failed(v, r) = [v EXCEPT !.repo = None]
           /\ r.op = "issues" => Failed(v, r) = [v EXCEPT !.issues = <<>>]
           /\ r.op = "rows" => Failed(v, r) = [v EXCEPT !.rows = <<>>]
           /\ r.op = "decide" => Failed(v, r) = v
BY DEF Failed

\* What an answer leaves of the requests under way, and what it adds.
LEMMA RequestTaken ==
    ASSUME ConsoleInv, 1 \in DOMAIN flight, NEW h, h = Lists!RemoveAt(flight, 1), page' = page,
           NEW g, IsSeq(g), \A i \in DOMAIN g : Fit(g[i]), flight' = h \o g
    PROVE  IsSeq(h) /\ FlightSound'
<1>1. PICK f : f = flight
  OBVIOUS
<1>2. IsSeq(f) /\ 1 \in DOMAIN f /\ \A i \in DOMAIN f : Fit(f[i])
  BY <1>1 DEF ConsoleInv, FlightSound, Fit
<1>3. h = Lists!RemoveAt(f, 1)
  BY <1>1
<1>4. IsSeq(h) /\ \A i \in DOMAIN h : h[i] = f[i + 1] /\ i + 1 \in DOMAIN f
  BY <1>2, <1>3, Shorter
<1>5. \A i \in DOMAIN h : Fit(h[i])
  BY <1>2, <1>4
<1>6. FlightSound'
  BY <1>4, <1>5, FlightJoined
<1> QED BY <1>4, <1>6

\* A request that was refused leaves the others.
LEMMA RemovedIsJoined ==
    ASSUME NEW f, IsSeq(f), 1 \in DOMAIN f
    PROVE  Lists!RemoveAt(f, 1) = Lists!RemoveAt(f, 1) \o <<>>
<1> DEFINE h == Lists!RemoveAt(f, 1)
<1>1. IsSeq(h)
  BY Shorter
<1> HIDE DEF h
<1>2. PICK S : h \in Seq(S)
  BY <1>1 DEF IsSeq
<1>3. h = h \o <<>>
  BY <1>2
<1> QED BY <1>3 DEF h

\* The overview, told the figures or that they are not to be had.
LEMMA HomeTold ==
    ASSUME ConsoleInv, page = "home", NEW v, screen' = v,
           v = HomeFailed(screen) \/ (\E ready \in BOOLEAN : v = HomeLoaded(screen, ready)),
           UNCHANGED <<session, page>>
    PROVE  HomeSound'
<1>1. /\ DOMAIN screen = {"stats", "warm", "boot", "warmPolls", "bootRetries", "waiting"}
      /\ screen.waiting \in BOOLEAN /\ screen.boot \in BOOLEAN /\ (screen.waiting => session.inflight)
  BY DEF ConsoleInv, HomeSound
<1>2. CASE v = HomeFailed(screen)
  <2>1. /\ DOMAIN v = DOMAIN screen /\ v.waiting = screen.waiting /\ v.boot \in BOOLEAN
        /\ v.stats = screen.stats
        /\ v.stats = None => v.boot \/ v.bootRetries >= BOOT_MAX_RETRIES
    BY <1>1, <1>2 DEF HomeFailed, scheduleBootRetry
  <2> QED BY <1>1, <2>1 DEF HomeSound
<1>3. ASSUME NEW ready \in BOOLEAN, v = HomeLoaded(screen, ready) PROVE HomeSound'
  <2> DEFINE w == [screen EXCEPT !.stats = IF ready THEN "ready" ELSE "warming", !.bootRetries = 0]
  <2>1. /\ DOMAIN w = DOMAIN screen /\ w.waiting = screen.waiting /\ w.boot = screen.boot
        /\ w.stats \in {"ready", "warming"}
    BY <1>1
  <2>2. v = w \/ v = [w EXCEPT !.warm = TRUE, !.warmPolls = @ + 1]
    BY <1>3 DEF HomeLoaded, scheduleWarmPoll
  <2> HIDE DEF w
  <2>3. /\ DOMAIN v = DOMAIN w /\ v.waiting = w.waiting /\ v.boot = w.boot /\ v.stats = w.stats
    BY <1>1, <2>1, <2>2
  <2>4. v.stats # None
    BY <2>1, <2>3 DEF None
  <2> QED BY <1>1, <2>1, <2>3, <2>4 DEF HomeSound
<1> QED BY <1>2, <1>3

\* A repository's page, told what it asked first.
LEMMA RepoTold ==
    ASSUME ConsoleInv, page = "repo", NEW f, f = flight, 1 \in DOMAIN f, flight' = Lists!RemoveAt(f, 1) \o <<>>,
           \/ f[1].op = "repo" /\ \E x \in {None, f[1].arg} : screen' = [screen EXCEPT !.repo = x]
           \/ f[1].op = "issues" /\ \E x \in {<<>>, f[1].arg} : screen' = [screen EXCEPT !.issues = x],
           page' = page
    PROVE  PaneSound'
<1>1. PICK s, l, z, x : s = screen.slug /\ l = screen.filter /\ z = screen.repo /\ x = screen.issues
  OBVIOUS
<1>2. /\ DOMAIN screen = {"slug", "filter", "repo", "issues"} /\ IsSeq(f)
      /\ Newest(f, "repo", s) \/ (Unasked(f, "repo") /\ z \in {None, s})
      /\ Newest(f, "issues", <<s, l>>) \/ (Unasked(f, "issues") /\ x \in {<<>>, <<s, l>>})
  BY <1>1 DEF ConsoleInv, PaneSound, FlightSound
<1> DEFINE h == Lists!RemoveAt(f, 1)
<1>3. IsSeq(h)
  BY <1>2, Shorter
<1>4. /\ Unasked(f, "repo") => f[1].op # "repo" /\ Unasked(h, "repo")
      /\ Newest(f, "repo", s) => Newest(h, "repo", s) \/ (f[1].op = "repo" /\ f[1].arg = s /\ Unasked(h, "repo"))
  BY <1>2, AnswerTaken
<1>5. /\ Unasked(f, "issues") => f[1].op # "issues" /\ Unasked(h, "issues")
      /\ Newest(f, "issues", <<s, l>>) =>
           \/ Newest(h, "issues", <<s, l>>)
           \/ f[1].op = "issues" /\ f[1].arg = <<s, l>> /\ Unasked(h, "issues")
  BY <1>2, AnswerTaken
<1> HIDE DEF h
<1>6. flight' = h
  <2>1. h = h \o <<>>
    BY <1>2, RemovedIsJoined DEF h
  <2> QED BY <2>1 DEF h
<1>7. DOMAIN screen' = DOMAIN screen /\ screen'.slug = s /\ screen'.filter = l
  BY <1>1, <1>2
<1>8. Newest(h, "repo", s) \/ (Unasked(h, "repo") /\ screen'.repo \in {None, s})
  BY <1>1, <1>2, <1>4
<1>9. Newest(h, "issues", <<s, l>>) \/ (Unasked(h, "issues") /\ screen'.issues \in {<<>>, <<s, l>>})
  BY <1>1, <1>2, <1>5
<1> QED BY <1>2, <1>6, <1>7, <1>8, <1>9 DEF PaneSound

\* The findings' page, told its rows.
LEMMA RowsTold ==
    ASSUME ConsoleInv, page = "findings", NEW f, f = flight, 1 \in DOMAIN f, flight' = Lists!RemoveAt(f, 1) \o <<>>,
           \/ f[1].op = "rows" /\ \E x \in {<<>>, <<f[1].arg>>} : screen' = [screen EXCEPT !.rows = x]
           \/ f[1].op = "decide" /\ screen' = screen,
           page' = page
    PROVE  PaneSound'
<1>1. PICK l, x : l = screen.filter /\ x = screen.rows
  OBVIOUS
<1>2. /\ DOMAIN screen = {"filter", "rows", "active"} /\ IsSeq(f)
      /\ Newest(f, "rows", l) \/ (Unasked(f, "rows") /\ x \in {<<>>, <<l>>})
  BY <1>1 DEF ConsoleInv, PaneSound, FlightSound
<1> DEFINE h == Lists!RemoveAt(f, 1)
<1>3. IsSeq(h)
  BY <1>2, Shorter
<1>4. /\ Unasked(f, "rows") => f[1].op # "rows" /\ Unasked(h, "rows")
      /\ Newest(f, "rows", l) => Newest(h, "rows", l) \/ (f[1].op = "rows" /\ f[1].arg = l /\ Unasked(h, "rows"))
  BY <1>2, AnswerTaken
<1> HIDE DEF h
<1>5. flight' = h
  <2>1. h = h \o <<>>
    BY <1>2, RemovedIsJoined DEF h
  <2> QED BY <2>1 DEF h
<1>6. DOMAIN screen' = DOMAIN screen /\ screen'.filter = l
  BY <1>1, <1>2
<1>7. Newest(h, "rows", l) \/ (Unasked(h, "rows") /\ screen'.rows \in {<<>>, <<l>>})
  BY <1>1, <1>2, <1>4
<1> QED BY <1>2, <1>5, <1>6, <1>7 DEF PaneSound

\* An answer or a refusal, in the order of the requests.
LEMMA AnswerStep ==
    ASSUME ConsoleInv, 1 \in DOMAIN flight, answered(1) \/ failed(1)
    PROVE  ConsoleInv'
<1>1. PICK f : f = flight
  OBVIOUS
<1>2. PICK v : v = screen
  OBVIOUS
<1>0. PICK r : r = f[1]
  OBVIOUS
<1> DEFINE h == Lists!RemoveAt(f, 1)
<1>3. IsSeq(f) /\ 1 \in DOMAIN f /\ Fit(r)
  BY <1>0, <1>1 DEF ConsoleInv, FlightSound, Fit
<1>4. page \in Pages /\ r.op \in OpsOf(page) /\ r.op \in Ops
  BY <1>3 DEF ConsoleInv, Fit, OpsOf, Ops
<1>5. UNCHANGED <<session, nav, page, decided>> /\ page' = page
  BY DEF answered, failed
<1>6. PICK w, g : /\ screen' = w /\ flight' = h \o g
                  /\ \/ \E a \in Answers(v, r) : w = a[1] /\ g = a[2]
                     \/ w = Failed(v, r) /\ g = <<>>
  <2>1. CASE answered(1)
    <3>1. PICK a \in Answers(v, r) : screen' = a[1] /\ flight' = h \o a[2]
      BY <1>0, <1>1, <1>2, <2>1 DEF answered
    <3> QED BY <3>1
  <2>2. CASE failed(1)
    <3>1. screen' = Failed(v, r) /\ flight' = h
      BY <1>0, <1>1, <1>2, <2>2 DEF failed
    <3>2. h = h \o <<>>
      BY <1>3, RemovedIsJoined
    <3> QED BY <3>1, <3>2
  <2> QED BY <2>1, <2>2
<1> HIDE DEF h
<1>7. h = Lists!RemoveAt(flight, 1)
  BY <1>1 DEF h
<1>8. r.op # "decide" => g = <<>>
  <2>1. r.op # "decide" => \A a \in Answers(v, r) : a[2] = <<>>
    BY <1>4, Quietly
  <2> QED BY <1>6, <2>1
<1>9. r.op = "decide" => g \in {<<>>, <<Ask("rows", v.filter)>>}
  <2>1. r.op = "decide" => \A a \in Answers(v, r) : a[2] = <<Ask("rows", v.filter)>>
    BY Decided
  <2> QED BY <1>6, <2>1
<1>10. IsSeq(g) /\ \A i \in DOMAIN g : Fit(g[i])
  <2>1. CASE g = <<>>
    BY <2>1, FewAsks
  <2>2. CASE r.op = "decide" /\ g = <<Ask("rows", v.filter)>>
    <3>1. page = "findings"
      BY <1>4, <2>2 DEF OpsOf, Pages
    <3>2. IsSeq(g) /\ DOMAIN g = {1} /\ g[1] = Ask("rows", v.filter)
      BY <2>2, FewAsks
    <3>3. g[1].op = "rows"
      BY <3>2 DEF Ask
    <3> QED BY <3>1, <3>2, <3>3 DEF Fit, OpsOf
  <2> QED BY <1>8, <1>9, <2>1, <2>2
<1>11. IsSeq(h) /\ FlightSound'
  <2>1. 1 \in DOMAIN flight /\ page' = page /\ flight' = h \o g
    BY <1>5, <1>6
  <2> QED BY <1>7, <1>10, <2>1, RequestTaken
<1>12. HomeSound'
  <2>1. CASE page = "home"
    <3>1. r.op = "overview"
      BY <1>4, <2>1 DEF OpsOf
    <3>2. (\E ready \in BOOLEAN : w = HomeLoaded(screen, ready)) \/ w = HomeFailed(screen)
      <4>1. ASSUME NEW a \in Answers(v, r), w = a[1] PROVE \E ready \in BOOLEAN : w = HomeLoaded(v, ready)
        BY <3>1, <4>1, Figures
      <4>2. Failed(v, r) = HomeFailed(v)
        BY <3>1, Refusals
      <4> QED BY <1>2, <1>6, <4>1, <4>2
    <3>3. screen' = w /\ UNCHANGED <<session, page>>
      BY <1>5, <1>6
    <3> QED BY <2>1, <3>2, <3>3, HomeTold
  <2>2. CASE page # "home"
    BY <1>5, <2>2 DEF HomeSound
  <2> QED BY <2>1, <2>2
<1>13. PaneSound'
  <2>1. CASE page = "repo"
    <3>1. r.op \in {"repo", "issues"} /\ g = <<>>
      BY <1>4, <1>8, <2>1 DEF OpsOf
    <3>2. CASE r.op = "repo"
      <4>1. Answers(v, r) = {<<[v EXCEPT !.repo = r.arg], <<>>>>}
        BY <3>2, Panes
      <4>2. Failed(v, r) = [v EXCEPT !.repo = None]
        BY <3>2, Refusals
      <4>3. \E x \in {None, r.arg} : screen' = [screen EXCEPT !.repo = x]
        BY <1>2, <1>6, <4>1, <4>2
      <4> QED BY <1>0, <1>1, <1>3, <1>5, <1>6, <2>1, <3>1, <3>2, <4>3, RepoTold DEF h
    <3>3. CASE r.op = "issues"
      <4>1. Answers(v, r) = {<<[v EXCEPT !.issues = r.arg], <<>>>>}
        BY <3>3, Panes
      <4>2. Failed(v, r) = [v EXCEPT !.issues = <<>>]
        BY <3>3, Refusals
      <4>3. \E x \in {<<>>, r.arg} : screen' = [screen EXCEPT !.issues = x]
        BY <1>2, <1>6, <4>1, <4>2
      <4> QED BY <1>0, <1>1, <1>3, <1>5, <1>6, <2>1, <3>1, <3>3, <4>3, RepoTold DEF h
    <3> QED BY <3>1, <3>2, <3>3
  <2>2. CASE page = "findings"
    <3>1. r.op \in {"rows", "decide"}
      BY <1>4, <2>2 DEF OpsOf
    <3>2. CASE r.op = "rows"
      <4>1. Answers(v, r) = {<<[v EXCEPT !.rows = <<r.arg>>], <<>>>>}
        BY <3>2, Panes
      <4>2. Failed(v, r) = [v EXCEPT !.rows = <<>>]
        BY <3>2, Refusals
      <4>3. \E x \in {<<>>, <<r.arg>>} : screen' = [screen EXCEPT !.rows = x]
        BY <1>2, <1>6, <4>1, <4>2
      <4>4. g = <<>>
        BY <1>8, <3>2
      <4> QED BY <1>0, <1>1, <1>3, <1>5, <1>6, <2>2, <3>2, <4>3, <4>4, RowsTold DEF h
    <3>3. CASE r.op = "decide" /\ w = Failed(v, r) /\ g = <<>>
      <4>1. screen' = screen
        BY <1>2, <1>6, <3>3, Refusals
      <4> QED BY <1>0, <1>1, <1>3, <1>5, <1>6, <2>2, <3>3, <4>1, RowsTold DEF h
    <3>4. CASE r.op = "decide" /\ \E a \in Answers(v, r) : w = a[1] /\ g = a[2]
      <4>1. w = [v EXCEPT !.active = None] /\ g = <<Ask("rows", v.filter)>>
        BY <3>4, Decided
      <4>2. IsSeq(g) /\ Newest(g, "rows", v.filter)
        BY <4>1, FewAsks
      <4>3. Newest(h \o g, "rows", v.filter)
        BY <1>11, <4>2, AskedAnew
      <4>4. DOMAIN w = {"filter", "rows", "active"} /\ w.filter = v.filter
        BY <1>2, <2>2, <4>1 DEF ConsoleInv, PaneSound
      <4>5. Newest(flight', "rows", screen'.filter)
        BY <1>6, <4>3, <4>4
      <4> QED BY <1>5, <1>6, <2>2, <4>4, <4>5 DEF PaneSound
    <3> QED BY <1>6, <3>1, <3>2, <3>3, <3>4
  <2>3. CASE page \notin {"repo", "findings"}
    BY <1>5, <2>3 DEF PaneSound
  <2> QED BY <2>1, <2>2, <2>3
<1> QED BY <1>5, <1>11, <1>12, <1>13, OnPage

-----------------------------------------------------------------------------
(* The theorem.                                                            *)

LEMMA ConsoleStarts == ConsoleInit => ConsoleInv
<1> SUFFICES ASSUME ConsoleInit PROVE ConsoleInv
  OBVIOUS
<1>1. SessionShaped(session) /\ SignedIn(session) /\ session.inflight
  BY DEF ConsoleInit, SessionShaped, SignedIn
<1>2. flight = <<>> /\ GuardSound
  BY DEF ConsoleInit, GuardSound, Guarded
<1>3. FlightSound
  BY <1>2, FewAsks DEF FlightSound
<1>4. CASE page = "home" /\ screen = [Opened("home", None) EXCEPT !.waiting = TRUE]
  <2> DEFINE v == Opened("home", None)
  <2>1. /\ DOMAIN v = {"stats", "warm", "boot", "warmPolls", "bootRetries", "waiting"}
        /\ v.boot = FALSE
    BY DEF Opened
  <2> HIDE DEF v
  <2>2. DOMAIN screen = DOMAIN v /\ screen.waiting = TRUE /\ screen.boot = FALSE
    BY <1>4, <2>1 DEF v
  <2>3. HomeSound /\ PaneSound
    BY <1>1, <1>4, <2>1, <2>2 DEF HomeSound, PaneSound
  <2> QED BY <1>1, <1>2, <1>3, <1>4, <2>3 DEF ConsoleInv, Pages
<1>5. CASE page = "blank"
  BY <1>1, <1>2, <1>3, <1>5 DEF ConsoleInv, HomeSound, PaneSound
<1> QED BY <1>4, <1>5 DEF ConsoleInit

LEMMA ConsoleSteps ==
    ASSUME ~Reordering, ConsoleInv, [ConsoleNext]_consoleVars
    PROVE  ConsoleInv'
<1>1. ASSUME NEW p \in Pages, NEW s \in RepoSlugs, navigate(p, s) PROVE ConsoleInv'
  BY <1>1, NavigateStep
<1>2. CASE session_answered \/ session_failed \/ session_retry
  BY <1>2, SessionStep
<1>3. CASE home_timer
  BY <1>3, HomeTimerStep
<1>4. CASE (\E s \in RepoSlugs : OpenSlug(s)) \/ (\E f \in Filters : applyIssueFilters(f))
  BY <1>4, RepoShow
<1>5. CASE submitDecision \/ \E f \in Filters : SetFilter(f) \/ openDecision(f)
  BY <1>5, FindingsShow
<1>6. CASE \/ \E s \in RepoSlugs : sync(s) \/ loadRunner(s)
           \/ refresh \/ mintTicket \/ createFixTask \/ save \/ CancelEdit
           \/ \E what \in {"retry", "cancel"} : ActOnTask(what)
           \/ \E d \in Drafts : startEdit(d)
           \/ \E p \in {"openai", "anthropic"} : onProviderChange(p)
  BY <1>6, PlainStep
<1>7. ASSUME NEW i \in DOMAIN flight, answered(i) \/ failed(i) PROVE ConsoleInv'
  <2>1. i = 1
    BY <1>7 DEF answered, failed, Due
  <2> QED BY <1>7, <2>1, AnswerStep
<1>8. ASSUME NEW i \in DOMAIN flight, unauthorised(i) PROVE ConsoleInv'
  <2>1. redirectToLogin /\ UNCHANGED <<session, decided>>
    BY <1>8 DEF unauthorised
  <2>2. SessionShaped(session)'
    BY <2>1 DEF ConsoleInv, SessionShaped
  <2> QED BY <2>1, <2>2, LeftStep
<1>9. CASE UNCHANGED consoleVars
  <2>1. UNCHANGED <<session, nav, page, screen, flight, decided>>
    BY <1>9 DEF consoleVars
  <2> QED BY <2>1 DEF ConsoleInv, SessionShaped, SignedIn, GuardSound, FlightSound, HomeSound, PaneSound,
                      Newest, Unasked, IsSeq
<1> QED BY <1>1, <1>2, <1>3, <1>4, <1>5, <1>6, <1>7, <1>8, <1>9 DEF ConsoleNext

LEMMA ConsoleShows == ConsoleInv => ConsoleTrue
<1> SUFFICES ASSUME ConsoleInv PROVE ConsoleTrue
  OBVIOUS
<1>1. IdentityFirst
  BY DEF ConsoleInv, GuardSound, HomeSound, IdentityFirst
<1>2. OverviewHeals
  BY DEF ConsoleInv, HomeSound, OverviewHeals, Quiet
<1>3. ASSUME Quiet, NEW op, NEW arg PROVE ~Newest(flight, op, arg)
  BY <1>3, FewAsks DEF Quiet, Newest
<1>4. PaneOfItsRepo
  BY <1>3 DEF ConsoleInv, PaneSound, PaneOfItsRepo
<1>5. FormAgrees
  BY DEF ConsoleInv, FlightSound, FormAgrees
<1> QED BY <1>1, <1>2, <1>4, <1>5 DEF ConsoleTrue

\* The web console's pages (frontend/src), when answers come in the order of
\* their requests: the guard waits for an identity, a cold backend does not
\* leave the overview empty, a pane at rest shows the repository and the filter
\* chosen, and what the route form sends the API takes.
THEOREM ConsoleHolds == ~Reordering => (ConsoleSpec => []ConsoleTrue)
<1> SUFFICES ASSUME ~Reordering PROVE ConsoleSpec => []ConsoleTrue
  OBVIOUS
<1>1. ConsoleInv /\ [ConsoleNext]_consoleVars => ConsoleInv'
  BY ConsoleSteps
<1> QED BY <1>1, ConsoleStarts, ConsoleShows, PTL DEF ConsoleSpec
=============================================================================
