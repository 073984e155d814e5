------------------------------ MODULE Catalog -------------------------------
(***************************************************************************)
(* The tools catalog (services/tool_catalog.py, routes/hub.py): rows that  *)
(* name objects in the store (services/objectstore.py), written by uploads *)
(* and imports, removed by a prune, installed once by the boot-time seed   *)
(* (services/catalog_seed.py).  A row and its object are never written in  *)
(* one step, and every write takes a fresh object key.                     *)
(***************************************************************************)
EXTENDS Integers, FiniteSets

CONSTANTS
    Paths,          \* public paths of entries
    Defaults,       \* the paths the seed installs
    Writers,        \* requests and commands that write
    Seeders,        \* processes that may boot at the same time
    Overwrite,      \* STORAGE__ON_DUPLICATE = overwrite?
    MaxKeys,        \* bound: object keys handed out
    MaxBoots        \* bound: boots, and writers that die

ASSUME CatalogAssumption ==
    /\ Paths # {} /\ Defaults \subseteq Paths /\ MaxKeys \in Nat /\ MaxBoots \in Nat /\ Overwrite \in BOOLEAN

NoKey == <<>>
Fresh(n) == <<n>>      \* a new uuid4
Literal == [p \in Defaults |-> <<"seed", p>>]      \* the uuids in the .sql
AnyKey == {NoKey} \cup {Fresh(n) : n \in 1 .. MaxKeys} \cup {Literal[p] : p \in Defaults}
\* A row by its primary key and the object it owns; its path is its address.
CatalogEntry == [id : AnyKey, key : AnyKey]
NoRow == [id |-> NoKey, key |-> NoKey]

VARIABLES
    rows,       \* rows[p]: [id, key], NoRow when there is none
    objects,    \* keys in the store
    next,       \* the last fresh key, and row id, handed out
    writer,     \* writer[w]: [pc, op, path, read, key]
    seeder,     \* seeder[s]: where its boot is
    mark,       \* the row of catalog_seed_state
    deleted,    \* defaults an administrator deleted after the seed was installed
    overwritten,\* keys that an upload took out of a row
    boots

catalogVars == <<rows, objects, next, writer, seeder, mark, deleted, overwritten, boots>>

Resting == [pc |-> "idle", op |-> "none", path |-> CHOOSE p \in Paths : TRUE, read |-> NoRow, key |-> NoKey]

CatalogInit ==
    /\ rows = [p \in Paths |-> NoRow] /\ objects = {} /\ next = 0 /\ mark = FALSE
    /\ writer = [w \in Writers |-> Resting] /\ seeder = [s \in Seeders |-> "off"]
    /\ deleted = {} /\ overwritten = {} /\ boots = 0

Is(w, op, pc) == writer[w].op = op /\ writer[w].pc = pc
Step(w, pc) == writer' = [writer EXCEPT ![w].pc = pc]
Rest(w) == writer' = [writer EXCEPT ![w] = Resting]
Up == \E s \in Seeders : seeder[s] = "up"

-----------------------------------------------------------------------------
(* Writing an entry.                                                       *)

\* The route refuses an existing path unless overwriting; it keeps the row object.
upload_tool(w) ==
    /\ Up /\ writer[w].pc = "idle" /\ next < MaxKeys
    /\ \E p \in Paths :
         /\ rows[p] = NoRow \/ Overwrite
         /\ writer' = [writer EXCEPT ![w] = [pc |-> "put", op |-> "upload", path |-> p, read |-> rows[p], key |-> Fresh(next + 1)]]
    /\ next' = next + 1
    /\ UNCHANGED <<rows, objects, seeder, mark, deleted, overwritten, boots>>

_import_entry(w) ==
    /\ Up /\ writer[w].pc = "idle" /\ next < MaxKeys
    /\ \E p \in Paths :
         writer' = [writer EXCEPT ![w] = [pc |-> "put", op |-> "import", path |-> p, read |-> rows[p], key |-> Fresh(next + 1)]]
    /\ next' = next + 1
    /\ UNCHANGED <<rows, objects, seeder, mark, deleted, overwritten, boots>>

\* The object is complete or absent; a refused body ends the request.
put(w) ==
    /\ writer[w].pc = "put"
    /\ \/ objects' = objects \cup {writer[w].key} /\ Step(w, "save")
       \/ UNCHANGED objects /\ Rest(w)
    /\ UNCHANGED <<rows, next, seeder, mark, deleted, overwritten, boots>>

\* The row is looked up again: a deleted one is inserted anew.
save_entry(w) ==
    /\ writer[w].pc = "save"
    /\ writer' = [writer EXCEPT ![w].pc = "commit",
                                ![w].read = IF rows[writer[w].path].id = @.id THEN @ ELSE rows[writer[w].path]]
    /\ UNCHANGED <<rows, objects, next, seeder, mark, deleted, overwritten, boots>>

\* INSERT meets the unique constraint, UPDATE meets no row: the request fails.
save_entry_commit(w) ==
    /\ writer[w].pc = "commit"
    /\ LET p == writer[w].path IN
       IF rows[p].id # writer[w].read.id
       THEN Rest(w) /\ UNCHANGED <<rows, overwritten>>
       ELSE /\ rows' = [rows EXCEPT ![p] = [id |-> IF @ = NoRow THEN writer[w].key ELSE @.id, key |-> writer[w].key]]
            /\ overwritten' = IF writer[w].op = "upload" /\ rows[p] # NoRow
                              THEN overwritten \cup {rows[p].key} ELSE overwritten
            /\ Step(w, "supersede")
    /\ UNCHANGED <<objects, next, seeder, mark, deleted, boots>>

\* save_entry gave the very row object it updated back: existing.storage_key is
\* the new key, and the route deletes nothing.
upload_supersedes(w) ==
    /\ Is(w, "upload", "supersede") /\ Rest(w)
    /\ UNCHANGED <<rows, objects, next, seeder, mark, deleted, overwritten, boots>>

import_supersedes_row(w) ==
    /\ Is(w, "import", "supersede") /\ Rest(w)
    /\ objects' = objects \ {rows[writer[w].path].key}
    /\ UNCHANGED <<rows, next, seeder, mark, deleted, overwritten, boots>>

\* The import remembered the key before it saved.
import_supersedes(w) ==
    /\ Is(w, "import", "supersede") /\ Rest(w)
    /\ objects' = objects \ {writer[w].read.key}
    /\ UNCHANGED <<rows, next, seeder, mark, deleted, overwritten, boots>>

-----------------------------------------------------------------------------
(* delete_entry: the row, then the object it named when it was read.       *)

delete_entry(w) ==
    /\ Up /\ writer[w].pc = "idle"
    /\ \E p \in Paths :
         /\ rows[p] # NoRow
         /\ writer' = [writer EXCEPT ![w] = [pc |-> "delete", op |-> "delete", path |-> p, read |-> rows[p], key |-> NoKey]]
    /\ UNCHANGED <<rows, objects, next, seeder, mark, deleted, overwritten, boots>>

delete_entry_commit(w) ==
    /\ writer[w].pc = "delete"
    /\ LET p == writer[w].path IN
       IF rows[p].id # writer[w].read.id
       THEN Rest(w) /\ UNCHANGED <<rows, deleted>>
       ELSE /\ rows' = [rows EXCEPT ![p] = NoRow]
            /\ deleted' = IF p \in Defaults THEN deleted \cup {p} ELSE deleted
            /\ Step(w, "discard")
    /\ UNCHANGED <<objects, next, seeder, mark, overwritten, boots>>

delete_object(w) ==
    /\ Is(w, "delete", "discard") /\ Rest(w)
    /\ objects' = objects \ {writer[w].read.key}
    /\ UNCHANGED <<rows, next, seeder, mark, deleted, overwritten, boots>>

WriterDies(w) ==
    /\ writer[w].pc # "idle" /\ boots < MaxBoots /\ boots' = boots + 1 /\ Rest(w)
    /\ UNCHANGED <<rows, objects, next, seeder, mark, deleted, overwritten>>

-----------------------------------------------------------------------------
(* catalog_seed: at every boot, before the process serves.                 *)

_seed_namespace_empty(s) ==
    /\ seeder[s] \in {"off", "up"} /\ boots < MaxBoots /\ boots' = boots + 1
    /\ seeder' = [seeder EXCEPT ![s] = IF \E p \in Paths : rows[p] # NoRow THEN "mark" ELSE "install"]
    /\ UNCHANGED <<rows, objects, next, writer, mark, deleted, overwritten>>

\* Marked, or rows there already: nothing is installed.
_seed_namespace(s) ==
    /\ seeder[s] \in {"off", "up"} /\ boots < MaxBoots /\ boots' = boots + 1
    /\ seeder' = [seeder EXCEPT ![s] = IF mark THEN "up"
                                       ELSE IF \E p \in Paths : rows[p] # NoRow THEN "mark" ELSE "install"]
    /\ UNCHANGED <<rows, objects, next, writer, mark, deleted, overwritten>>

_install_objects(s) ==
    /\ seeder[s] = "install" /\ seeder' = [seeder EXCEPT ![s] = "rows"]
    /\ objects' = objects \cup {Literal[p] : p \in Defaults}
    /\ UNCHANGED <<rows, next, writer, mark, deleted, overwritten, boots>>

\* One transaction of INSERT ... WHERE NOT EXISTS.
_statements(s) ==
    /\ seeder[s] = "rows" /\ seeder' = [seeder EXCEPT ![s] = "mark"]
    /\ rows' = [p \in Paths |-> IF p \in Defaults /\ rows[p] = NoRow
                                THEN [id |-> Literal[p], key |-> Literal[p]] ELSE rows[p]]
    /\ UNCHANGED <<objects, next, writer, mark, deleted, overwritten, boots>>

_mark(s) ==
    /\ seeder[s] = "mark" /\ mark' = TRUE /\ seeder' = [seeder EXCEPT ![s] = "up"]
    /\ UNCHANGED <<rows, objects, next, writer, deleted, overwritten, boots>>

SeederDies(s) ==
    /\ seeder[s] \in {"install", "rows", "mark"} /\ seeder' = [seeder EXCEPT ![s] = "off"]
    /\ UNCHANGED <<rows, objects, next, writer, mark, deleted, overwritten, boots>>

CatalogNext ==
    \/ \E w \in Writers :
         \/ upload_tool(w) \/ _import_entry(w) \/ put(w) \/ save_entry(w) \/ save_entry_commit(w)
         \/ upload_supersedes(w) \/ import_supersedes(w) \/ delete_entry(w)
         \/ delete_entry_commit(w) \/ delete_object(w) \/ WriterDies(w)
    \/ \E s \in Seeders : _seed_namespace(s) \/ _install_objects(s) \/ _statements(s) \/ _mark(s) \/ SeederDies(s)

CatalogSpec == CatalogInit /\ [][CatalogNext]_catalogVars

-----------------------------------------------------------------------------
(* Properties.                                                             *)

CatalogTypeOK ==
    /\ rows \in [Paths -> CatalogEntry] /\ objects \subseteq AnyKey
    /\ next \in 0 .. MaxKeys /\ boots \in 0 .. MaxBoots
    /\ \A p \in Paths : (rows[p].id = NoKey) = (rows[p].key = NoKey)

\* "The row is the artifact": whatever uploads, imports, prunes and boots overlap
\* or die, a row names an object that is in the store (save_entry after put,
\* delete_entry before delete, the superseded object after the row).
RowHasObject == \A p \in Paths : rows[p] # NoRow => rows[p].key \in objects

\* "An administrator who deletes the defaults keeps them deleted across restarts":
\* no boot brings a deleted default back (_seed_namespace, _mark), though a boot
\* may die anywhere.
DeletedStaysDeleted == \A p \in deleted : rows[p].key # Literal[p]

\* A catalog row whose writers are all done has its object, and a row an
\* administrator deleted is not seeded again by a later boot.
CatalogTrue == CatalogTypeOK /\ RowHasObject /\ DeletedStaysDeleted

\* The superseded object is left for the caller to remove, and the upload route
\* means to: no request in progress, no key an upload replaced is in the store.
SupersededRemoved ==
    (\A w \in Writers : writer[w].pc = "idle") => overwritten \cap objects = {}
=============================================================================
