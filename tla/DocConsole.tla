----------------------------- MODULE DocConsole -----------------------------
(***************************************************************************)
(* The documentation page of the console and its editor:                   *)
(* frontend/src/views/DocsView.vue and components/DocEditor.vue, over the  *)
(* documents of one ecosystem.  A request is sent, the server serves it at *)
(* some moment (Serve) and its answer lands later (land_...), in any order *)
(* with the others; meanwhile the operator clicks and types, and another   *)
(* operator saves.                                                         *)
(*                                                                         *)
(* A text is the number of the edit that produced it; its HTML is the same *)
(* number.  Assets, wording and the toolbar's Markdown are left out.       *)
(***************************************************************************)
EXTENDS Integers, FiniteSets

CONSTANTS
    DocIds,           \* document ids of the ecosystem
    MaxTexts,       \* bound: texts typed, by anybody
    MaxDocAsks         \* bound: requests the page sends

Unset == [id |-> "", text |-> 0, revision |-> 0, born |-> 0]

VARIABLES
    store,      \* the server: text and revision of each document, revision 0 when absent,
                \* and the text it was created with
    catalog,    \* the documents the page lists
    detail,     \* the document the page shows: the editor's props.doc
    editor,     \* the editor's dialog
    pane,       \* its preview
    docFlight,     \* requests sent, each with its answer once served
    texts, docAsks,
    overwrote,  \* the save the server took last: document, text replaced, the document the page
                \* had, the text the buffer was edited from
    dropped     \* a text typed, never saved, was closed away without a question

docConsoleVars == <<store, catalog, detail, editor, pane, docFlight, texts, docAsks, overwrote, dropped>>

----------------------------------------------------------------------------
\* Requests carry the fields of props.doc and the buffer they are sent with.
\* Equal requests under way have the same effect and are one.
Request(op, id, text, revision, seq, base) ==
    [op |-> op, id |-> id, text |-> text, revision |-> revision, seq |-> seq,
     base |-> base, edited |-> 0, status |-> "sent", answer |-> Unset, list |-> {}]

Send(rs) ==
    /\ docAsks + Cardinality(rs) <= MaxDocAsks
    /\ docAsks' = docAsks + Cardinality(rs)
    /\ docFlight' = docFlight \cup rs

Fetch(id) == {Request("doc", id, 0, 0, 0, Unset)}
FetchCatalog(op) == {Request(op, "", 0, 0, 0, Unset)}

dirty(e) == e.content # e.baseline

\* runPreview: nothing without a document, and the newest request only counts.
runPreview(e, p, doc) ==
    IF doc = Unset THEN <<[p EXCEPT !.missed = TRUE], {}>>
    ELSE <<[p EXCEPT !.seq = @ + 1, !.timer = FALSE, !.missed = FALSE],
           {Request("preview", doc.id, e.content, 0, p.seq + 1, Unset)}>>

----------------------------------------------------------------------------
(* The page. *)

refreshCatalog == FetchCatalog("refresh")

LoadDocument(keep) ==
    /\ ~editor.open
    /\ Send(FetchCatalog(IF keep THEN "reload" ELSE "load"))
    /\ UNCHANGED <<store, catalog, detail, editor, pane, texts, overwrote, dropped>>

select(id) ==
    /\ ~editor.open
    /\ id \in catalog
    /\ Send(Fetch(id))
    /\ UNCHANGED <<store, catalog, detail, editor, pane, texts, overwrote, dropped>>

create(id) ==
    /\ ~editor.open
    /\ texts < MaxTexts
    /\ texts' = texts + 1
    /\ Send({Request("create", id, texts', 0, 0, Unset)})
    /\ UNCHANGED <<store, catalog, detail, editor, pane, overwrote, dropped>>

remove(id) ==
    /\ ~editor.open
    /\ id \in catalog
    /\ Send({Request("delete", id, 0, 0, 0, Unset)})
    /\ UNCHANGED <<store, catalog, detail, editor, pane, texts, overwrote, dropped>>

\* The dialog opens on the document shown: the watch on props.visible.
openEditor ==
    /\ detail # Unset
    /\ ~editor.open
    /\ LET e == [editor EXCEPT !.open = TRUE, !.content = detail.text, !.baseline = detail.text,
                               !.saved = detail.text,
                               !.revision = detail.revision, !.base = detail, !.conflict = FALSE]
           r == runPreview(e, [pane EXCEPT !.html = detail.text, !.mode = "split", !.shown = "document",
                                           !.timer = FALSE],
                           detail)
       IN  editor' = e /\ pane' = r[1] /\ Send(r[2])
    /\ UNCHANGED <<store, catalog, detail, texts, overwrote, dropped>>

----------------------------------------------------------------------------
(* The editor. *)

Type ==
    /\ editor.open
    /\ texts < MaxTexts
    /\ texts' = texts + 1
    /\ editor' = [editor EXCEPT !.content = texts']
    /\ pane' = IF pane.mode # "edit" THEN [pane EXCEPT !.timer = TRUE] ELSE pane
    /\ UNCHANGED <<store, catalog, detail, docFlight, docAsks, overwrote, dropped>>

\* 250 ms after the last change.
PreviewTimer ==
    /\ pane.timer
    /\ LET r == runPreview(editor, [pane EXCEPT !.timer = FALSE], detail) IN pane' = r[1] /\ Send(r[2])
    /\ UNCHANGED <<store, catalog, detail, editor, texts, overwrote, dropped>>

SetMode(m) ==
    /\ editor.open
    /\ m # pane.mode
    /\ LET p == [pane EXCEPT !.mode = m]
           r == IF m # "edit" THEN runPreview(editor, p, detail) ELSE <<p, {}>>
       IN  pane' = r[1] /\ Send(r[2])
    /\ UNCHANGED <<store, catalog, detail, editor, texts, overwrote, dropped>>

\* The revision sent is the buffer's, not the shown document's.
save_document ==
    /\ editor.open
    /\ detail # Unset
    /\ ~editor.saving
    /\ editor' = [editor EXCEPT !.saving = TRUE]
    /\ Send({[Request("save", detail.id, editor.content, editor.revision, 0, editor.base)
              EXCEPT !.edited = editor.saved]})
    /\ UNCHANGED <<store, catalog, detail, pane, texts, overwrote, dropped>>

\* confirmDiscard asks only about a dirty buffer; the operator may agree.
close ==
    /\ editor.open
    /\ editor' = [editor EXCEPT !.open = FALSE]
    /\ pane' = [pane EXCEPT !.timer = FALSE]
    /\ dropped' = (dropped \/ (~dirty(editor) /\ editor.content # editor.saved))
    /\ UNCHANGED <<store, catalog, detail, docFlight, texts, docAsks, overwrote>>

----------------------------------------------------------------------------
(* The server (external here: services/docs.py is module Docs). *)

Present == {d \in DocIds : store[d].revision > 0}

Written(id, text) ==
    [store EXCEPT ![id] = [text |-> text, revision |-> @.revision + 1,
                           born |-> IF @.revision = 0 THEN text ELSE @.born]]

AsShown(id, s) == [id |-> id, text |-> s[id].text, revision |-> s[id].revision,
                   born |-> s[id].born]

Served(r, status, answer, s) ==
    docFlight' = (docFlight \ {r}) \cup
        {[r EXCEPT !.status = status, !.answer = answer, !.list = {d \in DocIds : s[d].revision > 0}]}

docs_catalog(r) ==
    /\ r.op \in {"load", "reload", "refresh"}
    /\ Served(r, "ok", Unset, store)
    /\ UNCHANGED <<store, overwrote>>

docs_document(r) ==
    /\ r.op = "doc"
    /\ Served(r, IF r.id \in Present THEN "ok" ELSE "failed", AsShown(r.id, store), store)
    /\ UNCHANGED <<store, overwrote>>

docs_create(r) ==
    /\ r.op = "create"
    /\ store' = Written(r.id, r.text)
    /\ Served(r, "ok", AsShown(r.id, store'), store')
    /\ UNCHANGED overwrote

docs_delete(r) ==
    /\ r.op = "delete"
    /\ store' = [store EXCEPT ![r.id] = [text |-> 0, revision |-> 0, born |-> 0]]
    /\ Served(r, IF r.id \in Present THEN "ok" ELSE "failed", Unset, store')
    /\ UNCHANGED overwrote

\* save_content commits here; a stale revision is a conflict, an absent document a 404.
docs_update(r) ==
    /\ r.op = "save"
    /\ IF r.id \in Present /\ store[r.id].revision = r.revision
       THEN /\ store' = Written(r.id, r.text)
            /\ overwrote' = [id |-> r.id, text |-> store[r.id].text, born |-> store[r.id].born,
                             base |-> r.base, edited |-> r.edited]
            /\ Served(r, "saved", Unset, store')
       ELSE /\ Served(r, IF r.id \in Present THEN "conflict" ELSE "failed", Unset, store)
            /\ UNCHANGED <<store, overwrote>>

\* ... and the answer is the document as it is read after that.
docs_update_read(r) ==
    /\ r.op = "save"
    /\ Served(r, IF r.id \in Present THEN "ok" ELSE "failed", AsShown(r.id, store), store)
    /\ UNCHANGED <<store, overwrote>>

\* Rendering a preview reads no document: it needs no moment of its own.
Serve(r) ==
    /\ \/ /\ r.status = "sent"
          /\ docs_catalog(r) \/ docs_document(r) \/ docs_create(r) \/ docs_delete(r) \/ docs_update(r)
       \/ r.status = "saved" /\ docs_update_read(r)
    /\ UNCHANGED <<catalog, detail, editor, pane, texts, docAsks, dropped>>

Lost(r) ==
    /\ r.status \in {"sent", "saved"}
    /\ Served(r, "failed", Unset, store)
    /\ UNCHANGED <<store, catalog, detail, editor, pane, texts, docAsks, overwrote, dropped>>

\* Another operator saves on the current revision.
Other(id) ==
    /\ id \in Present
    /\ texts < MaxTexts
    /\ texts' = texts + 1
    /\ store' = Written(id, texts')
    /\ UNCHANGED <<catalog, detail, editor, pane, docFlight, docAsks, overwrote, dropped>>

----------------------------------------------------------------------------
(* Answers. *)

Taken(r, new) ==
    /\ docFlight' = (docFlight \ {r}) \cup new
    /\ docAsks' = docAsks + Cardinality(new)

\* load: the catalogue, then the document kept or the first one.
land_load(r) ==
    /\ r.op \in {"load", "reload"}
    /\ IF r.status = "failed"
       THEN catalog' = {} /\ detail' = Unset /\ Taken(r, {})
       ELSE LET wanted == IF r.op = "reload" THEN detail.id ELSE ""
                target == IF wanted \in r.list THEN wanted ELSE CHOOSE d \in r.list : TRUE
            IN  /\ catalog' = r.list
                /\ detail' = IF r.list = {} THEN Unset ELSE detail
                /\ Taken(r, IF r.list = {} THEN {} ELSE Fetch(target))
    /\ UNCHANGED <<store, editor, pane, texts, overwrote, dropped>>

land_refresh(r) ==
    /\ r.op = "refresh"
    /\ catalog' = IF r.status = "ok" THEN r.list ELSE catalog
    /\ Taken(r, {})
    /\ UNCHANGED <<store, detail, editor, pane, texts, overwrote, dropped>>

land_doc(r) ==
    /\ r.op = "doc"
    /\ detail' = IF r.status = "ok" THEN r.answer ELSE detail
    /\ Taken(r, {})
    /\ UNCHANGED <<store, catalog, editor, pane, texts, overwrote, dropped>>

\* create and remove end in a load; a removed document is no longer shown.
land_changed(r) ==
    /\ r.op \in {"create", "delete"}
    /\ detail' = IF r.op = "delete" /\ r.status = "ok" /\ detail.id = r.id THEN Unset ELSE detail
    /\ Taken(r, IF r.status = "ok" THEN FetchCatalog("load") ELSE {})
    /\ UNCHANGED <<store, catalog, editor, pane, texts, overwrote, dropped>>

\* A stale preview is dropped; a failed one keeps the last.
land_preview_any(r) ==
    /\ r.op = "preview"
    /\ pane' = IF r.status # "failed"
               THEN [pane EXCEPT !.html = r.text, !.shown = "preview",
                                 !.landed = IF r.seq > @ THEN r.seq ELSE @]
               ELSE pane
    /\ Taken(r, {})
    /\ UNCHANGED <<store, catalog, detail, editor, texts, overwrote, dropped>>

land_preview(r) ==
    /\ r.op = "preview"
    /\ pane' = IF r.status # "failed" /\ r.seq = pane.seq
               THEN [pane EXCEPT !.html = r.text, !.shown = "preview", !.landed = r.seq]
               ELSE pane
    /\ Taken(r, {})
    /\ UNCHANGED <<store, catalog, detail, editor, texts, overwrote, dropped>>

\* The buffer's present text becomes the baseline, whatever text was sent.
land_save(r) ==
    /\ r.op = "save"
    /\ IF r.status = "ok"
       THEN /\ editor' = [editor EXCEPT !.saving = FALSE, !.revision = r.answer.revision,
                                        !.base = r.answer, !.conflict = FALSE,
                                        !.baseline = editor.content, !.saved = r.text]
            /\ pane' = [pane EXCEPT !.html = r.answer.text, !.shown = "document"]
            /\ detail' = r.answer
            /\ Taken(r, refreshCatalog)
       ELSE /\ editor' = [editor EXCEPT !.saving = FALSE, !.conflict = @ \/ r.status = "conflict"]
            /\ Taken(r, {})
            /\ UNCHANGED <<pane, detail>>
    /\ UNCHANGED <<store, catalog, texts, overwrote, dropped>>

Land(r) ==
    /\ r.status \notin {"sent", "saved"} \/ r.op = "preview"
    /\ \/ land_load(r) \/ land_refresh(r) \/ land_doc(r)
       \/ land_changed(r) \/ land_preview(r) \/ land_save(r)

----------------------------------------------------------------------------
\* The page has loaded: every document at its first revision, one of them shown.
DocConsoleInit ==
    /\ store = [d \in DocIds |-> [text |-> 0, revision |-> 1, born |-> 0]]
    /\ catalog = DocIds
    /\ \E d \in DocIds : detail = AsShown(d, store)
    /\ editor = [open |-> FALSE, content |-> 0, baseline |-> 0, saved |-> 0, revision |-> 0,
                 base |-> Unset, conflict |-> FALSE, saving |-> FALSE]
    /\ pane = [html |-> 0, seq |-> 0, landed |-> 0, timer |-> FALSE, missed |-> FALSE,
                mode |-> "split", shown |-> "document"]
    /\ docFlight = {}
    /\ texts = 0
    /\ docAsks = 0
    /\ overwrote = [id |-> "", text |-> 0, born |-> 0, base |-> Unset, edited |-> 0]
    /\ dropped = FALSE

DocConsoleNext ==
    \/ \E keep \in BOOLEAN : LoadDocument(keep)
    \/ \E id \in DocIds : select(id) \/ create(id) \/ remove(id) \/ Other(id)
    \/ openEditor \/ Type \/ PreviewTimer \/ save_document \/ close
    \/ \E m \in {"edit", "split", "preview"} : SetMode(m)
    \/ \E r \in docFlight : Serve(r) \/ Lost(r) \/ Land(r)

DocConsoleSpec == DocConsoleInit /\ [][DocConsoleNext]_docConsoleVars

----------------------------------------------------------------------------
(* Properties. *)

\* A save the server took on the document it was based on replaced exactly the
\* text the page had been given last: no save it was not told of is lost.
\* (A document deleted and created again counts its revisions from one again.)
OverwritesSeen ==
    overwrote.id = overwrote.base.id /\ overwrote.born = overwrote.base.born =>
        overwrote.text = overwrote.base.text

\* Once the newest preview has arrived and nothing is pending, the pane shows
\* the buffer, whatever order the previews came back in.
PreviewTrue ==
    /\ editor.open /\ detail # Unset /\ pane.mode # "edit" /\ ~pane.timer /\ ~pane.missed
    /\ pane.shown = "preview" /\ pane.landed = pane.seq
    /\ ~ \E r \in docFlight : r.op = "preview"
    => pane.html = editor.content

\* Both.
EditorTrue == OverwritesSeen /\ PreviewTrue

\* save_content: "a save whose base is stale is refused": the text replaced is
\* the one the buffer was edited from.
StaleBufferRefused ==
    overwrote.id = overwrote.base.id /\ overwrote.born = overwrote.base.born =>
        overwrote.text = overwrote.edited

\* DocEditor.vue: a text nobody saved is not thrown away without a question.
UnsavedIsDirty == ~dropped

\* A save reaches the document its buffer was opened on.
SavesOwnDocument == overwrote.id = overwrote.base.id
=============================================================================
