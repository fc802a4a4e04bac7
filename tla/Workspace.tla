------------------------------ MODULE Workspace ------------------------------
(***************************************************************************)
(* What users edit: a virtualization, its views, the preview VDB they are  *)
(* tried out in, and the editions that are published.  It is the part of   *)
(* DataVirtualizationService and EditorService behind the REST paths, with *)
(* MetadataService.updatePreviewVdb and the rows of the database.          *)
(*                                                                         *)
(* All of it concerns one name of a virtualization, which may be deleted   *)
(* and created again.  A row that is read, changed and written in a        *)
(* transaction carries a version, and a transaction whose row has been     *)
(* changed in between fails as a whole; so an edit is one step, its        *)
(* commit.  Requests that also read rows they do not write, or that wait   *)
(* for the preview VDB in between, take several.                           *)
(*                                                                         *)
(* What Teiid can say of a ddl text is given by the constants; the sources *)
(* it is generated from may be missing at any time.                        *)
(***************************************************************************)
EXTENDS Integers

CONSTANTS
    View,       \* names of views
    Good,       \* ddl texts that define the view they are to define
    Partial,    \* texts that define it before the parser gives up
    Unusable,   \* texts that define something else, or nothing
    Sourceless, \* the text generated for a view without source paths
    Null,
    File,       \* what is in the files virtualizations are imported from
    Thread,     \* threads of requests that take several steps
    MaxInputs   \* bound: requests

ASSUME WorkspaceAssumption ==
    /\ Null \notin Good \union Partial \union Unusable
    /\ Sourceless \in Good
    /\ Good \intersect Partial = {}
    /\ (Good \union Partial) \intersect Unusable = {}
    /\ MaxInputs \in Nat

VARIABLES
    dv,        \* the row of the virtualization
    view,      \* name -> the row of the view
    editions,  \* revision -> the published edition
    preview,   \* the preview VDB
    txn,       \* thread -> how far its request is, and what it has read
    silent,    \* edits since the version of dv changed that it does not tell of
    inputs     \* requests so far

vars == <<dv, view, editions, preview, txn, silent, inputs>>

-----------------------------------------------------------------------------
Text == Good \union Partial \union Unusable
Ddl  == Text \union {Null}

\* A row of view_definition; userDefined is ~generated.
Row    == [stored : {TRUE}, ddl : Ddl, complete : BOOLEAN, generated : BOOLEAN,
           parsable : BOOLEAN]
NoView == [stored |-> FALSE, ddl |-> Null, complete |-> FALSE, generated |-> FALSE,
           parsable |-> FALSE]
Views  == [View -> Row \union {NoView}]
NoViews == [v \in View |-> NoView]

ASSUME FileAssumption == File \subseteq Views

\* A row of data_virtualization; id numbers the rows that have had the name.
Dv == [id : Nat, stored : BOOLEAN, version : Nat, modified : BOOLEAN]

\* What the views of a VDB are made of.
Texts   == [View -> Ddl]
NoTexts == [v \in View |-> Null]
Included(row) == row.complete /\ row.parsable
Shows(row) == IF Included(row) THEN row.ddl ELSE Null
Shown(views) == [v \in View |-> Shows(views[v])]

Revision  == 1..MaxInputs
Edition   == [stored : {TRUE}, vdb : Texts, export : Views]
NoEdition == [stored |-> FALSE, vdb |-> NoTexts, export |-> NoViews]
Published == {r \in Revision : editions[r] # NoEdition}

Preview   == [id : Nat \ {0}, version : Nat, shown : Texts]
NoPreview == [id |-> 0, version |-> 0, shown |-> NoTexts]

\* seen holds the rows the session of a publish transaction has read.
Txn  == [pc : {"idle", "preview", "deploy", "save", "read", "commit", "remove"},
         next : {"query", "save", "publish"},
         dv : Dv, seen : Views, texts : Texts, revision : {0} \union Revision]
NoDv == [id |-> 0, stored |-> FALSE, version |-> 0, modified |-> FALSE]
Idle == [pc |-> "idle", next |-> "query", dv |-> NoDv, seen |-> NoViews,
         texts |-> NoTexts, revision |-> 0]

Init ==
    /\ dv = NoDv
    /\ view = NoViews
    /\ editions = [r \in Revision |-> NoEdition]
    /\ preview = NoPreview
    /\ txn = [t \in Thread |-> Idle]
    /\ silent = FALSE
    /\ inputs = 0

Input == inputs < MaxInputs /\ inputs' = inputs + 1

At(t, pc) == txn[t].pc = pc
End(t) == txn' = [txn EXCEPT ![t] = Idle]

\* The session of a transaction keeps the rows it has read as they were; a row
\* that is gone, or made anew, is another one.
Forget(S) ==
    txn' = [t \in Thread |-> [txn[t] EXCEPT !.seen =
                [v \in View |-> IF v \in S THEN NoView ELSE txn[t].seen[v]]]]
Found(t) ==
    [v \in View |-> IF view[v] # NoView /\ txn[t].seen[v] # NoView
                    THEN txn[t].seen[v] ELSE view[v]]

\* touch: the version goes up, whoever has read the old one notices.
Touch ==
    /\ dv' = [dv EXCEPT !.version = @ + 1, !.modified = TRUE]
    /\ silent' = FALSE

\* The code does not touch, though what a preview shows may have changed.
Quiet ==
    /\ silent' = (silent \/ Shown(view') # Shown(view))
    /\ UNCHANGED dv

\* The code does not touch, and need not.
NoTouch == UNCHANGED <<dv, silent>>

-----------------------------------------------------------------------------
\* The virtualization.

\* The row may be written more than once, for its description and its views; it
\* does not matter which version it starts with, only that all start alike.
NewDv ==
    /\ ~dv.stored
    /\ dv' = [id |-> dv.id + 1, stored |-> TRUE, version |-> 0, modified |-> TRUE]

CreateDv ==
    /\ Input
    /\ NewDv
    /\ UNCHANGED <<view, editions, preview, txn, silent>>

UpdateDv ==
    /\ Input
    /\ dv.stored
    /\ Touch
    /\ UNCHANGED <<view, editions, preview, txn>>

\* Views and editions go with the row; the preview VDB goes after the commit.
DeleteDv(t) ==
    /\ Input
    /\ At(t, "idle")
    /\ dv.stored
    /\ dv' = [NoDv EXCEPT !.id = dv.id]
    /\ view' = NoViews
    /\ editions' = [r \in Revision |-> NoEdition]
    /\ txn' = [s \in Thread |-> IF s = t THEN [Idle EXCEPT !.pc = "remove"]
                                ELSE [txn[s] EXCEPT !.seen = NoViews]]
    /\ silent' = FALSE
    /\ UNCHANGED preview

RemovePreview(t) ==
    /\ At(t, "remove")
    /\ preview' = NoPreview
    /\ End(t)
    /\ UNCHANGED <<dv, view, editions, silent, inputs>>

-----------------------------------------------------------------------------
\* upsertViewEditorState: old is the row, base what is sent put in its place.

\* Nothing depends on whether a draft is generated.
Sent == [ddl : Ddl, complete : {TRUE}, generated : BOOLEAN]
            \union [ddl : Ddl, complete : {FALSE}, generated : {FALSE}]
OldDdl(v) == view[v].ddl
Base(v, sent) ==
    [stored |-> TRUE, ddl |-> sent.ddl, complete |-> sent.complete,
     generated |-> sent.generated, parsable |-> view[v].parsable]
Store(v, row) == view' = [view EXCEPT ![v] = row]
IsNew(v) == view[v] = NoView

\* Views that are not complete are drafts, whatever they were before.
SaveDraft(v, sent) ==
    /\ ~sent.complete
    /\ Store(v, Base(v, sent))
    /\ Quiet

\* The ddl is made from the source paths if there is none, if the paths have
\* changed, or if the old one could not be parsed.  If the source is missing an
\* exception ends the request, and the transaction commits what it has done.
SaveGenerated(v, sent) ==
    LET base == Base(v, sent)
    IN  /\ sent.complete /\ sent.generated
        /\ \/ /\ \E g \in Good :
                    Store(v, [base EXCEPT !.ddl = g, !.parsable = TRUE])
              /\ Touch
           \/ Store(v, base) /\ Quiet
           \/ /\ sent.ddl # Null /\ base.parsable   \* "trusting the ui"
              /\ Store(v, base)
              /\ Quiet

\* A text the user has changed is parsed; the flag stays as it is if the text
\* is the same, or defines the view before the parser gives up.
SaveUserDefined(v, sent) ==
    LET base == Base(v, sent)
        changed == sent.ddl # Null /\ sent.ddl # OldDdl(v)
    IN  /\ sent.complete /\ ~sent.generated
        /\ \/ /\ changed /\ sent.ddl \in Good
              /\ Store(v, [base EXCEPT !.parsable = TRUE])
              /\ Touch
           \/ /\ changed /\ sent.ddl \in Unusable
              /\ Store(v, [base EXCEPT !.parsable = FALSE])
              /\ IF base.parsable \/ IsNew(v) THEN Touch ELSE NoTouch
           \/ /\ changed => sent.ddl \in Partial
              /\ Store(v, base)
              /\ IF IsNew(v) THEN Touch ELSE Quiet

\* Faulty: the row of the virtualization is not missed.
UpsertUnchecked(v, sent) ==
    /\ SaveDraft(v, sent) \/ SaveGenerated(v, sent) \/ SaveUserDefined(v, sent)
    /\ UNCHANGED <<editions, preview>>

Upsert(v, sent) ==
    /\ dv.stored
    /\ SaveDraft(v, sent) \/ SaveGenerated(v, sent) \/ SaveUserDefined(v, sent)
    /\ UNCHANGED <<editions, preview>>

\* A view with a text has been validated against the preview VDB before.
SaveView(t, v, sent) ==
    /\ \/ sent.ddl # Null /\ At(t, "save") /\ UNCHANGED inputs
       \/ sent.ddl = Null /\ At(t, "idle") /\ Input
    /\ Upsert(v, sent)
    /\ End(t)

RemoveView(v) ==
    /\ Input
    /\ view[v] # NoView
    /\ Store(v, NoView)
    /\ IF Included(view[v]) THEN Touch ELSE NoTouch
    /\ Forget({v})
    /\ UNCHANGED <<editions, preview>>

\* importViews: a view for every table, in place of the view of that name.
Imported(g) == [stored |-> TRUE, ddl |-> g, complete |-> TRUE, generated |-> TRUE,
                parsable |-> TRUE]

ImportViews(S) ==
    /\ Input
    /\ dv.stored
    /\ \E f \in [S -> Good \ {Sourceless}] :
            view' = [v \in View |-> IF v \in S THEN Imported(f[v]) ELSE view[v]]
    /\ Touch
    /\ UNCHANGED <<editions, preview, txn>>

\* The source goes before the view for v is made: of the views that were there
\* the ones in done are replaced, and v has lost its text.
ImportViewsFails(done, v) ==
    /\ Input
    /\ v \notin done
    /\ \A w \in done \union {v} : view[w] # NoView
    /\ \E f \in [done -> Good \ {Sourceless}] :
            view' = [w \in View |->
                        IF w \in done THEN Imported(f[w])
                        ELSE IF w = v THEN [Imported(Null) EXCEPT !.parsable = view[v].parsable]
                        ELSE view[w]]
    /\ Quiet
    /\ UNCHANGED <<editions, preview, txn>>

Edit ==
    \/ \E v \in View : RemoveView(v)
    \/ \E S \in SUBSET View : ImportViews(S) \/ \E v \in View : ImportViewsFails(S, v)

-----------------------------------------------------------------------------
\* updatePreviewVdb, and what the request does next.

Begin(t, next) ==
    /\ Input
    /\ At(t, "idle")
    /\ dv.stored
    /\ txn' = [txn EXCEPT ![t] = [Idle EXCEPT !.pc = "preview", !.next = next, !.dv = dv]]
    /\ UNCHANGED <<dv, view, editions, preview, silent>>

\* The VDB that is used shows texts.
Goes(t, texts) ==
    CASE txn[t].next = "query" -> End(t)
      [] txn[t].next = "save" -> txn' = [txn EXCEPT ![t] = [Idle EXCEPT !.pc = "save"]]
      [] txn[t].next = "publish" ->
            txn' = [txn EXCEPT ![t].pc = "read", ![t].texts = texts]

\* The versions are compared, and nothing else.
IsUpToDate(t) == preview # NoPreview /\ preview.version = txn[t].dv.version

\* Checked before and again under the lock of previewVdbLocks.
UsePreview(t) ==
    /\ At(t, "preview")
    /\ IsUpToDate(t)
    /\ Goes(t, preview.shown)
    /\ UNCHANGED <<dv, view, editions, preview, silent, inputs>>

\* Under the lock; createPreviewVdb fails for a view without a text.
ReadViews(t) ==
    /\ At(t, "preview")
    /\ ~IsUpToDate(t)
    /\ \A s \in Thread : ~At(s, "deploy")
    /\ IF \E v \in View : Included(view[v]) /\ view[v].ddl = Null
       THEN End(t)
       ELSE txn' = [txn EXCEPT
                ![t].pc = "deploy",
                ![t].texts = Shown(view),
                ![t].seen = IF txn[t].next = "publish" THEN view ELSE NoViews]
    /\ UNCHANGED <<dv, view, editions, preview, silent, inputs>>

\* Faulty: the VDB is labelled with the version at the time.
DeployPreviewRelabelled(t) ==
    /\ At(t, "deploy")
    /\ preview' = [id |-> txn[t].dv.id, version |-> dv.version, shown |-> txn[t].texts]
    /\ Goes(t, txn[t].texts)
    /\ UNCHANGED <<dv, view, editions, silent, inputs>>

\* The VDB is labelled with the version read at the beginning.
DeployPreview(t) ==
    /\ At(t, "deploy")
    /\ preview' = [id |-> txn[t].dv.id, version |-> txn[t].dv.version, shown |-> txn[t].texts]
    /\ Goes(t, txn[t].texts)
    /\ UNCHANGED <<dv, view, editions, silent, inputs>>

\* refreshPreviewVdb, on connectionExecutor, whenever the sources change.
RefreshPreview ==
    /\ preview # NoPreview
    /\ preview' = NoPreview
    /\ UNCHANGED <<dv, view, editions, txn, silent, inputs>>

-----------------------------------------------------------------------------
\* publishVirtualization and revertToEdition.

\* findMaxRevision: 0 if there is no edition.
LastRevision == CHOOSE n \in {0} \union Published : \A r \in Published : r <= n

NextRevision == LastRevision + 1   \* at most MaxInputs, one for each request

\* A view the preview VDB does not have, one without a text and one that cannot
\* be parsed all end the request; so may the errors Teiid has found.
Publishable(views, texts) ==
    \A v \in View : views[v].complete =>
        views[v].parsable /\ views[v].ddl # Null /\ texts[v] # Null

ReadForEdition(t) ==
    LET views == Found(t)
    IN  /\ At(t, "read")
        /\ \/ End(t)
           \/ /\ Publishable(views, txn[t].texts)
              /\ NextRevision \in Revision
              /\ txn' = [txn EXCEPT ![t].pc = "commit",
                                    ![t].seen = views,
                                    ![t].texts = Shown(views),
                                    ![t].revision = NextRevision]
        /\ UNCHANGED <<dv, view, editions, preview, silent, inputs>>

SameDv(t) == dv.id = txn[t].dv.id /\ dv.version = txn[t].dv.version

\* Faulty: the row of dv is written whatever its version.
CanCommitUnversioned(t) == dv.stored /\ editions[txn[t].revision] = NoEdition

\* Faulty: revisions need not be unique.
CanCommitAgain(t) == dv.stored /\ (txn[t].dv.modified => SameDv(t))

\* The row of dv is written, and its version compared, only if it is modified.
CanCommit(t) ==
    /\ dv.stored
    /\ txn[t].dv.modified => SameDv(t)
    /\ editions[txn[t].revision] = NoEdition

\* Faulty: the flag is reset whatever it was when it was read.
CommitEditionReset(t) ==
    /\ At(t, "commit")
    /\ CanCommit(t)
    /\ editions' = [editions EXCEPT ![txn[t].revision] =
                        [stored |-> TRUE, vdb |-> txn[t].texts, export |-> Found(t)]]
    /\ dv' = [dv EXCEPT !.version = @ + 1, !.modified = FALSE]
    /\ End(t)
    /\ UNCHANGED <<view, preview, silent, inputs>>

\* The export reads the views again.
CommitEdition(t) ==
    /\ At(t, "commit")
    /\ CanCommit(t)
    /\ editions' = [editions EXCEPT ![txn[t].revision] =
                        [stored |-> TRUE, vdb |-> txn[t].texts, export |-> Found(t)]]
    /\ dv' = IF txn[t].dv.modified
             THEN [dv EXCEPT !.version = @ + 1, !.modified = FALSE] ELSE dv
    /\ End(t)
    /\ UNCHANGED <<view, preview, silent, inputs>>

ConflictAtEdition(t) ==
    /\ At(t, "commit")
    /\ ~CanCommit(t)
    /\ End(t)
    /\ UNCHANGED <<dv, view, editions, preview, silent, inputs>>

\* upsertViewEditorState for a row that was exported, when there is none of that
\* name: nothing is known to be parsable, and what was generated is made anew -
\* from no sources, since the export leaves out the source paths.
Restored(row) ==
    IF row = NoView THEN NoView
    ELSE IF row.complete /\ row.generated THEN Imported(Sourceless)
         ELSE [row EXCEPT !.parsable = row.complete /\ row.ddl \in Good]
RestoreViews(rows) == view' = [v \in View |-> Restored(rows[v])]

\* importDataVirtualization from a file.
ImportDv(rows) ==
    /\ Input
    /\ NewDv
    /\ RestoreViews(rows)
    /\ UNCHANGED <<editions, preview, txn, silent>>

\* Faulty: modified is reset at the end.
RestoreUnmodified(touched, dirty) ==
    /\ dv' = [dv EXCEPT !.version = IF dirty \/ touched THEN @ + 1 ELSE @,
                        !.modified = FALSE]
    /\ silent' = IF dirty \/ touched THEN FALSE ELSE silent \/ Shown(view') # Shown(view)

\* modified is reset, and set again by every complete view.  dirty: modified, or
\* the description, is not what it was; the row is not written otherwise.
Restore(touched, dirty) ==
    /\ dv' = [dv EXCEPT !.version = IF dirty \/ touched THEN @ + 1 ELSE @,
                        !.modified = touched]
    /\ silent' = IF dirty \/ touched THEN FALSE ELSE silent \/ Shown(view') # Shown(view)

RevertToEdition(r) ==
    /\ Input
    /\ r \in Published
    /\ RestoreViews(editions[r].export)
    /\ \E dirty \in BOOLEAN :
          /\ dv.modified => dirty
          /\ Restore(\E v \in View : editions[r].export[v].complete, dirty)
    /\ Forget(View)
    /\ UNCHANGED <<editions, preview>>

-----------------------------------------------------------------------------
Request(t) ==
    \/ \E next \in {"query", "save", "publish"} : Begin(t, next)
    \/ UsePreview(t) \/ ReadViews(t) \/ DeployPreview(t)
    \/ \E v \in View, sent \in Sent : SaveView(t, v, sent)
    \/ ReadForEdition(t) \/ CommitEdition(t) \/ ConflictAtEdition(t)
    \/ DeleteDv(t) \/ RemovePreview(t)

Next ==
    \/ CreateDv \/ UpdateDv \/ Edit \/ RefreshPreview
    \/ \E rows \in File : ImportDv(rows)
    \/ \E r \in Revision : RevertToEdition(r)
    \/ \E t \in Thread : Request(t)

Spec == Init /\ [][Next]_vars

-----------------------------------------------------------------------------
\* Properties.

RowsOK ==
    /\ dv \in Dv
    /\ view \in Views
    /\ editions \in [Revision -> Edition \union {NoEdition}]
    /\ ~dv.stored => view = NoViews /\ Published = {}

ServerOK ==
    /\ preview \in Preview \union {NoPreview}
    /\ txn \in [Thread -> Txn]
    /\ silent \in BOOLEAN
    /\ inputs \in 0..MaxInputs

\* Every variable keeps its shape, and views and editions exist only as long as
\* the virtualization does.
TypeOK == RowsOK /\ ServerOK

\* A preview VDB that has the version of the virtualization it was made for shows
\* its complete and parsable views as they are now, however edits, requests that
\* deploy it and refreshes interleave - but for the edits that the code does not
\* touch the virtualization for.
PreviewCurrent ==
    /\ preview # NoPreview
    /\ dv.stored
    /\ preview.id = dv.id
    /\ preview.version = dv.version
    /\ ~silent
    => preview.shown = Shown(view)

\* "once we've published, we're not modified": an edition that makes the
\* virtualization unmodified has the views that are shown at that moment, in its
\* VDB and in its export, though all three are read at different times.
EditionsConsistent ==
    [][\A r \in Revision :
          /\ editions[r] = NoEdition /\ editions'[r] # NoEdition
          /\ dv.modified /\ ~dv'.modified
          /\ ~silent
          => /\ editions'[r].vdb = Shown(view)
             /\ Shown(editions'[r].export) = Shown(view)]_vars

\* What is shown of a virtualization that is not modified is what one of its
\* editions has, whatever was saved, removed, published and reverted since.
UnmodifiedIsPublished ==
    dv.stored /\ ~dv.modified /\ ~silent =>
        \E r \in Published : Shown(editions[r].export) = Shown(view)

\* An edition is for ever, as long as the virtualization is: of two requests
\* that have read the same highest revision one fails.
EditionsAreKept ==
    [][\A r \in Revision :
          editions[r] # NoEdition /\ dv'.stored => editions'[r] = editions[r]]_vars

\* An edition as EditionHistory sees it.
Had(edition) == [vdb |-> edition.vdb, export |-> Shown(edition.export)]

Editions == INSTANCE EditionHistory WITH
    live <- dv.stored,
    shown <- Shown(view),
    modified <- dv.modified,
    drifted <- silent,
    published <- [r \in Published |-> Had(editions[r])]

\* However requests overlap, users see publishing as one step: what is shown, the
\* edition and the flag change together, and a request that has read its rows
\* before an edit, a deletion or another publication cannot pass for a later one.
PublishesAtomically == Editions!History

\* "back to the old": a revert shows what was published with the edition.
RevertsToOld ==
    [][\A r \in Revision : RevertToEdition(r) => Shown(view') = editions[r].vdb]_vars
=============================================================================
