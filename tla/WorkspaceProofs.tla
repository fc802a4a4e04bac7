--------------------------- MODULE WorkspaceProofs ---------------------------
(***************************************************************************)
(* Type correctness of Workspace, proved for any number of views, texts,   *)
(* threads and requests.                                                   *)
(***************************************************************************)
EXTENDS Workspace, TLAPS

USE WorkspaceAssumption

\* Rows that have had the name are numbered from 1, and so is what a request
\* has read of them.
IdsOK ==
    /\ dv.stored => dv.id > 0
    /\ \A t \in Thread : txn[t].pc \notin {"idle", "save", "remove"} => txn[t].dv.id > 0

TypeInv == TypeOK /\ IdsOK

-----------------------------------------------------------------------------
(* The values that rows, threads and VDBs are made of.                     *)

LEMMA NoViewType == NoView \notin Row /\ NoViews \in Views
BY DEF NoView, Row, Views, NoViews

LEMMA ShownType ==
  ASSUME NEW views \in Views
  PROVE  Shown(views) \in Texts
<1>1. ASSUME NEW v \in View PROVE Shows(views[v]) \in Ddl
  <2>1. CASE views[v] \in Row
    BY <2>1 DEF Shows, Row, Ddl
  <2>2. CASE views[v] = NoView
    BY <2>2 DEF Shows, NoView, Ddl
  <2> QED BY <2>1, <2>2 DEF Views
<1> QED BY <1>1 DEF Shown, Texts

LEMMA IdleType == Idle \in Txn
BY NoViewType DEF Idle, Txn, NoDv, Dv, Texts, NoTexts, Ddl

LEMMA FoundType ==
  ASSUME TypeInv, NEW t \in Thread
  PROVE  Found(t) \in Views
BY DEF TypeInv, TypeOK, ServerOK, RowsOK, Found, Views, Txn

\* What the editor sends is a row of the view that it is sent for.
LEMMA BaseType ==
  ASSUME TypeInv, NEW v \in View, NEW sent \in Sent
  PROVE  Base(v, sent) \in Row
<1>1. view[v] \in Row \union {NoView}
  BY DEF TypeInv, TypeOK, RowsOK, Views
<1>2. view[v].parsable \in BOOLEAN
  <2>1. CASE view[v] \in Row
    BY <2>1 DEF Row
  <2>2. CASE view[v] = NoView
    BY <2>2 DEF NoView
  <2> QED BY <1>1, <2>1, <2>2
<1>3. sent.ddl \in Ddl /\ sent.complete \in BOOLEAN /\ sent.generated \in BOOLEAN
  BY DEF Sent
<1> QED BY <1>2, <1>3 DEF Base, Row

LEMMA ImportedType ==
  ASSUME NEW g \in Good
  PROVE  Imported(g) \in Row
BY DEF Imported, Row, Ddl, Text

LEMMA RestoredType ==
  ASSUME NEW row \in Row \union {NoView}
  PROVE  Restored(row) \in Row \union {NoView}
<1>1. CASE row = NoView
  BY <1>1 DEF Restored
<1>2. CASE row # NoView /\ row.complete /\ row.generated
  BY <1>2, ImportedType, WorkspaceAssumption DEF Restored
<1>3. CASE row # NoView /\ ~(row.complete /\ row.generated)
  <2>1. [row EXCEPT !.parsable = row.complete /\ row.ddl \in Good] \in Row
    BY <1>3 DEF Row
  <2> QED BY <1>3, <2>1 DEF Restored
<1> QED BY <1>1, <1>2, <1>3

LEMMA RestoreViewsType ==
  ASSUME NEW rows \in Views, RestoreViews(rows)
  PROVE  view' \in Views
BY RestoredType DEF RestoreViews, Views

-----------------------------------------------------------------------------
(* What the steps have in common.                                          *)

LEMMA EndType ==
  ASSUME TypeInv, NEW t \in Thread, End(t)
  PROVE  txn' \in [Thread -> Txn]
BY IdleType DEF TypeInv, TypeOK, ServerOK, End

LEMMA ForgetType ==
  ASSUME TypeInv, NEW S, Forget(S)
  PROVE  /\ txn' \in [Thread -> Txn]
         /\ \A t \in Thread : txn'[t].pc = txn[t].pc /\ txn'[t].dv = txn[t].dv
<1> DEFINE Kept(t) == [v \in View |-> IF v \in S THEN NoView ELSE txn[t].seen[v]]
<1>1. \A t \in Thread : Kept(t) \in Views
  BY NoViewType DEF TypeInv, TypeOK, ServerOK, Txn, Views
<1>2. \A t \in Thread : txn[t] \in Txn /\ [txn[t] EXCEPT !.seen = Kept(t)] \in Txn
  BY <1>1 DEF TypeInv, TypeOK, ServerOK, Txn
<1> QED BY <1>2 DEF Forget, Txn

\* An edit of the rows of a virtualization that is there.
LEMMA EditKeepsTypes ==
  ASSUME TypeInv, dv.stored, view' \in Views,
         dv' \in Dv, dv'.id = dv.id, dv'.stored,
         txn' \in [Thread -> Txn],
         \A t \in Thread : txn'[t].pc \notin {"idle", "save", "remove"} =>
                              txn'[t].pc = txn[t].pc /\ txn'[t].dv = txn[t].dv,
         silent' \in BOOLEAN, inputs' \in 0..MaxInputs,
         UNCHANGED <<editions, preview>>
  PROVE  TypeInv'
<1>1. RowsOK'
  BY DEF TypeInv, TypeOK, RowsOK
<1>2. ServerOK'
  BY DEF TypeInv, TypeOK, ServerOK
<1>3. IdsOK'
  BY DEF TypeInv, IdsOK
<1> QED BY <1>1, <1>2, <1>3 DEF TypeInv, TypeOK

LEMMA TouchType ==
  ASSUME TypeInv, dv.stored, Touch
  PROVE  dv' \in Dv /\ dv'.id = dv.id /\ dv'.stored /\ silent' \in BOOLEAN
<1>1. dv \in Dv
  BY DEF TypeInv, TypeOK, RowsOK
<1>2. dv' = [id |-> dv.id, stored |-> dv.stored, version |-> dv.version + 1,
             modified |-> TRUE]
  BY <1>1 DEF Touch, Dv
<1>3. dv' \in Dv /\ dv'.id = dv.id
  <2>1. dv.id \in Nat /\ dv.version + 1 \in Nat
    BY <1>1 DEF Dv
  <2>2. dv.stored \in BOOLEAN
    BY <1>1 DEF Dv
  <2> QED BY <1>2, <2>1, <2>2 DEF Dv
<1>4. dv'.stored = dv.stored
  BY <1>1, <1>2 DEF Dv
<1>5. silent' \in BOOLEAN
  BY DEF Touch
<1> QED BY <1>3, <1>4, <1>5

LEMMA QuietType ==
  ASSUME TypeInv, dv.stored, Quiet \/ NoTouch
  PROVE  dv' \in Dv /\ dv'.id = dv.id /\ dv'.stored /\ silent' \in BOOLEAN
<1>1. dv \in Dv /\ silent \in BOOLEAN
  BY DEF TypeInv, TypeOK, RowsOK, ServerOK
<1>3. dv' = dv
  BY DEF Quiet, NoTouch
<1>2. silent' \in BOOLEAN
  BY <1>1 DEF Quiet, NoTouch
<1> QED BY <1>1, <1>2, <1>3

LEMMA InputType ==
  ASSUME TypeInv, Input \/ UNCHANGED inputs
  PROVE  inputs' \in 0..MaxInputs
BY DEF TypeInv, TypeOK, ServerOK, Input

LEMMA StoreType ==
  ASSUME TypeInv, NEW v \in View, NEW row \in Row \union {NoView}, Store(v, row)
  PROVE  view' \in Views
BY DEF TypeInv, TypeOK, RowsOK, Store, Views

\* A view exists as long as its virtualization does.
LEMMA ViewHasDv ==
  ASSUME TypeInv, NEW v \in View, view[v] # NoView
  PROVE  dv.stored
BY DEF TypeInv, TypeOK, RowsOK, NoViews

LEMMA EditionHasDv ==
  ASSUME TypeInv, NEW r \in Published
  PROVE  dv.stored /\ editions[r] \in Edition
BY DEF TypeInv, TypeOK, RowsOK, Published

-----------------------------------------------------------------------------
(* The initial state, and each action.                                     *)

LEMMA InitTypes == Init => TypeInv
<1> SUFFICES ASSUME Init PROVE TypeInv
  OBVIOUS
<1>1. RowsOK
  <2>1. Published = {}
    BY DEF Init, Published
  <2>2. editions \in [Revision -> Edition \union {NoEdition}]
    BY DEF Init
  <2>3. dv \in Dv /\ ~dv.stored
    BY DEF Init, Dv, NoDv
  <2> QED BY <2>1, <2>2, <2>3, NoViewType DEF Init, RowsOK
<1>2. ServerOK
  <2>1. silent \in BOOLEAN
    BY DEF Init
  <2>2. inputs \in 0..MaxInputs
    BY DEF Init
  <2> QED BY <2>1, <2>2, IdleType DEF Init, ServerOK
<1>3. IdsOK
  BY DEF Init, IdsOK, Idle, NoDv
<1> QED BY <1>1, <1>2, <1>3 DEF TypeInv, TypeOK

\* Whether it is empty or comes from a file.
LEMMA NewDvTypes ==
  ASSUME TypeInv, Input, NewDv, view' \in Views,
         UNCHANGED <<editions, preview, txn, silent>>
  PROVE  TypeInv'
<1>1. dv' \in Dv /\ dv'.stored /\ dv'.id > 0
  BY DEF TypeInv, TypeOK, RowsOK, NewDv, Dv
<1>2. RowsOK'
  BY <1>1 DEF TypeInv, TypeOK, RowsOK
<1>3. ServerOK'
  BY InputType DEF TypeInv, TypeOK, ServerOK
<1>4. IdsOK'
  BY <1>1 DEF TypeInv, IdsOK, NewDv
<1> QED BY <1>2, <1>3, <1>4 DEF TypeInv, TypeOK

LEMMA CreateDvTypes == TypeInv /\ CreateDv => TypeInv'
BY NewDvTypes DEF TypeInv, TypeOK, RowsOK, CreateDv

LEMMA ImportDvTypes ==
  ASSUME TypeInv, NEW rows \in File, ImportDv(rows)
  PROVE  TypeInv'
BY NewDvTypes, RestoreViewsType, FileAssumption DEF ImportDv

LEMMA UpdateDvTypes == TypeInv /\ UpdateDv => TypeInv'
<1> SUFFICES ASSUME TypeInv, UpdateDv PROVE TypeInv'
  OBVIOUS
<1>1. view' \in Views /\ txn' \in [Thread -> Txn]
  BY DEF TypeInv, TypeOK, RowsOK, ServerOK, UpdateDv
<1> QED BY <1>1, TouchType, InputType, EditKeepsTypes DEF UpdateDv

LEMMA DeleteDvTypes ==
  ASSUME TypeInv, NEW t \in Thread, DeleteDv(t)
  PROVE  TypeInv'
<1>1. dv' \in Dv /\ ~dv'.stored
  BY DEF TypeInv, TypeOK, RowsOK, DeleteDv, NoDv, Dv
<1>2. RowsOK'
  BY <1>1, NoViewType DEF DeleteDv, RowsOK, Published
<1>3. [Idle EXCEPT !.pc = "remove"] \in Txn
  BY IdleType DEF Txn
<1>4. \A s \in Thread : [txn[s] EXCEPT !.seen = NoViews] \in Txn
  BY NoViewType DEF TypeInv, TypeOK, ServerOK, Txn
<1>5. txn' \in [Thread -> Txn]
  BY <1>3, <1>4 DEF DeleteDv
<1>6. ServerOK'
  BY <1>5, InputType DEF TypeInv, TypeOK, ServerOK, DeleteDv
<1>7. IdsOK'
  <2>1. \A s \in Thread : txn[s] \in Txn
    BY DEF TypeInv, TypeOK, ServerOK
  <2>2. \A s \in Thread : IF s = t THEN txn'[s].pc = "remove"
                          ELSE txn'[s].pc = txn[s].pc /\ txn'[s].dv = txn[s].dv
    BY <2>1 DEF DeleteDv, Idle, Txn
  <2> QED BY <1>1, <2>2 DEF TypeInv, IdsOK
<1> QED BY <1>2, <1>6, <1>7 DEF TypeInv, TypeOK

LEMMA RemovePreviewTypes ==
  ASSUME TypeInv, NEW t \in Thread, RemovePreview(t)
  PROVE  TypeInv'
<1>1. RowsOK'
  BY DEF TypeInv, TypeOK, RowsOK, RemovePreview, Published
<1>2. ServerOK'
  BY EndType DEF TypeInv, TypeOK, ServerOK, RemovePreview
<1>3. IdsOK'
  BY DEF TypeInv, TypeOK, ServerOK, IdsOK, RemovePreview, End, Idle
<1> QED BY <1>1, <1>2, <1>3 DEF TypeInv, TypeOK

\* Requests that write no row.
LEMMA RequestKeepsTypes ==
  ASSUME TypeInv, UNCHANGED <<dv, view, editions, silent>>,
         preview' \in Preview \union {NoPreview},
         txn' \in [Thread -> Txn],
         \A t \in Thread : txn'[t].pc \notin {"idle", "save", "remove"} => txn'[t].dv.id > 0,
         inputs' \in 0..MaxInputs
  PROVE  TypeInv'
<1>1. RowsOK'
  BY DEF TypeInv, TypeOK, RowsOK, Published
<1>2. ServerOK'
  BY DEF TypeInv, TypeOK, ServerOK
<1>3. IdsOK'
  BY DEF TypeInv, IdsOK
<1> QED BY <1>1, <1>2, <1>3 DEF TypeInv, TypeOK

LEMMA EndIds ==
  ASSUME TypeInv, NEW t \in Thread, End(t)
  PROVE  \A s \in Thread : txn'[s].pc \notin {"idle", "save", "remove"} =>
                              /\ txn'[s].pc = txn[s].pc /\ txn'[s].dv = txn[s].dv
                              /\ txn'[s].dv.id > 0
BY DEF TypeInv, TypeOK, ServerOK, IdsOK, End, Idle

LEMMA UpsertTypes ==
  ASSUME TypeInv, NEW v \in View, NEW sent \in Sent, Upsert(v, sent)
  PROVE  view' \in Views /\ (Touch \/ Quiet \/ NoTouch)
<1> DEFINE base == Base(v, sent)
<1>1. base \in Row
  BY BaseType
<1>2. CASE SaveDraft(v, sent)
  BY <1>1, <1>2, StoreType DEF SaveDraft
<1>3. CASE SaveGenerated(v, sent)
  <2>1. \A g \in Good : [base EXCEPT !.ddl = g, !.parsable = TRUE] \in Row
    <3>1. \A g \in Ddl, p \in BOOLEAN : [base EXCEPT !.ddl = g, !.parsable = p] \in Row
      BY <1>1 DEF Row
    <3> QED BY <3>1 DEF Ddl, Text
  <2> QED BY <1>1, <1>3, <2>1, StoreType DEF SaveGenerated
<1>4. CASE SaveUserDefined(v, sent)
  <2>1. \A p \in BOOLEAN : [base EXCEPT !.parsable = p] \in Row
    BY <1>1 DEF Row
  <2> QED BY <1>1, <1>4, <2>1, StoreType DEF SaveUserDefined
<1> QED BY <1>2, <1>3, <1>4 DEF Upsert

LEMMA SaveViewTypes ==
  ASSUME TypeInv, NEW t \in Thread, NEW v \in View, NEW sent \in Sent, SaveView(t, v, sent)
  PROVE  TypeInv'
<1>1. dv.stored /\ UNCHANGED <<editions, preview>>
  BY DEF SaveView, Upsert
<1>2. view' \in Views /\ (Touch \/ Quiet \/ NoTouch)
  BY UpsertTypes DEF SaveView
<1>3. inputs' \in 0..MaxInputs
  BY InputType DEF SaveView
<1> QED BY <1>1, <1>2, <1>3, TouchType, QuietType, EndType, EndIds, EditKeepsTypes
        DEF SaveView

LEMMA RemoveViewTypes ==
  ASSUME TypeInv, NEW v \in View, RemoveView(v)
  PROVE  TypeInv'
<1>1. dv.stored
  BY ViewHasDv DEF RemoveView
<1>2. view' \in Views
  BY StoreType DEF RemoveView
<1>3. Touch \/ NoTouch
  BY DEF RemoveView
<1> QED BY <1>1, <1>2, <1>3, TouchType, QuietType, ForgetType, InputType, EditKeepsTypes
        DEF RemoveView

LEMMA ImportViewsTypes ==
  ASSUME TypeInv, NEW S \in SUBSET View, ImportViews(S)
  PROVE  TypeInv'
<1>1. view' \in Views
  BY ImportedType DEF TypeInv, TypeOK, RowsOK, Views, ImportViews
<1>2. UNCHANGED txn /\ txn \in [Thread -> Txn]
  BY DEF TypeInv, TypeOK, ServerOK, ImportViews
<1> QED BY <1>1, <1>2, TouchType, InputType, EditKeepsTypes DEF ImportViews

LEMMA ImportViewsFailsTypes ==
  ASSUME TypeInv, NEW S \in SUBSET View, NEW v \in View, ImportViewsFails(S, v)
  PROVE  TypeInv'
<1>1. dv.stored
  BY ViewHasDv DEF ImportViewsFails
<1>2. view[v] \in Row
  BY DEF TypeInv, TypeOK, RowsOK, Views, ImportViewsFails
<1>3. [Imported(Null) EXCEPT !.parsable = view[v].parsable] \in Row
  <2>1. view[v].parsable \in BOOLEAN
    BY <1>2 DEF Row
  <2> QED BY <2>1 DEF Imported, Row, Ddl
<1>4. view' \in Views
  BY <1>3, ImportedType DEF TypeInv, TypeOK, RowsOK, Views, ImportViewsFails
<1>5. UNCHANGED txn /\ txn \in [Thread -> Txn]
  BY DEF TypeInv, TypeOK, ServerOK, ImportViewsFails
<1> QED BY <1>1, <1>4, <1>5, QuietType, InputType, EditKeepsTypes DEF ImportViewsFails

-----------------------------------------------------------------------------
(* Previews.                                                               *)

LEMMA BeginTypes ==
  ASSUME TypeInv, NEW t \in Thread, NEW next \in {"query", "save", "publish"}, Begin(t, next)
  PROVE  TypeInv'
<1>1. dv \in Dv /\ dv.id > 0
  BY DEF TypeInv, TypeOK, RowsOK, IdsOK, Begin
<1>2. [Idle EXCEPT !.pc = "preview", !.next = next, !.dv = dv] \in Txn
  BY <1>1, IdleType DEF Txn
<1>3. txn' \in [Thread -> Txn]
  BY <1>2 DEF TypeInv, TypeOK, ServerOK, Begin
<1>4. \A s \in Thread : txn'[s].pc \notin {"idle", "save", "remove"} => txn'[s].dv.id > 0
  BY <1>1, <1>3 DEF TypeInv, TypeOK, ServerOK, IdsOK, Begin, Idle
<1>5. preview' \in Preview \union {NoPreview}
  BY DEF TypeInv, TypeOK, ServerOK, Begin
<1>6. UNCHANGED <<dv, view, editions, silent>>
  BY DEF Begin
<1> QED BY <1>3, <1>4, <1>5, <1>6, InputType, RequestKeepsTypes DEF Begin

\* Whatever the request is for, it goes on with what it knew.
LEMMA GoesTypes ==
  ASSUME TypeInv, NEW t \in Thread, At(t, "preview") \/ At(t, "deploy"),
         NEW texts \in Texts, Goes(t, texts)
  PROVE  /\ txn' \in [Thread -> Txn]
         /\ \A s \in Thread : txn'[s].pc \notin {"idle", "save", "remove"} => txn'[s].dv.id > 0
<1>1. txn[t] \in Txn /\ txn[t].dv.id > 0
  BY DEF TypeInv, TypeOK, ServerOK, IdsOK, At
<1>2. CASE End(t)
  BY <1>2, EndType, EndIds
<1>3. CASE txn' = [txn EXCEPT ![t] = [Idle EXCEPT !.pc = "save"]]
  <2>1. [Idle EXCEPT !.pc = "save"] \in Txn
    BY IdleType DEF Txn
  <2>2. [Idle EXCEPT !.pc = "save"].pc = "save"
    BY DEF Idle
  <2> QED BY <1>3, <2>1, <2>2 DEF TypeInv, TypeOK, ServerOK, IdsOK
<1>4. CASE txn' = [txn EXCEPT ![t].pc = "read", ![t].texts = texts]
  <2> DEFINE read == [txn[t] EXCEPT !.pc = "read", !.texts = texts]
  <2>1. read \in Txn /\ read.dv = txn[t].dv
    BY <1>1 DEF Txn
  <2>2. txn' = [txn EXCEPT ![t] = read]
    BY <1>1, <1>4 DEF TypeInv, TypeOK, ServerOK
  <2> QED BY <1>1, <2>1, <2>2 DEF TypeInv, TypeOK, ServerOK, IdsOK
<1>5. txn[t].next \in {"query", "save", "publish"}
  BY <1>1 DEF Txn
<1> QED BY <1>2, <1>3, <1>4, <1>5 DEF Goes

LEMMA UsePreviewTypes ==
  ASSUME TypeInv, NEW t \in Thread, UsePreview(t)
  PROVE  TypeInv'
<1>1. preview.shown \in Texts /\ preview' \in Preview \union {NoPreview}
  BY DEF TypeInv, TypeOK, ServerOK, UsePreview, Preview, NoPreview, Texts, NoTexts, Ddl
<1>2. UNCHANGED <<dv, view, editions, silent, inputs>>
  BY DEF UsePreview
<1> QED BY <1>1, <1>2, GoesTypes, InputType, RequestKeepsTypes DEF UsePreview

LEMMA ReadViewsTypes ==
  ASSUME TypeInv, NEW t \in Thread, ReadViews(t)
  PROVE  TypeInv'
<1>1. UNCHANGED <<dv, view, editions, silent, inputs>>
  BY DEF ReadViews
<1>2. preview' \in Preview \union {NoPreview}
  BY DEF TypeInv, TypeOK, ServerOK, ReadViews
<1>3. CASE End(t)
  BY <1>1, <1>2, <1>3, EndType, EndIds, InputType, RequestKeepsTypes
<1>4. CASE ~End(t)
  <2> DEFINE seen == IF txn[t].next = "publish" THEN view ELSE NoViews
             ready == [txn[t] EXCEPT !.pc = "deploy", !.texts = Shown(view), !.seen = seen]
  <2>1. txn[t] \in Txn /\ txn[t].dv.id > 0
    BY DEF TypeInv, TypeOK, ServerOK, IdsOK, ReadViews, At
  <2>2. Shown(view) \in Texts /\ seen \in Views
    BY ShownType, NoViewType DEF TypeInv, TypeOK, RowsOK
  <2>3. ready \in Txn /\ ready.dv = txn[t].dv
    BY <2>1, <2>2 DEF Txn
  <2>4. txn' = [txn EXCEPT ![t] = ready]
    BY <1>4, <2>1 DEF TypeInv, TypeOK, ServerOK, ReadViews
  <2>5. /\ txn' \in [Thread -> Txn]
        /\ \A s \in Thread : txn'[s].pc \notin {"idle", "save", "remove"} => txn'[s].dv.id > 0
    BY <2>1, <2>3, <2>4 DEF TypeInv, TypeOK, ServerOK, IdsOK
  <2> QED BY <1>1, <1>2, <2>5, InputType, RequestKeepsTypes
<1> QED BY <1>3, <1>4

LEMMA DeployPreviewTypes ==
  ASSUME TypeInv, NEW t \in Thread, DeployPreview(t)
  PROVE  TypeInv'
<1>1. txn[t] \in Txn /\ txn[t].dv.id > 0
  BY DEF TypeInv, TypeOK, ServerOK, IdsOK, DeployPreview, At
<1>2. preview' \in Preview \union {NoPreview}
  BY <1>1 DEF DeployPreview, Preview, Txn, Dv
<1>3. txn[t].texts \in Texts
  BY <1>1 DEF Txn
<1>4. UNCHANGED <<dv, view, editions, silent, inputs>>
  BY DEF DeployPreview
<1> QED BY <1>2, <1>3, <1>4, GoesTypes, InputType, RequestKeepsTypes DEF DeployPreview

LEMMA RefreshPreviewTypes == TypeInv /\ RefreshPreview => TypeInv'
<1> SUFFICES ASSUME TypeInv, RefreshPreview PROVE TypeInv'
  OBVIOUS
<1>1. txn' \in [Thread -> Txn] /\ preview' \in Preview \union {NoPreview}
  BY DEF TypeInv, TypeOK, ServerOK, RefreshPreview
<1>2. UNCHANGED <<dv, view, editions, txn, silent, inputs>>
  BY DEF RefreshPreview
<1> QED BY <1>1, <1>2, InputType, RequestKeepsTypes DEF TypeInv, IdsOK

-----------------------------------------------------------------------------
(* Editions.                                                               *)

LEMMA ReadForEditionTypes ==
  ASSUME TypeInv, NEW t \in Thread, ReadForEdition(t)
  PROVE  TypeInv'
<1>1. UNCHANGED <<dv, view, editions, silent, inputs>>
  BY DEF ReadForEdition
<1>2. preview' \in Preview \union {NoPreview}
  BY DEF TypeInv, TypeOK, ServerOK, ReadForEdition
<1>3. CASE End(t)
  BY <1>1, <1>2, <1>3, EndType, EndIds, InputType, RequestKeepsTypes
<1>4. CASE ~End(t)
  <2> DEFINE ready == [txn[t] EXCEPT !.pc = "commit", !.seen = Found(t),
                                     !.texts = Shown(Found(t)), !.revision = NextRevision]
  <2>1. txn[t] \in Txn /\ txn[t].dv.id > 0
    BY DEF TypeInv, TypeOK, ServerOK, IdsOK, ReadForEdition, At
  <2>2. Found(t) \in Views /\ Shown(Found(t)) \in Texts
    BY FoundType, ShownType
  <2>3. NextRevision \in Revision /\ txn' = [txn EXCEPT ![t] = ready]
    BY <1>4, <2>1 DEF TypeInv, TypeOK, ServerOK, ReadForEdition
  <2>4. ready \in Txn /\ ready.dv = txn[t].dv
    BY <2>1, <2>2, <2>3 DEF Txn
  <2>5. /\ txn' \in [Thread -> Txn]
        /\ \A s \in Thread : txn'[s].pc \notin {"idle", "save", "remove"} => txn'[s].dv.id > 0
    BY <2>1, <2>3, <2>4 DEF TypeInv, TypeOK, ServerOK, IdsOK
  <2> QED BY <1>1, <1>2, <2>5, InputType, RequestKeepsTypes
<1> QED BY <1>3, <1>4

LEMMA CommitEditionTypes ==
  ASSUME TypeInv, NEW t \in Thread, CommitEdition(t)
  PROVE  TypeInv'
<1>1. txn[t] \in Txn /\ dv \in Dv /\ dv.stored
  BY DEF TypeInv, TypeOK, RowsOK, ServerOK, CommitEdition, CanCommit
<1>2. editions' \in [Revision -> Edition \union {NoEdition}]
  <2> DEFINE edition == [stored |-> TRUE, vdb |-> txn[t].texts, export |-> Found(t)]
  <2>1. edition \in Edition
    BY <1>1, FoundType DEF Edition, Txn
  <2>2. editions' = [editions EXCEPT ![txn[t].revision] = edition]
    BY DEF CommitEdition
  <2> QED BY <2>1, <2>2 DEF TypeInv, TypeOK, RowsOK
<1>3. dv' \in Dv /\ dv'.id = dv.id /\ dv'.stored
  <2>1. CASE ~txn[t].dv.modified
    BY <1>1, <2>1 DEF CommitEdition
  <2>2. CASE txn[t].dv.modified
    <3>1. dv' = [id |-> dv.id, stored |-> dv.stored, version |-> dv.version + 1,
                 modified |-> FALSE]
      BY <1>1, <2>2 DEF CommitEdition, Dv
    <3>2. dv.id \in Nat /\ dv.version + 1 \in Nat /\ dv.stored \in BOOLEAN
      BY <1>1 DEF Dv
    <3> QED BY <1>1, <3>1, <3>2 DEF Dv
  <2> QED BY <2>1, <2>2
<1>4. RowsOK'
  BY <1>2, <1>3 DEF TypeInv, TypeOK, RowsOK, CommitEdition
<1>5. ServerOK'
  BY EndType DEF TypeInv, TypeOK, ServerOK, CommitEdition
<1>6. IdsOK'
  BY <1>3, EndIds DEF TypeInv, IdsOK, CommitEdition
<1> QED BY <1>4, <1>5, <1>6 DEF TypeInv, TypeOK

LEMMA ConflictAtEditionTypes ==
  ASSUME TypeInv, NEW t \in Thread, ConflictAtEdition(t)
  PROVE  TypeInv'
<1>1. UNCHANGED <<dv, view, editions, silent, inputs>> /\ End(t)
  BY DEF ConflictAtEdition
<1>2. preview' \in Preview \union {NoPreview}
  BY DEF TypeInv, TypeOK, ServerOK, ConflictAtEdition
<1> QED BY <1>1, <1>2, EndType, EndIds, InputType, RequestKeepsTypes

\* What a revert makes of the row of the virtualization.
LEMMA RevertedDv ==
  ASSUME TypeInv, dv.stored, NEW up \in BOOLEAN, NEW touched \in BOOLEAN,
         dv' = [dv EXCEPT !.version = IF up THEN @ + 1 ELSE @, !.modified = touched]
  PROVE  dv' \in Dv /\ dv'.id = dv.id /\ dv'.stored
<1>1. dv \in Dv
  BY DEF TypeInv, TypeOK, RowsOK
<1>2. \A n \in Nat : [dv EXCEPT !.version = n, !.modified = touched] \in Dv
  BY <1>1 DEF Dv
<1>4. (IF up THEN dv.version + 1 ELSE dv.version) \in Nat
  BY <1>1 DEF Dv
<1>5. dv' \in Dv
  BY <1>2, <1>4
<1>6. dv'.id = dv.id
  BY <1>1 DEF Dv
<1>3. dv'.stored = dv.stored
  BY <1>1 DEF Dv
<1> QED BY <1>3, <1>5, <1>6

LEMMA RevertToEditionTypes ==
  ASSUME TypeInv, NEW r \in Revision, RevertToEdition(r)
  PROVE  TypeInv'
<1> DEFINE rows == editions[r].export
           touched == \E v \in View : rows[v].complete
<1>1. dv.stored /\ rows \in Views
  BY EditionHasDv DEF RevertToEdition, Edition
<1>2. view' \in Views
  BY <1>1, RestoreViewsType DEF RevertToEdition
<1>3. PICK dirty \in BOOLEAN : Restore(touched, dirty)
  BY DEF RevertToEdition
<1>4. dv' \in Dv /\ dv'.id = dv.id /\ dv'.stored
  <2>1. dv' = [dv EXCEPT !.version = IF dirty \/ touched THEN @ + 1 ELSE @,
                         !.modified = touched]
    BY <1>3 DEF Restore
  <2>2. (dirty \/ touched) \in BOOLEAN /\ touched \in BOOLEAN
    OBVIOUS
  <2> HIDE DEF touched
  <2> QED BY <1>1, <2>1, <2>2, RevertedDv
<1>5. silent' \in BOOLEAN
  <2>1. silent \in BOOLEAN
    BY DEF TypeInv, TypeOK, ServerOK
  <2>2. silent' \in {FALSE, silent \/ Shown(view') # Shown(view)}
    BY <1>3 DEF Restore
  <2> QED BY <2>1, <2>2
<1>6. Forget(View) /\ Input /\ UNCHANGED <<editions, preview>>
  BY DEF RevertToEdition
<1> QED BY <1>1, <1>2, <1>4, <1>5, <1>6, ForgetType, InputType, EditKeepsTypes

-----------------------------------------------------------------------------
LEMMA RequestTypes ==
  ASSUME TypeInv, NEW t \in Thread, Request(t)
  PROVE  TypeInv'
BY BeginTypes, UsePreviewTypes, ReadViewsTypes, DeployPreviewTypes, SaveViewTypes,
   ReadForEditionTypes, CommitEditionTypes, ConflictAtEditionTypes, DeleteDvTypes,
   RemovePreviewTypes DEF Request

LEMMA StutterTypes == TypeInv /\ UNCHANGED vars => TypeInv'
<1> SUFFICES ASSUME TypeInv, UNCHANGED vars PROVE TypeInv'
  OBVIOUS
<1>1. RowsOK'
  BY DEF TypeInv, TypeOK, RowsOK, vars, Published
<1> QED BY <1>1 DEF TypeInv, TypeOK, ServerOK, IdsOK, vars

LEMMA NextTypes == TypeInv /\ [Next]_vars => TypeInv'
<1> SUFFICES ASSUME TypeInv, [Next]_vars PROVE TypeInv'
  OBVIOUS
<1>1. CASE Edit
  BY <1>1, RemoveViewTypes, ImportViewsTypes, ImportViewsFailsTypes DEF Edit
<1>2. CASE \E rows \in File : ImportDv(rows)
  BY <1>2, ImportDvTypes
<1>3. ASSUME NEW t \in Thread, Request(t) PROVE TypeInv'
  BY <1>3, RequestTypes
<1> QED BY <1>1, <1>2, <1>3, CreateDvTypes, UpdateDvTypes,
           RefreshPreviewTypes, RevertToEditionTypes,
           StutterTypes DEF Next

\* However requests interleave, views, editions and preview VDBs are well formed,
\* and rows of views and editions exist only for a virtualization that is stored.
THEOREM TypeCorrect == Spec => []TypeOK
<1>1. TypeInv => TypeOK
  BY DEF TypeInv
<1> QED BY <1>1, InitTypes, NextTypes, PTL DEF Spec
=============================================================================
