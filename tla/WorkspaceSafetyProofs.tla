------------------------ MODULE WorkspaceSafetyProofs ------------------------
(***************************************************************************)
(* The safety properties of Workspace, proved for any number of views,     *)
(* texts, threads and requests.                                            *)
(***************************************************************************)
EXTENDS WorkspaceProofs

-----------------------------------------------------------------------------
(* A version that was read is a label for what was shown then.  The label  *)
(* of a preview VDB and of what a request has read is never ahead of the   *)
(* row, so that it cannot come to fit again once the row has changed.      *)

Old(id, version) ==
    /\ id <= dv.id
    /\ dv.stored /\ id = dv.id => version <= dv.version

Fresh(id, version) ==
    dv.stored /\ id = dv.id /\ version = dv.version /\ ~silent

ThreadCurrent(t) ==
    Fresh(txn[t].dv.id, txn[t].dv.version) =>
        /\ At(t, "deploy") \/ At(t, "commit") => txn[t].texts = Shown(view)
        /\ \A v \in View : txn[t].seen[v] # NoView =>
                Shows(txn[t].seen[v]) = Shows(view[v])

LabelsOld ==
    /\ Old(preview.id, preview.version)
    /\ \A t \in Thread : Old(txn[t].dv.id, txn[t].dv.version)

CurrentInv ==
    /\ LabelsOld
    /\ PreviewCurrent
    /\ \A t \in Thread : ThreadCurrent(t)

\* What may be done to a row without its labels going wrong.
Told ==
    \/ /\ dv'.id = dv.id /\ dv'.stored = dv.stored /\ dv'.version = dv.version
       /\ ~silent' => ~silent /\ Shown(view') = Shown(view)
    \/ dv'.id = dv.id /\ dv.stored /\ dv'.version = dv.version + 1
    \/ dv'.id = dv.id /\ ~dv'.stored
    \/ dv'.id = dv.id + 1

LEMMA ToldKeepsLabels ==
  ASSUME TypeInv, Told, dv'.id \in Nat, NEW id \in Nat, NEW version \in Nat, Old(id, version)
  PROVE  /\ Old(id, version)'
         /\ Fresh(id, version)' => Fresh(id, version) /\ Shown(view') = Shown(view)
<1>1. dv.id \in Nat /\ dv.version \in Nat
  BY DEF TypeInv, TypeOK, RowsOK, Dv
<1>2. CASE /\ dv'.id = dv.id /\ dv'.stored = dv.stored /\ dv'.version = dv.version
           /\ ~silent' => ~silent /\ Shown(view') = Shown(view)
  BY <1>2 DEF Old, Fresh
<1>3. CASE dv'.id = dv.id /\ dv.stored /\ dv'.version = dv.version + 1
  BY <1>1, <1>3 DEF Old, Fresh
<1>4. CASE dv'.id = dv.id /\ ~dv'.stored
  BY <1>4 DEF Old, Fresh
<1>5. CASE dv'.id = dv.id + 1
  BY <1>1, <1>5 DEF Old, Fresh
<1> QED BY <1>2, <1>3, <1>4, <1>5 DEF Told

-----------------------------------------------------------------------------
(* Every step tells, or is on the list of those that do not (silent).      *)

LEMMA TouchTold == TypeInv /\ dv.stored /\ Touch => Told
<1> SUFFICES ASSUME TypeInv, dv.stored, Touch PROVE Told
  OBVIOUS
<1>1. dv \in Dv
  BY DEF TypeInv, TypeOK, RowsOK
<1>2. dv'.id = dv.id /\ dv'.version = dv.version + 1
  BY <1>1 DEF Touch, Dv
<1> QED BY <1>2 DEF Told

LEMMA QuietTold ==
  ASSUME Quiet \/ (NoTouch /\ Shown(view') = Shown(view))
  PROVE  Told
BY DEF Quiet, NoTouch, Told

\* The views show the same if every row does.
LEMMA SameShown ==
  ASSUME NEW old, NEW new, \A v \in View : Shows(new[v]) = Shows(old[v])
  PROVE  Shown(new) = Shown(old)
BY DEF Shown

LEMMA StoreShown ==
  ASSUME TypeInv, NEW v \in View, NEW row, Store(v, row), Shows(row) = Shows(view[v])
  PROVE  Shown(view') = Shown(view)
<1>1. \A w \in View : view'[w] = IF w = v THEN row ELSE view[w]
  BY DEF TypeInv, TypeOK, RowsOK, Views, Store
<1> QED BY <1>1, SameShown

LEMMA UpsertTold ==
  ASSUME TypeInv, NEW v \in View, NEW sent \in Sent, Upsert(v, sent)
  PROVE  \/ dv.stored /\ Touch
         \/ Quiet
         \/ NoTouch /\ Shown(view') = Shown(view)
<1> DEFINE base == Base(v, sent)
<1>1. ASSUME Store(v, [base EXCEPT !.parsable = FALSE]), ~base.parsable
      PROVE  Shown(view') = Shown(view)
  <2>1. Shows([base EXCEPT !.parsable = FALSE]) = Null
    BY BaseType DEF Shows, Included, Row
  <2>2. Shows(view[v]) = Null
    BY <1>1 DEF Base, Shows, Included
  <2> QED BY <1>1, <2>1, <2>2, StoreShown
<1> QED BY <1>1 DEF Upsert, SaveDraft, SaveGenerated, SaveUserDefined

LEMMA RemoveViewTold ==
  ASSUME TypeInv, NEW v \in View, RemoveView(v)
  PROVE  \/ dv.stored /\ Touch
         \/ NoTouch /\ Shown(view') = Shown(view)
<1>1. dv.stored
  BY ViewHasDv DEF RemoveView
<1>2. ASSUME ~Included(view[v]) PROVE Shown(view') = Shown(view)
  <2>1. Shows(NoView) = Null /\ Shows(view[v]) = Null
    BY <1>2 DEF Shows, Included, NoView
  <2> QED BY <2>1, StoreShown DEF RemoveView
<1> QED BY <1>1, <1>2 DEF RemoveView

\* An edit either counts as a change of the virtualization, ...
LEMMA EditTold ==
  ASSUME TypeInv, Edit
  PROVE  \/ dv.stored /\ Touch
         \/ Quiet
         \/ NoTouch /\ Shown(view') = Shown(view)
BY RemoveViewTold DEF Edit, ImportViews, ImportViewsFails

LEMMA RevertedDvTold ==
  ASSUME TypeInv, dv.stored, NEW up \in BOOLEAN, NEW touched \in BOOLEAN,
         dv' = [dv EXCEPT !.version = IF up THEN @ + 1 ELSE @, !.modified = touched],
         ~up /\ ~silent' => ~silent /\ Shown(view') = Shown(view)
  PROVE  Told
<1>1. dv \in Dv
  BY DEF TypeInv, TypeOK, RowsOK
<1>2. /\ dv'.id = dv.id
      /\ dv'.stored = dv.stored
      /\ dv'.version = IF up THEN dv.version + 1 ELSE dv.version
  BY <1>1 DEF Dv
<1> QED BY <1>2 DEF Told

LEMMA RevertToEditionTold ==
  ASSUME TypeInv, NEW r \in Revision, RevertToEdition(r)
  PROVE  Told
<1> DEFINE touched == \E v \in View : editions[r].export[v].complete
<1>1. dv.stored
  BY EditionHasDv DEF RevertToEdition
<1>2. PICK dirty \in BOOLEAN : Restore(touched, dirty)
  BY DEF RevertToEdition
<1>3. touched \in BOOLEAN /\ (dirty \/ touched) \in BOOLEAN
  OBVIOUS
<1> HIDE DEF touched
<1>4. dv' = [dv EXCEPT !.version = IF dirty \/ touched THEN @ + 1 ELSE @,
                       !.modified = touched]
  BY <1>2 DEF Restore
<1>5. ~(dirty \/ touched) /\ ~silent' => ~silent /\ Shown(view') = Shown(view)
  BY <1>2 DEF Restore
<1> QED BY <1>1, <1>3, <1>4, <1>5, RevertedDvTold

\* ... and so does everything else that is done to its rows.
LEMMA NextTold ==
  ASSUME TypeInv, [Next]_vars
  PROVE  Told
<1>1. dv \in Dv
  BY DEF TypeInv, TypeOK, RowsOK
<1>2. CASE UNCHANGED <<dv, view, silent>>
  BY <1>2 DEF Told
<1>3. CASE NewDv
  BY <1>3 DEF NewDv, Told
<1>4. CASE UpdateDv
  BY <1>4, TouchTold DEF UpdateDv
<1>5. CASE Edit
  BY <1>5, EditTold, TouchTold, QuietTold
<1>6. ASSUME NEW r \in Revision, RevertToEdition(r) PROVE Told
  BY <1>6, RevertToEditionTold
<1>7. ASSUME NEW t \in Thread, DeleteDv(t) PROVE Told
  <2>1. dv'.id = dv.id /\ ~dv'.stored
    BY <1>7 DEF DeleteDv, NoDv
  <2> QED BY <2>1 DEF Told
<1>8. ASSUME NEW t \in Thread, CommitEdition(t) PROVE Told
  <2>1. CASE dv' = dv
    BY <1>8, <2>1 DEF CommitEdition, Told
  <2>2. CASE dv' = [dv EXCEPT !.version = @ + 1, !.modified = FALSE]
    <3>1. dv.stored /\ dv'.id = dv.id /\ dv'.version = dv.version + 1
      BY <1>1, <1>8, <2>2 DEF CommitEdition, CanCommit, Dv
    <3> QED BY <3>1 DEF Told
  <2> QED BY <1>8, <2>1, <2>2 DEF CommitEdition
<1>9. ASSUME NEW t \in Thread, NEW v \in View, NEW sent \in Sent, SaveView(t, v, sent)
      PROVE  Told
  BY <1>9, UpsertTold, TouchTold, QuietTold DEF SaveView
<1>10. ASSUME NEW t \in Thread, Request(t) PROVE Told
  BY <1>2, <1>7, <1>8, <1>9, <1>10
     DEF Request, Begin, UsePreview, ReadViews, DeployPreview, ReadForEdition,
         ConflictAtEdition, RemovePreview
<1> QED BY <1>2, <1>3, <1>4, <1>5, <1>6, <1>10 DEF Next, CreateDv, ImportDv, RefreshPreview, vars

-----------------------------------------------------------------------------
(* What a request knows is never out of date if its label is not.          *)

\* Whatever a thread does not touch of what it has read stays as it is, or is
\* forgotten; a request that is over has read nothing.
Keeps(t) ==
    /\ txn'[t].pc = txn[t].pc /\ txn'[t].dv = txn[t].dv
    /\ txn'[t].texts = txn[t].texts /\ txn'[t].revision = txn[t].revision
    /\ \A v \in View : txn'[t].seen[v] \in {txn[t].seen[v], NoView}

Resets(t) ==
    txn'[t].dv = NoDv /\ txn'[t].seen = NoViews /\ txn'[t].pc \notin {"deploy", "commit"}

LEMMA LabelTypes ==
  ASSUME TypeInv
  PROVE  /\ preview.id \in Nat /\ preview.version \in Nat
         /\ \A t \in Thread : txn[t].dv.id \in Nat /\ txn[t].dv.version \in Nat
         /\ dv.id \in Nat /\ dv.version \in Nat
BY DEF TypeInv, TypeOK, RowsOK, ServerOK, Preview, NoPreview, Txn, Dv

LEMMA NoLabelIsOld ==
  ASSUME TypeInv
  PROVE  Old(NoDv.id, NoDv.version) /\ ~Fresh(NoDv.id, NoDv.version)
BY LabelTypes DEF TypeInv, IdsOK, Old, Fresh, NoDv

LEMMA KeepsCurrent ==
  ASSUME TypeInv, TypeInv', Told, NEW t \in Thread, Keeps(t),
         Old(txn[t].dv.id, txn[t].dv.version), ThreadCurrent(t)
  PROVE  Old(txn[t].dv.id, txn[t].dv.version)' /\ ThreadCurrent(t)'
<1> DEFINE id == txn[t].dv.id
           version == txn[t].dv.version
<1>1. /\ Old(id, version)'
      /\ Fresh(id, version)' => Fresh(id, version) /\ Shown(view') = Shown(view)
  <2>1. txn'[t].dv = txn[t].dv
    BY DEF Keeps
  <2>2. dv'.id \in Nat /\ id \in Nat /\ version \in Nat
    BY LabelTypes DEF TypeInv, TypeOK, RowsOK, Dv
  <2> QED BY <2>1, <2>2, ToldKeepsLabels DEF Old, Fresh
<1>2. ASSUME Fresh(id, version)' PROVE ThreadCurrent(t)'
  <2>1. At(t, "deploy")' \/ At(t, "commit")' => txn'[t].texts = Shown(view')
    BY <1>1, <1>2 DEF Keeps, ThreadCurrent, At
  <2>2. ASSUME NEW v \in View, txn'[t].seen[v] # NoView
        PROVE  Shows(txn'[t].seen[v]) = Shows(view'[v])
    <3>1. Shows(txn[t].seen[v]) = Shows(view[v]) /\ txn'[t].seen[v] = txn[t].seen[v]
      BY <1>1, <1>2, <2>2 DEF Keeps, ThreadCurrent
    <3>2. Shown(view')[v] = Shown(view)[v]
      BY <1>1, <1>2
    <3> QED BY <3>1, <3>2 DEF Shown
  <2> QED BY <2>1, <2>2 DEF ThreadCurrent
<1> QED BY <1>1, <1>2 DEF ThreadCurrent

LEMMA ResetsCurrent ==
  ASSUME TypeInv', NEW t \in Thread, Resets(t)
  PROVE  Old(txn[t].dv.id, txn[t].dv.version)' /\ ThreadCurrent(t)'
<1>1. (Old(NoDv.id, NoDv.version) /\ ~Fresh(NoDv.id, NoDv.version))'
  BY NoLabelIsOld, PTL
<1> QED BY <1>1 DEF Resets, ThreadCurrent, Old, Fresh

LEMMA UnchangedKeeps ==
  ASSUME UNCHANGED txn, NEW t \in Thread
  PROVE  Keeps(t)
BY DEF Keeps

LEMMA EndKeeps ==
  ASSUME TypeInv, NEW t \in Thread, End(t), NEW s \in Thread
  PROVE  Keeps(s) \/ Resets(s)
<1>1. CASE s = t
  BY <1>1 DEF TypeInv, TypeOK, ServerOK, End, Resets, Idle
<1>2. CASE s # t
  BY <1>2 DEF TypeInv, TypeOK, ServerOK, End, Keeps
<1> QED BY <1>1, <1>2

LEMMA ForgetKeeps ==
  ASSUME TypeInv, NEW S, Forget(S), NEW s \in Thread
  PROVE  Keeps(s)
<1> DEFINE kept == [v \in View |-> IF v \in S THEN NoView ELSE txn[s].seen[v]]
<1>1. txn[s] \in Txn
  BY DEF TypeInv, TypeOK, ServerOK
<1>2. txn'[s] = [txn[s] EXCEPT !.seen = kept]
  BY DEF Forget
<1>3. /\ txn'[s].pc = txn[s].pc /\ txn'[s].dv = txn[s].dv
      /\ txn'[s].texts = txn[s].texts /\ txn'[s].revision = txn[s].revision
  BY <1>1, <1>2 DEF Txn
<1>4. txn'[s].seen = kept
  BY <1>1, <1>2 DEF Txn
<1> QED BY <1>3, <1>4 DEF Keeps

LEMMA DeleteDvKeeps ==
  ASSUME TypeInv, NEW t \in Thread, DeleteDv(t), NEW s \in Thread
  PROVE  Keeps(s) \/ Resets(s)
<1>1. CASE s = t
  <2>1. txn'[s] = [Idle EXCEPT !.pc = "remove"]
    BY <1>1 DEF DeleteDv
  <2> QED BY <2>1 DEF Resets, Idle
<1>2. CASE s # t
  <2>1. txn[s] \in Txn /\ txn'[s] = [txn[s] EXCEPT !.seen = NoViews]
    BY <1>2 DEF TypeInv, TypeOK, ServerOK, DeleteDv
  <2>2. /\ txn'[s].pc = txn[s].pc /\ txn'[s].dv = txn[s].dv
        /\ txn'[s].texts = txn[s].texts /\ txn'[s].revision = txn[s].revision
    BY <2>1 DEF Txn
  <2>3. \A v \in View : txn'[s].seen[v] = NoView
    BY <2>1 DEF Txn, NoViews
  <2> QED BY <2>2, <2>3 DEF Keeps
<1> QED BY <1>1, <1>2

\* Only the steps in which a request reads something are left.
Reads(t) ==
    \/ \E next \in {"query", "save", "publish"} : Begin(t, next)
    \/ UsePreview(t) \/ ReadViews(t) \/ DeployPreview(t) \/ ReadForEdition(t)

LEMMA NextKeeps ==
  ASSUME TypeInv, [Next]_vars, NEW s \in Thread
  PROVE  Keeps(s) \/ Resets(s) \/ \E t \in Thread : Reads(t)
<1>1. CASE UNCHANGED txn
  BY <1>1, UnchangedKeeps
<1>2. CASE Edit
  BY <1>1, <1>2, ForgetKeeps DEF Edit, RemoveView, ImportViews, ImportViewsFails
<1>3. ASSUME NEW r \in Revision, RevertToEdition(r)
      PROVE  Keeps(s)
  BY <1>3, ForgetKeeps DEF RevertToEdition
<1>4. ASSUME NEW t \in Thread, Request(t)
      PROVE  Keeps(s) \/ Resets(s) \/ Reads(t)
  BY <1>4, EndKeeps, DeleteDvKeeps
     DEF Request, SaveView, CommitEdition, ConflictAtEdition, RemovePreview, Reads
<1> QED BY <1>1, <1>2, <1>3, <1>4 DEF Next, CreateDv, ImportDv, UpdateDv, RefreshPreview, vars

-----------------------------------------------------------------------------
(* The steps that read.                                                    *)

\* A row that is not as it was read cannot have the version that was read.
LEMMA FoundShown ==
  ASSUME TypeInv, NEW t \in Thread, ThreadCurrent(t),
         Fresh(txn[t].dv.id, txn[t].dv.version)
  PROVE  Shown(Found(t)) = Shown(view)
<1>1. ASSUME NEW v \in View PROVE Shows(Found(t)[v]) = Shows(view[v])
  BY DEF Found, ThreadCurrent
<1> QED BY <1>1, SameShown

LEMMA OthersKeep ==
  ASSUME TypeInv, NEW t \in Thread, NEW s \in Thread \ {t}, NEW new,
         txn' = [txn EXCEPT ![t] = new]
  PROVE  Keeps(s)
BY DEF TypeInv, TypeOK, ServerOK, Keeps

LEMMA BeginCurrent ==
  ASSUME TypeInv, NEW t \in Thread, NEW next \in {"query", "save", "publish"}, Begin(t, next)
  PROVE  Old(txn[t].dv.id, txn[t].dv.version)' /\ ThreadCurrent(t)'
<1>1. txn'[t].dv = dv /\ txn'[t].pc = "preview" /\ txn'[t].seen = NoViews
  BY DEF TypeInv, TypeOK, ServerOK, Begin, Idle
<1>2. dv' = dv
  BY DEF Begin
<1>3. Old(txn[t].dv.id, txn[t].dv.version)'
  BY <1>1, <1>2, LabelTypes DEF Old
<1>4. ThreadCurrent(t)'
  BY <1>1 DEF ThreadCurrent, At, NoViews
<1> QED BY <1>3, <1>4

\* Once the preview VDB is there a publish request reads the views.
LEMMA GoesCurrent ==
  ASSUME TypeInv, NEW t \in Thread, NEW texts, Goes(t, texts)
  PROVE  \/ Keeps(t) \/ Resets(t)
         \/ /\ txn'[t].pc = "read"
            /\ txn'[t].dv = txn[t].dv
            /\ txn'[t].seen = txn[t].seen
<1>1. txn[t] \in Txn
  BY DEF TypeInv, TypeOK, ServerOK
<1>2. CASE End(t)
  BY <1>2, EndKeeps
<1>3. CASE txn' = [txn EXCEPT ![t] = [Idle EXCEPT !.pc = "save"]]
  <2>1. txn'[t] = [Idle EXCEPT !.pc = "save"]
    BY <1>3 DEF TypeInv, TypeOK, ServerOK
  <2> QED BY <2>1 DEF Resets, Idle
<1>4. CASE txn' = [txn EXCEPT ![t].pc = "read", ![t].texts = texts]
  BY <1>1, <1>4 DEF TypeInv, TypeOK, ServerOK, Txn
<1>5. txn[t].next \in {"query", "save", "publish"}
  BY <1>1 DEF Txn
<1> QED BY <1>2, <1>3, <1>4, <1>5 DEF Goes

LEMMA GoesOthers ==
  ASSUME TypeInv, NEW t \in Thread, NEW texts, Goes(t, texts), NEW s \in Thread \ {t}
  PROVE  Keeps(s)
<1>1. txn[t] \in Txn
  BY DEF TypeInv, TypeOK, ServerOK
<1>2. txn[t].next \in {"query", "save", "publish"}
  BY <1>1 DEF Txn
<1>3. txn'[s] = txn[s]
  BY <1>2 DEF Goes, End, TypeInv, TypeOK, ServerOK
<1> QED BY <1>3 DEF Keeps

LEMMA ReadsOthers ==
  ASSUME TypeInv, NEW t \in Thread, Reads(t), NEW s \in Thread \ {t}
  PROVE  Keeps(s)
<1>1. CASE \E next \in {"query", "save", "publish"} : Begin(t, next)
  BY <1>1, OthersKeep DEF Begin
<1>2. CASE UsePreview(t) \/ DeployPreview(t)
  BY <1>2, GoesOthers DEF UsePreview, DeployPreview
<1>3. CASE ReadViews(t) \/ ReadForEdition(t)
  <2>1. txn'[s] = txn[s]
    BY <1>3 DEF ReadViews, ReadForEdition, End, TypeInv, TypeOK, ServerOK
  <2> QED BY <2>1 DEF Keeps
<1> QED BY <1>1, <1>2, <1>3 DEF Reads

LEMMA ReadViewsCurrent ==
  ASSUME TypeInv, NEW t \in Thread, ReadViews(t),
         Old(txn[t].dv.id, txn[t].dv.version)
  PROVE  \/ Keeps(t) \/ Resets(t)
         \/ Old(txn[t].dv.id, txn[t].dv.version)' /\ ThreadCurrent(t)'
<1>1. CASE End(t)
  BY <1>1, EndKeeps
<1>2. CASE ~End(t)
  <2>1. txn[t] \in Txn
    BY DEF TypeInv, TypeOK, ServerOK
  <2>2. /\ txn'[t].dv = txn[t].dv
        /\ txn'[t].texts = Shown(view)
        /\ txn'[t].seen = IF txn[t].next = "publish" THEN view ELSE NoViews
    BY <1>2, <2>1 DEF ReadViews, TypeInv, TypeOK, ServerOK, Txn
  <2>3. dv' = dv /\ view' = view
    BY DEF ReadViews
  <2>4. Old(txn[t].dv.id, txn[t].dv.version)'
    BY <2>2, <2>3 DEF Old
  <2>5. \A v \in View : txn'[t].seen[v] # NoView => txn'[t].seen[v] = view'[v]
    BY <2>2, <2>3 DEF NoViews
  <2> QED BY <2>2, <2>3, <2>4, <2>5 DEF ThreadCurrent
<1> QED BY <1>1, <1>2

LEMMA ReadForEditionCurrent ==
  ASSUME TypeInv, NEW t \in Thread, ReadForEdition(t),
         Old(txn[t].dv.id, txn[t].dv.version), ThreadCurrent(t)
  PROVE  \/ Keeps(t) \/ Resets(t)
         \/ Old(txn[t].dv.id, txn[t].dv.version)' /\ ThreadCurrent(t)'
<1>1. CASE End(t)
  BY <1>1, EndKeeps
<1>2. CASE ~End(t)
  <2>1. txn[t] \in Txn
    BY DEF TypeInv, TypeOK, ServerOK
  <2>2. /\ txn'[t].dv = txn[t].dv
        /\ txn'[t].texts = Shown(Found(t))
        /\ txn'[t].seen = Found(t)
    BY <1>2, <2>1 DEF ReadForEdition, TypeInv, TypeOK, ServerOK, Txn
  <2>3. dv' = dv /\ view' = view /\ silent' = silent
    BY DEF ReadForEdition
  <2>4. Old(txn[t].dv.id, txn[t].dv.version)'
    BY <2>2, <2>3 DEF Old
  <2>5. ASSUME Fresh(txn[t].dv.id, txn[t].dv.version)'
        PROVE  /\ txn'[t].texts = Shown(view')
               /\ \A v \in View : Shows(txn'[t].seen[v]) = Shows(view'[v])
    <3>1. Fresh(txn[t].dv.id, txn[t].dv.version)
      BY <2>2, <2>3, <2>5 DEF Fresh
    <3>2. \A v \in View : Shows(Found(t)[v]) = Shows(view[v])
      BY <3>1 DEF Found, ThreadCurrent
    <3> QED BY <2>2, <2>3, <3>1, <3>2, FoundShown
  <2> QED BY <2>4, <2>5 DEF ThreadCurrent
<1> QED BY <1>1, <1>2

LEMMA ThreadsCurrent ==
  ASSUME TypeInv, TypeInv', CurrentInv, [Next]_vars, NEW s \in Thread
  PROVE  Old(txn[s].dv.id, txn[s].dv.version)' /\ ThreadCurrent(s)'
<1>1. Told /\ Old(txn[s].dv.id, txn[s].dv.version) /\ ThreadCurrent(s)
  BY NextTold DEF CurrentInv, LabelsOld
<1>2. CASE Keeps(s) \/ Resets(s)
  BY <1>1, <1>2, KeepsCurrent, ResetsCurrent
<1>3. ASSUME NEW t \in Thread, Reads(t)
      PROVE  Old(txn[s].dv.id, txn[s].dv.version)' /\ ThreadCurrent(s)'
  <2>1. CASE s # t
    BY <1>2, <1>3, <2>1, ReadsOthers
  <2>2. CASE s = t
    <3>1. CASE \E next \in {"query", "save", "publish"} : Begin(t, next)
      BY <2>2, <3>1, BeginCurrent
    <3>2. ASSUME NEW texts, Goes(t, texts), UNCHANGED <<dv, view, silent>>
          PROVE  Old(txn[s].dv.id, txn[s].dv.version)' /\ ThreadCurrent(s)'
      <4>1. CASE /\ txn'[t].pc = "read"
                 /\ txn'[t].dv = txn[t].dv
                 /\ txn'[t].seen = txn[t].seen
        BY <1>1, <2>2, <3>2, <4>1 DEF Old, Fresh, ThreadCurrent, At
      <4> QED BY <1>2, <2>2, <3>2, <4>1, GoesCurrent
    <3>3. CASE UsePreview(t) \/ DeployPreview(t)
      BY <3>2, <3>3 DEF UsePreview, DeployPreview
    <3>4. CASE ReadViews(t) \/ ReadForEdition(t)
      BY <1>1, <1>2, <2>2, <3>4, ReadViewsCurrent, ReadForEditionCurrent
    <3> QED BY <1>3, <3>1, <3>3, <3>4 DEF Reads
  <2> QED BY <2>1, <2>2
<1> QED BY <1>2, <1>3, NextKeeps

-----------------------------------------------------------------------------
(* The preview VDB.                                                        *)

LEMMA InitCurrent == Init => CurrentInv
<1> SUFFICES ASSUME Init PROVE CurrentInv
  OBVIOUS
<1>1. dv = NoDv /\ preview = NoPreview /\ \A t \in Thread : txn[t] = Idle
  BY DEF Init
<1>2. LabelsOld
  BY <1>1 DEF LabelsOld, Old, NoDv, NoPreview, Idle
<1>3. PreviewCurrent
  BY <1>1 DEF PreviewCurrent
<1>4. \A t \in Thread : ThreadCurrent(t)
  BY <1>1 DEF ThreadCurrent, Fresh, NoDv
<1> QED BY <1>2, <1>3, <1>4 DEF CurrentInv

LEMMA PreviewSteps ==
  ASSUME [Next]_vars
  PROVE  preview' = preview \/ preview' = NoPreview \/ \E t \in Thread : DeployPreview(t)
BY DEF Next, vars, CreateDv, ImportDv, UpdateDv, Edit, RemoveView, ImportViews, ImportViewsFails,
       RevertToEdition, RefreshPreview, Request, Begin, UsePreview,
       ReadViews, SaveView, Upsert, ReadForEdition, CommitEdition, ConflictAtEdition,
       DeleteDv, RemovePreview

LEMMA NextCurrent == TypeInv /\ TypeInv' /\ CurrentInv /\ [Next]_vars => CurrentInv'
<1> SUFFICES ASSUME TypeInv, TypeInv', CurrentInv, [Next]_vars PROVE CurrentInv'
  OBVIOUS
<1>1. \A t \in Thread : Old(txn[t].dv.id, txn[t].dv.version)' /\ ThreadCurrent(t)'
  BY ThreadsCurrent
<1>2. Told
  BY NextTold
<1>3. Old(preview.id, preview.version)' /\ PreviewCurrent'
  <2>1. CASE preview' = preview
    <3>1. /\ Old(preview.id, preview.version)'
          /\ Fresh(preview.id, preview.version)' =>
                Fresh(preview.id, preview.version) /\ Shown(view') = Shown(view)
      <4>1. preview.id \in Nat /\ preview.version \in Nat /\ Old(preview.id, preview.version)
        BY LabelTypes DEF CurrentInv, LabelsOld
      <4>2. dv'.id \in Nat
        BY DEF TypeInv, TypeOK, RowsOK, Dv
      <4> QED BY <1>2, <2>1, <4>1, <4>2, ToldKeepsLabels DEF Old, Fresh
    <3> QED BY <2>1, <3>1 DEF CurrentInv, PreviewCurrent, Fresh
  <2>2. CASE preview' = NoPreview
    <3>1. Old(0, 0)'
      BY DEF TypeInv, TypeOK, RowsOK, IdsOK, Dv, Old
    <3> QED BY <2>2, <3>1 DEF PreviewCurrent, Old, NoPreview
  <2>3. ASSUME NEW t \in Thread, DeployPreview(t)
        PROVE  Old(preview.id, preview.version)' /\ PreviewCurrent'
    <3>1. /\ preview'.id = txn[t].dv.id
          /\ preview'.version = txn[t].dv.version
          /\ preview'.shown = txn[t].texts
          /\ UNCHANGED <<dv, view, silent>>
      BY <2>3 DEF DeployPreview
    <3>2. Old(txn[t].dv.id, txn[t].dv.version) /\ ThreadCurrent(t) /\ At(t, "deploy")
      BY <2>3 DEF CurrentInv, LabelsOld, DeployPreview
    <3> QED BY <3>1, <3>2 DEF Old, PreviewCurrent, ThreadCurrent, Fresh
  <2> QED BY <2>1, <2>2, <2>3, PreviewSteps
<1> QED BY <1>1, <1>3 DEF CurrentInv, LabelsOld

\* A preview VDB that will be taken for up to date is, though it is labelled with
\* a version that was read before the views were, and deployed after that.
THEOREM PreviewsAreCurrent == Spec => []PreviewCurrent
<1>1. Init => TypeInv /\ CurrentInv
  BY InitTypes, InitCurrent
<1>2. TypeInv /\ CurrentInv /\ [Next]_vars => (TypeInv /\ CurrentInv)'
  BY NextTypes, NextCurrent
<1>3. CurrentInv => PreviewCurrent
  BY DEF CurrentInv
<1> QED BY <1>1, <1>2, <1>3, PTL DEF Spec

-----------------------------------------------------------------------------
(* Editions.                                                               *)

LEMMA EditionsSteps ==
  ASSUME [Next]_vars
  PROVE  \/ editions' = editions
         \/ ~dv'.stored /\ \A r \in Revision : editions'[r] = NoEdition
         \/ \E t \in Thread : CommitEdition(t)
BY DEF Next, vars, CreateDv, ImportDv, UpdateDv, Edit, RemoveView, ImportViews, ImportViewsFails,
       RevertToEdition, RefreshPreview, Request, Begin, UsePreview,
       ReadViews, SaveView, Upsert, ReadForEdition, ConflictAtEdition, DeployPreview,
       DeleteDv, NoDv, RemovePreview

\* A new edition is stored beside the others.
LEMMA CommitStep ==
  ASSUME TypeInv, NEW t \in Thread, CommitEdition(t)
  PROVE  LET n == txn[t].revision
         IN  /\ \A r \in Revision \ {n} : editions'[r] = editions[r]
             /\ n \in Revision => editions[n] = NoEdition
             /\ n \in Revision => editions'[n] = [stored |-> TRUE, vdb |-> txn[t].texts,
                                                  export |-> Found(t)]
BY DEF TypeInv, TypeOK, RowsOK, CommitEdition, CanCommit

\* A request that read the virtualization as modified commits only if nothing has
\* changed, so what it has read is what is shown.
LEMMA CommitFresh ==
  ASSUME TypeInv, CurrentInv, NEW t \in Thread, CommitEdition(t),
         txn[t].dv.modified, ~silent
  PROVE  txn[t].texts = Shown(view) /\ Shown(Found(t)) = Shown(view)
<1>1. Fresh(txn[t].dv.id, txn[t].dv.version)
  BY DEF CommitEdition, CanCommit, SameDv, Fresh
<1>2. ThreadCurrent(t) /\ At(t, "commit")
  BY DEF CurrentInv, CommitEdition
<1> QED BY <1>1, <1>2, FoundShown DEF ThreadCurrent

Consistent ==
    \A r \in Revision :
        /\ editions[r] = NoEdition /\ editions'[r] # NoEdition
        /\ dv.modified /\ ~dv'.modified
        /\ ~silent
        => /\ editions'[r].vdb = Shown(view)
           /\ Shown(editions'[r].export) = Shown(view)

LEMMA NextConsistent == TypeInv /\ CurrentInv /\ [Next]_vars => Consistent
<1> SUFFICES ASSUME TypeInv, CurrentInv, [Next]_vars,
                    NEW r \in Revision, editions[r] = NoEdition, editions'[r] # NoEdition,
                    dv.modified, ~dv'.modified, ~silent
             PROVE  /\ editions'[r].vdb = Shown(view)
                    /\ Shown(editions'[r].export) = Shown(view)
  BY DEF Consistent
<1>1. PICK t \in Thread : CommitEdition(t)
  BY EditionsSteps
<1>2. txn[t].revision = r /\ txn[t].dv.modified
  BY <1>1, CommitStep DEF CommitEdition
<1>3. editions'[r] = [stored |-> TRUE, vdb |-> txn[t].texts, export |-> Found(t)]
  BY <1>1, <1>2, CommitStep
<1>4. editions'[r].vdb = txn[t].texts /\ editions'[r].export = Found(t)
  BY <1>3
<1> QED BY <1>1, <1>2, <1>4, CommitFresh

\* The VDB of an edition, its export and the flag of the virtualization agree,
\* though the views are read once for each, in a session that caches rows.
THEOREM EditionsAreConsistent == Spec => EditionsConsistent
<1>1. Init => TypeInv /\ CurrentInv
  BY InitTypes, InitCurrent
<1>2. TypeInv /\ CurrentInv /\ [Next]_vars => (TypeInv /\ CurrentInv)'
  BY NextTypes, NextCurrent
<1>3. TypeInv /\ CurrentInv /\ [Next]_vars => [Consistent]_vars
  BY NextConsistent
<1> QED BY <1>1, <1>2, <1>3, PTL DEF Spec, EditionsConsistent, Consistent

Kept ==
    \A r \in Revision :
        editions[r] # NoEdition /\ dv'.stored => editions'[r] = editions[r]

LEMMA NextKept == TypeInv /\ [Next]_vars => Kept
<1> SUFFICES ASSUME TypeInv, [Next]_vars,
                    NEW r \in Revision, editions[r] # NoEdition, dv'.stored
             PROVE  editions'[r] = editions[r]
  BY DEF Kept
<1> QED BY EditionsSteps, CommitStep

\* An edition that was published stays what it is.
THEOREM EditionsStay == Spec => EditionsAreKept
<1>1. TypeInv /\ [Next]_vars => [Kept]_vars
  BY NextKept
<1> QED BY <1>1, InitTypes, NextTypes, PTL DEF Spec, EditionsAreKept, Kept

-----------------------------------------------------------------------------
(* What is not modified is what was published.                             *)

\* An edition has what is shown.
IsPublished ==
    \E r \in Published : Shown(editions[r].export) = Shown(view)

\* A request that is to commit has a revision.
HasRevision(t) == At(t, "commit") => txn[t].revision \in Revision

LEMMA NextHasRevision ==
  ASSUME TypeInv, [Next]_vars, NEW s \in Thread, HasRevision(s)
  PROVE  HasRevision(s)'
<1>1. CASE Keeps(s) \/ Resets(s)
  BY <1>1 DEF HasRevision, At, Keeps, Resets
<1>2. ASSUME Reads(s) PROVE HasRevision(s)'
  <2>1. CASE \E next \in {"query", "save", "publish"} : Begin(s, next)
    BY <2>1 DEF Begin, Idle, HasRevision, At, TypeInv, TypeOK, ServerOK
  <2>2. CASE UsePreview(s) \/ DeployPreview(s)
    BY <1>1, <2>2, GoesCurrent DEF UsePreview, DeployPreview, HasRevision, At
  <2>3. CASE ReadViews(s) \/ ReadForEdition(s)
    <3>1. CASE End(s)
      BY <1>1, <3>1, EndKeeps
    <3>2. CASE ~End(s)
      <4>1. txn[s] \in Txn
        BY DEF TypeInv, TypeOK, ServerOK
      <4>2. ReadViews(s) => txn'[s].pc = "deploy"
        BY <3>2, <4>1 DEF ReadViews, TypeInv, TypeOK, ServerOK, Txn
      <4>3. ReadForEdition(s) => txn'[s].revision = NextRevision /\ NextRevision \in Revision
        BY <3>2, <4>1 DEF ReadForEdition, TypeInv, TypeOK, ServerOK, Txn
      <4> QED BY <2>3, <4>2, <4>3 DEF HasRevision, At
    <3> QED BY <3>1, <3>2
  <2> QED BY <1>2, <2>1, <2>2, <2>3 DEF Reads
<1> QED BY <1>1, <1>2, NextKeeps, ReadsOthers

LEMMA PublishedKept ==
  ASSUME TypeInv, UnmodifiedIsPublished, UNCHANGED editions,
         dv'.stored = dv.stored, dv'.modified = dv.modified,
         ~silent' => ~silent /\ Shown(view') = Shown(view)
  PROVE  UnmodifiedIsPublished'
BY DEF UnmodifiedIsPublished, Published

LEMMA QuietPublished ==
  ASSUME TypeInv, UnmodifiedIsPublished, UNCHANGED editions,
         Quiet \/ (NoTouch /\ Shown(view') = Shown(view))
  PROVE  UnmodifiedIsPublished'
<1>1. dv' = dv
  BY DEF Quiet, NoTouch
<1>2. ~silent' => ~silent /\ Shown(view') = Shown(view)
  BY DEF Quiet, NoTouch
<1> QED BY <1>1, <1>2, PublishedKept

LEMMA ModifiedPublished ==
  ASSUME dv'.modified
  PROVE  UnmodifiedIsPublished'
BY DEF UnmodifiedIsPublished

LEMMA TouchModified == TypeInv /\ Touch => dv'.modified
<1> SUFFICES ASSUME TypeInv, Touch PROVE dv'.modified
  OBVIOUS
<1>1. dv \in Dv
  BY DEF TypeInv, TypeOK, RowsOK
<1> QED BY <1>1 DEF Touch, Dv

LEMMA CommitPublished ==
  ASSUME TypeInv, TypeInv', CurrentInv, UnmodifiedIsPublished,
         NEW t \in Thread, HasRevision(t), CommitEdition(t)
  PROVE  UnmodifiedIsPublished'
<1> SUFFICES ASSUME dv'.stored, ~dv'.modified, ~silent' PROVE IsPublished'
  BY DEF UnmodifiedIsPublished, IsPublished
<1> DEFINE n == txn[t].revision
<1>1. UNCHANGED <<view, silent>>
  BY DEF CommitEdition
<1>2. dv \in Dv /\ txn[t] \in Txn /\ dv.stored
  BY DEF TypeInv, TypeOK, RowsOK, ServerOK, CommitEdition, CanCommit
<1>3. CASE txn[t].dv.modified
  <2>0. n \in Revision
    BY DEF HasRevision, CommitEdition
  <2>1. editions'[n] = [stored |-> TRUE, vdb |-> txn[t].texts, export |-> Found(t)]
    BY <2>0, CommitStep
  <2>2. editions'[n].export = Found(t) /\ editions'[n].stored
    BY <2>1
  <2>3. editions'[n] # NoEdition
    BY <2>2 DEF NoEdition
  <2>4. Shown(Found(t)) = Shown(view)
    BY <1>1, <1>3, CommitFresh
  <2> QED BY <1>1, <2>0, <2>2, <2>3, <2>4 DEF IsPublished, Published
<1>4. CASE ~txn[t].dv.modified
  <2>1. dv' = dv
    BY <1>4 DEF CommitEdition
  <2>2. PICK r \in Published : Shown(editions[r].export) = Shown(view)
    BY <1>1, <2>1 DEF UnmodifiedIsPublished
  <2>3. r \in Revision /\ editions[r] # NoEdition
    BY DEF Published
  <2>4. editions'[r] = editions[r]
    BY <2>3, CommitStep
  <2> QED BY <1>1, <2>2, <2>3, <2>4 DEF IsPublished, Published
<1> QED BY <1>3, <1>4

\* A revert to an edition without complete views leaves nothing to be shown.
LEMMA RestoredDrafts ==
  ASSUME TypeInv, NEW r \in Revision, RevertToEdition(r),
         ~\E v \in View : editions[r].export[v].complete
  PROVE  Shown(view') = Shown(editions[r].export)
<1> DEFINE rows == editions[r].export
<1>1. \A v \in View : Shows(rows[v]) = Null
  BY DEF Shows, Included
<1>2. ASSUME NEW v \in View PROVE Shows(view'[v]) = Null
  <2>1. view'[v] = Restored(rows[v])
    BY DEF RevertToEdition, RestoreViews
  <2>2. CASE rows[v] = NoView
    BY <2>1, <2>2 DEF Restored, Shows, Included, NoView
  <2>3. CASE rows[v] # NoView
    <3>1. rows[v] \in Row
      BY <2>3, EditionHasDv DEF RevertToEdition, Edition, Views
    <3>2. view'[v] = [rows[v] EXCEPT !.parsable = rows[v].complete /\ rows[v].ddl \in Good]
      BY <2>1, <2>3 DEF Restored
    <3>3. view'[v].complete = rows[v].complete
      BY <3>1, <3>2 DEF Row
    <3> QED BY <3>3 DEF Shows, Included
  <2> QED BY <2>2, <2>3
<1> QED BY <1>1, <1>2, SameShown

LEMMA RevertToEditionPublished ==
  ASSUME TypeInv, TypeInv', NEW r \in Revision, RevertToEdition(r)
  PROVE  UnmodifiedIsPublished'
<1> DEFINE rows == editions[r].export
           touched == \E v \in View : rows[v].complete
<1>1. dv \in Dv
  BY DEF TypeInv, TypeOK, RowsOK
<1>2. CASE touched
  <2>1. PICK dirty \in BOOLEAN : Restore(touched, dirty)
    BY DEF RevertToEdition
  <2>2. dv'.modified = touched
    BY <1>1, <2>1 DEF Restore, Dv
  <2> QED BY <1>2, <2>2, ModifiedPublished
<1>3. CASE ~touched
  <2>1. Shown(rows) = Shown(view')
    BY <1>3, RestoredDrafts
  <2>2. r \in Published' /\ editions' = editions
    BY DEF RevertToEdition, Published
  <2> QED BY <2>1, <2>2 DEF UnmodifiedIsPublished
<1> QED BY <1>2, <1>3

PublishedInv == UnmodifiedIsPublished /\ \A t \in Thread : HasRevision(t)

LEMMA NextPublished ==
  TypeInv /\ TypeInv' /\ CurrentInv /\ PublishedInv /\ [Next]_vars => PublishedInv'
<1> SUFFICES ASSUME TypeInv, TypeInv', CurrentInv, PublishedInv, [Next]_vars
             PROVE  UnmodifiedIsPublished'
  BY NextHasRevision DEF PublishedInv
<1> USE DEF PublishedInv
<1>1. CASE UNCHANGED <<dv, view, editions, silent>>
  BY <1>1, PublishedKept
<1>2. CASE NewDv
  BY <1>2, ModifiedPublished DEF NewDv
<1>3. CASE UpdateDv
  BY <1>3, TouchModified, ModifiedPublished DEF UpdateDv
<1>4. CASE Edit
  <2>1. UNCHANGED editions
    BY <1>4 DEF Edit, RemoveView, ImportViews, ImportViewsFails
  <2> QED BY <1>4, <2>1, EditTold, TouchModified, ModifiedPublished, QuietPublished
<1>5. ASSUME NEW r \in Revision, RevertToEdition(r) PROVE UnmodifiedIsPublished'
  BY <1>5, RevertToEditionPublished
<1>6. ASSUME NEW t \in Thread, NEW v \in View, NEW sent \in Sent, SaveView(t, v, sent)
      PROVE  UnmodifiedIsPublished'
  <2>1. Upsert(v, sent) /\ UNCHANGED editions
    BY <1>6 DEF SaveView, Upsert
  <2> QED BY <2>1, UpsertTold, TouchModified, ModifiedPublished, QuietPublished
<1>7. ASSUME NEW t \in Thread, DeleteDv(t) PROVE UnmodifiedIsPublished'
  <2>1. ~dv'.stored
    BY <1>7 DEF DeleteDv, NoDv
  <2> QED BY <2>1 DEF UnmodifiedIsPublished
<1>8. ASSUME NEW t \in Thread, Request(t) PROVE UnmodifiedIsPublished'
  BY <1>1, <1>6, <1>7, <1>8, CommitPublished
     DEF Request, Begin, UsePreview, ReadViews, DeployPreview, ReadForEdition,
         ConflictAtEdition, RemovePreview
<1> QED BY <1>1, <1>2, <1>3, <1>4, <1>5, <1>8 DEF Next, CreateDv, ImportDv, RefreshPreview, vars

LEMMA InitPublished == Init => PublishedInv
BY DEF Init, NoDv, Idle, UnmodifiedIsPublished, PublishedInv, HasRevision, At

\* A virtualization that claims to be unmodified can be had back from an edition.
THEOREM UnmodifiedStaysPublished == Spec => []UnmodifiedIsPublished
<1>1. Init => TypeInv /\ CurrentInv /\ PublishedInv
  BY InitTypes, InitCurrent, InitPublished
<1>2. TypeInv /\ CurrentInv /\ PublishedInv /\ [Next]_vars
        => (TypeInv /\ CurrentInv /\ PublishedInv)'
  BY NextTypes, NextCurrent, NextPublished
<1>3. PublishedInv => UnmodifiedIsPublished
  BY DEF PublishedInv
<1> QED BY <1>1, <1>2, <1>3, PTL DEF Spec

-----------------------------------------------------------------------------
(* The flag of a virtualization does not change behind its version.        *)

Flagged(t) == dv.stored /\ SameDv(t) => dv.modified = txn[t].dv.modified

FlagInv == \A t \in Thread : Flagged(t)

\* Whatever is done to a row that stays, does nothing or makes a new version.
Versioned ==
    \/ dv' = dv
    \/ dv'.id = dv.id /\ dv.stored /\ dv'.stored /\ dv'.version = dv.version + 1
    \/ dv'.id = dv.id /\ ~dv'.stored
    \/ dv'.id = dv.id + 1

LEMMA TouchVersioned == TypeInv /\ dv.stored /\ Touch => Versioned
<1> SUFFICES ASSUME TypeInv, dv.stored, Touch PROVE Versioned
  OBVIOUS
<1>1. dv \in Dv
  BY DEF TypeInv, TypeOK, RowsOK
<1> QED BY <1>1 DEF Touch, Dv, Versioned

\* A revert that does not write the row finds it unmodified and leaves it so.
LEMMA RevertVersioned ==
  ASSUME TypeInv, NEW r \in Revision, RevertToEdition(r)
  PROVE  Versioned
<1> DEFINE touched == \E v \in View : editions[r].export[v].complete
<1>1. dv \in Dv /\ dv.stored
  BY EditionHasDv DEF RevertToEdition, TypeInv, TypeOK, RowsOK
<1>2. PICK dirty \in BOOLEAN : (dv.modified => dirty) /\ Restore(touched, dirty)
  BY DEF RevertToEdition
<1>3. dv' = [dv EXCEPT !.version = IF dirty \/ touched THEN @ + 1 ELSE @,
                       !.modified = touched]
  BY <1>2 DEF Restore
<1>4. touched \in BOOLEAN
  OBVIOUS
<1> HIDE DEF touched
<1>5. CASE dirty \/ touched
  <2>1. dv'.id = dv.id /\ dv'.stored = dv.stored /\ dv'.version = dv.version + 1
    BY <1>1, <1>3, <1>5 DEF Dv
  <2> QED BY <1>1, <2>1 DEF Versioned
<1>6. CASE ~dirty /\ ~touched
  <2>1. dv.modified = touched
    BY <1>1, <1>2, <1>4, <1>6 DEF Dv
  <2>2. dv' = [dv EXCEPT !.version = dv.version, !.modified = dv.modified]
    BY <1>3, <1>6, <2>1
  <2>3. dv' = dv
    BY <1>1, <2>2 DEF Dv
  <2> QED BY <2>3 DEF Versioned
<1> QED BY <1>4, <1>5, <1>6

LEMMA NextVersioned == TypeInv /\ [Next]_vars => Versioned
<1> SUFFICES ASSUME TypeInv, [Next]_vars PROVE Versioned
  OBVIOUS
<1>1. dv' = dv => Versioned
  BY DEF Versioned
<1>2. NewDv => Versioned
  BY DEF NewDv, Versioned
<1>3. UpdateDv => Versioned
  BY TouchVersioned DEF UpdateDv
<1>4. Edit => Versioned
  BY <1>1, EditTold, TouchVersioned DEF Quiet, NoTouch
<1>5. ASSUME NEW r \in Revision, RevertToEdition(r) PROVE Versioned
  BY <1>5, RevertVersioned
<1>6. ASSUME NEW t \in Thread, DeleteDv(t) PROVE Versioned
  <2>1. dv'.id = dv.id /\ ~dv'.stored
    BY <1>6 DEF DeleteDv, NoDv
  <2> QED BY <2>1 DEF Versioned
<1>7. ASSUME NEW t \in Thread, CommitEdition(t) PROVE Versioned
  <2>1. dv \in Dv
    BY DEF TypeInv, TypeOK, RowsOK
  <2>2. CASE dv' = [dv EXCEPT !.version = @ + 1, !.modified = FALSE]
    BY <1>7, <2>1, <2>2 DEF CommitEdition, CanCommit, Dv, Versioned
  <2> QED BY <1>1, <1>7, <2>2 DEF CommitEdition
<1>8. ASSUME NEW t \in Thread, NEW v \in View, NEW sent \in Sent, SaveView(t, v, sent)
      PROVE  Versioned
  BY <1>1, <1>8, UpsertTold, TouchVersioned DEF SaveView, Quiet, NoTouch
<1>9. ASSUME NEW t \in Thread, Request(t) PROVE Versioned
  BY <1>1, <1>6, <1>7, <1>8, <1>9
     DEF Request, Begin, UsePreview, ReadViews, DeployPreview, ReadForEdition,
         ConflictAtEdition, RemovePreview
<1> QED BY <1>1, <1>2, <1>3, <1>4, <1>5, <1>9 DEF Next, CreateDv, ImportDv, RefreshPreview, vars

\* A request knows of the virtualization what was true when it began.
LEMMA TxnDv ==
  ASSUME TypeInv, [Next]_vars, NEW s \in Thread
  PROVE  txn'[s].dv \in {txn[s].dv, NoDv} \/ (txn'[s].dv = dv /\ dv' = dv)
<1>1. CASE Keeps(s) \/ Resets(s)
  BY <1>1 DEF Keeps, Resets
<1>2. ASSUME Reads(s)
      PROVE  txn'[s].dv \in {txn[s].dv, NoDv} \/ (txn'[s].dv = dv /\ dv' = dv)
  <2>1. CASE \E next \in {"query", "save", "publish"} : Begin(s, next)
    BY <2>1 DEF Begin, Idle, TypeInv, TypeOK, ServerOK
  <2>2. CASE UsePreview(s) \/ DeployPreview(s)
    BY <1>1, <2>2, GoesCurrent DEF UsePreview, DeployPreview
  <2>3. CASE ReadViews(s) \/ ReadForEdition(s)
    <3>1. CASE End(s)
      BY <1>1, <3>1, EndKeeps
    <3>2. CASE ~End(s)
      <4>1. txn[s] \in Txn
        BY DEF TypeInv, TypeOK, ServerOK
      <4>2. txn'[s].dv = txn[s].dv
        BY <2>3, <3>2, <4>1 DEF ReadViews, ReadForEdition, TypeInv, TypeOK, ServerOK, Txn
      <4> QED BY <4>2
    <3> QED BY <3>1, <3>2
  <2> QED BY <1>2, <2>1, <2>2, <2>3 DEF Reads
<1> QED BY <1>1, <1>2, NextKeeps, ReadsOthers

LEMMA NextFlagged == TypeInv /\ TypeInv' /\ CurrentInv /\ FlagInv /\ [Next]_vars => FlagInv'
<1> SUFFICES ASSUME TypeInv, TypeInv', CurrentInv, FlagInv, [Next]_vars, NEW s \in Thread,
                    dv'.stored, dv'.id = txn'[s].dv.id, dv'.version = txn'[s].dv.version
             PROVE  dv'.modified = txn'[s].dv.modified
  BY DEF FlagInv, Flagged, SameDv
<1>1. CASE txn'[s].dv = txn[s].dv
  <2>1. Old(txn[s].dv.id, txn[s].dv.version) /\ Flagged(s)
    BY DEF CurrentInv, LabelsOld, FlagInv
  <2>2. dv' = dv
    BY <1>1, <2>1, NextVersioned, LabelTypes DEF Versioned, Old
  <2> QED BY <1>1, <2>1, <2>2 DEF Flagged, SameDv
<1>2. CASE txn'[s].dv = NoDv
  BY <1>2 DEF TypeInv, TypeOK, RowsOK, IdsOK, Dv, NoDv
<1>3. CASE txn'[s].dv = dv /\ dv' = dv
  BY <1>3
<1> QED BY <1>1, <1>2, <1>3, TxnDv

-----------------------------------------------------------------------------
(* EditionHistory: to publish is one step.                                 *)

USE DEF Editions!historyVars

LEMMA HistorySame ==
  ASSUME UNCHANGED editions
  PROVE  [r \in Published |-> Had(editions[r])]' = [r \in Published |-> Had(editions[r])]
BY DEF Published, Had

LEMMA CommitHistory ==
  ASSUME TypeInv, CurrentInv, FlagInv, NEW t \in Thread, HasRevision(t), CommitEdition(t)
  PROVE  Editions!HistoryNext
<1> DEFINE n   == txn[t].revision
           old == [r \in Published |-> Had(editions[r])]
           new == [vdb |-> txn[t].texts, export |-> Shown(Found(t))]
<1>1. n \in Revision /\ dv \in Dv /\ dv.stored
  BY DEF HasRevision, CommitEdition, CanCommit, TypeInv, TypeOK, RowsOK
<1>2. /\ editions[n] = NoEdition
      /\ \A r \in Revision \ {n} : editions'[r] = editions[r]
      /\ editions'[n] = [stored |-> TRUE, vdb |-> txn[t].texts, export |-> Found(t)]
  BY <1>1, CommitStep
<1>3. editions'[n] # NoEdition
  <2>1. editions'[n].stored /\ ~NoEdition.stored
    BY <1>2 DEF NoEdition
  <2> QED BY <2>1
<1>4. n \notin Published /\ Published' = Published \union {n}
  BY <1>1, <1>2, <1>3 DEF Published
<1>5. old'[n] = new
  BY <1>2, <1>4 DEF Had
<1>6. \A r \in Published : old'[r] = old[r]
  BY <1>2, <1>4 DEF Published, Had
<1>7. DOMAIN old = Published /\ DOMAIN old' = Published'
  OBVIOUS
<1> HIDE DEF old
<1>8. Editions!Adds(n)
  BY <1>4, <1>6, <1>7 DEF Editions!Adds, old
<1>9. UNCHANGED <<view, silent>>
  BY DEF CommitEdition
<1>10. CASE txn[t].dv.modified
  <2>1. dv.modified
    BY <1>1, <1>10 DEF FlagInv, Flagged, CommitEdition, CanCommit
  <2>2. dv'.stored = dv.stored /\ ~dv'.modified
    BY <1>1, <1>10 DEF CommitEdition, Dv
  <2>3. ~silent => old'[n] = [vdb |-> Shown(view), export |-> Shown(view)]
    BY <1>5, <1>10, CommitFresh
  <2>4. Editions!Publish(n)
    BY <1>1, <1>8, <1>9, <2>1, <2>2, <2>3 DEF Editions!Publish, old
  <2> QED BY <1>1, <2>4 DEF Editions!HistoryNext
<1>11. CASE ~txn[t].dv.modified
  <2>1. dv' = dv
    BY <1>11 DEF CommitEdition
  <2>2. Editions!Republish(n)
    BY <1>1, <1>8, <1>9, <2>1 DEF Editions!Republish
  <2> QED BY <1>1, <2>2 DEF Editions!HistoryNext
<1> QED BY <1>10, <1>11

\* A revert that leaves the virtualization unmodified has restored drafts only.
LEMMA RevertHistory ==
  ASSUME TypeInv, TypeInv', NEW r \in Revision, RevertToEdition(r)
  PROVE  Editions!HistoryNext
<1> DEFINE rows == editions[r].export
           touched == \E v \in View : rows[v].complete
<1>1. /\ dv \in Dv /\ dv.stored /\ editions[r] \in Edition
      /\ r \in Published /\ UNCHANGED editions
  BY EditionHasDv DEF RevertToEdition, TypeInv, TypeOK, RowsOK
<1>2. PICK dirty \in BOOLEAN : Restore(touched, dirty)
  BY DEF RevertToEdition
<1>3. dv'.stored = dv.stored /\ dv'.modified = touched
  BY <1>1, <1>2 DEF Restore, Dv
<1>4. silent' => silent \/ Shown(view') # Shown(view)
  BY <1>2 DEF Restore
<1>5. ~touched => Shown(view') = Shown(rows)
  BY RestoredDrafts
<1>6. [q \in Published |-> Had(editions[q])][r].export = Shown(rows)
  BY <1>1 DEF Had
<1>7. Editions!Revert(r)
  BY <1>1, <1>3, <1>4, <1>5, <1>6, HistorySame DEF Editions!Revert
<1> QED BY <1>7 DEF Editions!HistoryNext

\* What is edited is told, or drifts, or shows the same.
LEMMA EditHistory ==
  ASSUME TypeInv, UNCHANGED editions, dv.stored,
         Touch \/ Quiet \/ (NoTouch /\ Shown(view') = Shown(view))
  PROVE  [Editions!HistoryNext]_(Editions!historyVars)
<1>1. dv \in Dv
  BY DEF TypeInv, TypeOK, RowsOK
<1>2. CASE Touch
  <2>1. Editions!Edit
    BY <1>1, <1>2, HistorySame DEF Editions!Edit, Touch, Dv
  <2> QED BY <2>1 DEF Editions!HistoryNext
<1>3. CASE Quiet
  <2>1. Editions!Drift
    BY <1>3, HistorySame DEF Editions!Drift, Quiet
  <2> QED BY <2>1 DEF Editions!HistoryNext
<1>4. CASE NoTouch /\ Shown(view') = Shown(view)
  BY <1>4, HistorySame DEF NoTouch
<1> QED BY <1>2, <1>3, <1>4

LEMMA NextHistory ==
  ASSUME TypeInv, TypeInv', CurrentInv, PublishedInv, FlagInv, [Next]_vars
  PROVE  [Editions!HistoryNext]_(Editions!historyVars)
<1>1. CASE UNCHANGED <<dv, view, editions, silent>>
  BY <1>1, HistorySame
<1>2. CASE NewDv /\ UNCHANGED <<editions, silent>>
  <2>1. Editions!Create
    BY <1>2, HistorySame DEF Editions!Create, NewDv
  <2> QED BY <2>1 DEF Editions!HistoryNext
<1>3. CASE UpdateDv
  BY <1>3, EditHistory DEF UpdateDv
<1>4. CASE Edit
  <2>1. UNCHANGED editions
    BY <1>4 DEF Edit, RemoveView, ImportViews, ImportViewsFails
  <2>2. dv.stored \/ (view' = view /\ NoTouch)
    <3>1. ASSUME NEW done \in SUBSET View, NEW v \in View, ImportViewsFails(done, v)
          PROVE  dv.stored
      BY <3>1, ViewHasDv DEF ImportViewsFails
    <3> QED BY <1>4, <3>1, ViewHasDv DEF Edit, RemoveView, ImportViews
  <2> QED BY <1>1, <1>4, <2>1, <2>2, EditTold, EditHistory DEF NoTouch
<1>5. ASSUME NEW r \in Revision, RevertToEdition(r)
      PROVE  [Editions!HistoryNext]_(Editions!historyVars)
  BY <1>5, RevertHistory
<1>6. ASSUME NEW t \in Thread, NEW v \in View, NEW sent \in Sent, SaveView(t, v, sent)
      PROVE  [Editions!HistoryNext]_(Editions!historyVars)
  <2>1. Upsert(v, sent) /\ dv.stored /\ UNCHANGED editions
    BY <1>6 DEF SaveView, Upsert
  <2> QED BY <2>1, UpsertTold, EditHistory
<1>7. ASSUME NEW t \in Thread, DeleteDv(t)
      PROVE  [Editions!HistoryNext]_(Editions!historyVars)
  <2>1. dv.stored /\ ~dv'.stored /\ Published' = {}
    BY <1>7 DEF DeleteDv, NoDv, Published
  <2>2. Editions!Delete
    BY <2>1 DEF Editions!Delete
  <2> QED BY <2>2 DEF Editions!HistoryNext
<1>8. ASSUME NEW t \in Thread, CommitEdition(t)
      PROVE  [Editions!HistoryNext]_(Editions!historyVars)
  BY <1>8, CommitHistory DEF PublishedInv
<1>9. ASSUME NEW t \in Thread, Request(t)
      PROVE  [Editions!HistoryNext]_(Editions!historyVars)
  BY <1>1, <1>6, <1>7, <1>8, <1>9
     DEF Request, Begin, UsePreview, ReadViews, DeployPreview, ReadForEdition,
         ConflictAtEdition, RemovePreview
<1> QED BY <1>1, <1>2, <1>3, <1>4, <1>5, <1>9 DEF Next, CreateDv, ImportDv, RefreshPreview, vars

\* Requests that read the virtualization, its views and its editions at different
\* times implement a server that publishes all at once.
THEOREM PublishingIsAtomic == Spec => PublishesAtomically
<1>1. Init => Editions!HistoryInit
  BY DEF Init, Editions!HistoryInit, NoDv, Published
<1>2. Init => TypeInv /\ CurrentInv /\ PublishedInv /\ FlagInv
  <2>1. Init => FlagInv
    BY DEF Init, FlagInv, Flagged, NoDv
  <2> QED BY <2>1, InitTypes, InitCurrent, InitPublished
<1>3. TypeInv /\ CurrentInv /\ PublishedInv /\ FlagInv /\ [Next]_vars
        => (TypeInv /\ CurrentInv /\ PublishedInv /\ FlagInv)'
  BY NextTypes, NextCurrent, NextPublished, NextFlagged
<1>4. TypeInv /\ TypeInv' /\ CurrentInv /\ PublishedInv /\ FlagInv /\ [Next]_vars
        => [Editions!HistoryNext]_(Editions!historyVars)
  BY NextHistory
<1> QED BY <1>1, <1>2, <1>3, <1>4, PTL DEF Spec, PublishesAtomically, Editions!History
=============================================================================
