-------------------------- MODULE SourceVdbsProofs --------------------------
(***************************************************************************)
(* Type correctness of SourceVdbs, proved for any number of connections,   *)
(* names, threads, load VDBs, virtualizations, changes, faults, restarts.  *)
(***************************************************************************)
EXTENDS SourceVdbs, FiniteSetTheorems, SequenceTheorems, TLAPS

USE SourceVdbsAssumption DEF worldVars, vdbVars, refreshVars, serverVars, bounds

AnyVdb  == Vdb \union {NoVdb}
AnyRow  == RowTexts \union {NoRow}
AnyJob  == Job \union {NoJob}
AnyCall == Call \union Other \union {Idle, Refreshing("snapshot"), Refreshing("previews")}

\* TypeOK, conjunct by conjunct.  A restart queues every connection there is, so
\* there must be an end to them.
TypeInv ==
    /\ reports \in [Conn -> 0..MaxMetadata]
    /\ made \subseteq Conn /\ IsFiniteSet(made) /\ gone \subseteq made
    /\ ds \in [Name -> Conn \union {Null}]
    /\ ddl \in [Conn -> AnyRow]
    /\ conn \in [Name -> AnyVdb]
    /\ load \in [Name -> Load \union {Null}]
    /\ preview \in [Dv -> 0..2 \union {Null}]
    /\ master \in [Name -> AnyVdb]
    /\ masterUp \in BOOLEAN
    /\ job \in [Load -> AnyJob]
    /\ current \subseteq Load
    /\ queue \in Seq(Task)
    /\ call \in [Actor -> AnyCall]
    /\ imports \subseteq Name
    /\ doomed \subseteq Dv
    /\ inputs \in 0..MaxInputs /\ faults \in 0..MaxFaults /\ restarts \in 0..MaxRestarts

LEMMA TypeInvImplies == TypeInv => TypeOK
BY DEF TypeInv, TypeOK, StoreOK, VdbsOK, ThreadsOK, BoundsOK, AnyVdb, AnyRow, AnyJob, AnyCall

-----------------------------------------------------------------------------
(* Records and the queue.                                                  *)

LEMMA AppendTask ==
  ASSUME NEW s \in Seq(Task), NEW m \in Task
  PROVE  Append(s, m) \in Seq(Task)
OBVIOUS

LEMMA TailTask ==
  ASSUME NEW s \in Seq(Task), s # <<>>
  PROVE  Head(s) \in Task /\ Tail(s) \in Seq(Task)
OBVIOUS

LEMMA TaskTypes ==
  /\ \A kind \in {"add", "update", "delete", "remove", "replace"}, c \in Conn :
        [kind |-> kind, conn |-> c] \in Task
  /\ [kind |-> "refresh", conn |-> Null] \in Task
  /\ \A m \in Task : m.kind # "refresh" => m.conn \in Conn
BY DEF Task

LEMMA EnqueueTypes ==
  ASSUME queue \in Seq(Task), NEW kind, NEW c, Enqueue(kind, c),
         \/ kind \in {"add", "update", "delete", "remove", "replace"} /\ c \in Conn
         \/ kind = "refresh" /\ c = Null
  PROVE  queue' \in Seq(Task)
<1>1. [kind |-> kind, conn |-> c] \in Task
  BY TaskTypes
<1> QED BY <1>1, AppendTask DEF Enqueue

LEMMA RowTextTypes ==
  /\ Unloaded \in RowTexts /\ RowTexts \subseteq AnyRow
  /\ \A text \in AnyRow : text # NoRow => text \in RowTexts
  /\ \A text \in RowTexts : text # Unloaded => text \in Ddl
  /\ NoRow \notin RowTexts
BY DEF RowTexts, AnyRow, Ddl, NoRow, Unloaded

LEMMA ServedType ==
  ASSUME TypeInv, NEW c \in Conn
  PROVE  Served(c) \in Vdb /\ Served(c).of = c
<1>1. ddl[c] \in AnyRow
  BY DEF TypeInv
<1>2. ddl[c] \notin {NoRow, Unloaded} => ddl[c].version \in 0..MaxMetadata
  BY <1>1, RowTextTypes DEF Ddl
<1> QED BY <1>2 DEF Served, Vdb

LEMMA IdleTypes ==
  Idle \in AnyCall /\ Refreshing("snapshot") \in AnyCall /\ Refreshing("previews") \in AnyCall
BY DEF AnyCall

LEMMA DeployTypes ==
  ASSUME NEW c \in Conn, NEW mode \in Mode
  PROVE  /\ Deploy(c, mode) \in Call
         /\ [Deploy(c, mode) EXCEPT !.pc = "create"] \in Other
         /\ [Deploy(c, mode) EXCEPT !.pc = "drop"] \in Other
BY RowTextTypes DEF Deploy, Call, Other

LEMMA CallFields ==
  ASSUME NEW k \in AnyCall
  PROVE  /\ k.pc \in {"row", "check", "deploy"} => k \in Call
         /\ k.pc \in {"create", "drop"} => k \in Other
         /\ k.pc \in {"row", "check", "deploy", "create", "drop"} => k.conn \in Conn
BY DEF AnyCall, Call, Other, Idle, Refreshing

\* A thread that is in a method is there for a connection, and its data source.
LEMMA CallHasConn ==
  ASSUME TypeInv, NEW a \in Actor,
         NEW pc \in {"row", "check", "deploy", "create", "drop"}, At(a, pc)
  PROVE  /\ call[a] \in AnyCall /\ call[a].conn \in Conn /\ NameOf(a) \in Name
         /\ pc \in {"row", "check", "deploy"} => call[a] \in Call
<1>1. call[a] \in AnyCall
  BY DEF TypeInv
<1> QED BY <1>1, CallFields DEF At, NameOf

LEMMA ReturnTypes ==
  ASSUME TypeInv, NEW a \in Actor, Return(a)
  PROVE  call' \in [Actor -> AnyCall]
BY IdleTypes DEF TypeInv, Return

LEMMA BecomeTypes ==
  ASSUME TypeInv, NEW c \in AnyCall, Become(c)
  PROVE  call' \in [Actor -> AnyCall]
BY DEF TypeInv, Become, Actor

\* The thread of a load VDB that has not ended.
LEMMA JobHasConn ==
  ASSUME TypeInv, NEW l \in Load,
         NEW pc \in {"loading", "finished", "read", "commit", "stuck"}, JobAt(l, pc)
  PROVE  job[l] \in Job /\ job[l].conn \in Conn /\ JobName(l) \in Name /\ job[l].ddl \in RowTexts
<1>1. job[l] \in Job
  BY DEF TypeInv, JobAt, AnyJob, NoJob
<1> QED BY <1>1 DEF Job, JobName

LEMMA JobEndsTypes ==
  ASSUME TypeInv, NEW l \in Load, JobEnds(l)
  PROVE  job' \in [Load -> AnyJob] /\ current' \subseteq Load
BY DEF TypeInv, JobEnds, AnyJob

LEMMA JobGoesTypes ==
  ASSUME TypeInv, NEW l \in Load, job[l] \in Job,
         NEW pc \in {"loading", "finished", "read", "commit", "stuck"}, JobGoes(l, pc)
  PROVE  job' \in [Load -> AnyJob]
<1>1. [job[l] EXCEPT !.pc = pc] \in Job
  BY DEF Job
<1> QED BY <1>1 DEF TypeInv, JobGoes, AnyJob

LEMMA BoundTypes ==
  ASSUME TypeInv, Input \/ Fault \/ NoFault
  PROVE  inputs' \in 0..MaxInputs /\ faults' \in 0..MaxFaults /\ restarts' \in 0..MaxRestarts
BY DEF TypeInv, Input, Fault, NoFault

-----------------------------------------------------------------------------
(* The initial state, and what happens outside.                            *)

LEMMA InitTypes == Init => TypeInv
<1> SUFFICES ASSUME Init PROVE TypeInv
  OBVIOUS
<1>1. <<>> \in Seq(Task)
  BY EmptySeq
<1>2. IsFiniteSet({})
  BY FS_EmptySet
<1>3. masterUp \in BOOLEAN
  BY DEF Init
<1>4. inputs \in 0..MaxInputs /\ faults \in 0..MaxFaults /\ restarts \in 0..MaxRestarts
  BY DEF Init
<1> QED BY <1>1, <1>2, <1>3, <1>4, IdleTypes DEF TypeInv, Init, AnyRow, AnyVdb, NoVdb, AnyJob

LEMMA WorldTypes == TypeInv /\ World => TypeInv'
<1> SUFFICES ASSUME TypeInv, World PROVE TypeInv'
  OBVIOUS
<1>1. PICK c \in Conn : ChangeSource(c) \/ Connect(c) \/ Update(c) \/ Disconnect(c)
  BY DEF World
<1>2. UNCHANGED serverVars /\ Input
  BY <1>1 DEF World, ChangeSource, Connect, Update, Disconnect
<1>3. queue' \in Seq(Task)
  BY <1>1, EnqueueTypes DEF TypeInv, ChangeSource, Connect, Update, Disconnect
<1>4. reports' \in [Conn -> 0..MaxMetadata]
  BY <1>1 DEF TypeInv, ChangeSource, Connect, Update, Disconnect
<1>5. made' \subseteq Conn /\ gone' \subseteq made'
  BY <1>1 DEF TypeInv, ChangeSource, Connect, Update, Disconnect
<1>6. IsFiniteSet(made')
  <2>1. made' = made \/ made' = made \union {c}
    BY <1>1 DEF ChangeSource, Connect, Update, Disconnect
  <2>2. IsFiniteSet(made)
    BY DEF TypeInv
  <2> QED BY <2>1, <2>2, FS_AddElement
<1> QED BY <1>2, <1>3, <1>4, <1>5, <1>6, BoundTypes DEF TypeInv

LEMMA SynchronizeTypes ==
  ASSUME TypeInv, NEW c \in Conn, Synchronize(c)
  PROVE  TypeInv'
<1>1. queue' \in Seq(Task)
  BY EnqueueTypes DEF TypeInv, Synchronize
<1> QED BY <1>1, BoundTypes DEF TypeInv, Synchronize

LEMMA RequestsTypes == TypeInv /\ Requests => TypeInv'
<1> SUFFICES ASSUME TypeInv, Requests PROVE TypeInv'
  OBVIOUS
<1>1. ASSUME NEW a \in Rest, NEW n \in Name, RefreshSchema(a, n) \/ FindSchemaModel(a, n)
      PROVE  Input /\ UNCHANGED preview /\ call' \in [Actor -> AnyCall]
  <2>1. ds[n] \in Conn
    BY <1>1 DEF TypeInv, RefreshSchema, FindSchemaModel
  <2>2. Deploy(ds[n], "refresh") \in AnyCall /\ Deploy(ds[n], "reuse") \in AnyCall
    BY <2>1, DeployTypes DEF Mode, AnyCall
  <2> QED BY <1>1, <2>2 DEF TypeInv, RefreshSchema, FindSchemaModel, Actor
<1>2. ASSUME NEW d \in Dv, UpdatePreviewVdb(d)
      PROVE  Input /\ UNCHANGED call /\ preview' \in [Dv -> 0..2 \union {Null}]
  BY <1>2 DEF TypeInv, UpdatePreviewVdb
<1> QED BY <1>1, <1>2, BoundTypes DEF TypeInv, Requests

-----------------------------------------------------------------------------
(* doDeploySourceVdb.                                                      *)

LEMMA ReadRowTypes ==
  ASSUME TypeInv, NEW a \in Actor, ReadRow(a)
  PROVE  call' \in [Actor -> AnyCall]
<1>1. CASE Return(a)
  BY <1>1, ReturnTypes
<1>2. CASE ~Return(a)
  <2> DEFINE text == IF call[a].mode = "refresh" THEN Unloaded ELSE ddl[call[a].conn]
             read == [call[a] EXCEPT !.pc = "check", !.text = text]
  <2>1. call[a] \in Call /\ call[a].conn \in Conn
    BY CallHasConn DEF ReadRow
  <2>2. text \in RowTexts
    <3>1. ddl[call[a].conn] \in RowTexts
      BY <1>2, <2>1, RowTextTypes DEF ReadRow, TypeInv
    <3> QED BY <3>1, RowTextTypes
  <2>3. read \in Call
    BY <2>1, <2>2 DEF Call
  <2>4. call' = [call EXCEPT ![a] = read]
    BY <1>2, <2>1 DEF ReadRow, TypeInv
  <2> QED BY <2>3, <2>4 DEF TypeInv, AnyCall
<1> QED BY <1>1, <1>2

LEMMA DeployLoadVdbTypes ==
  ASSUME TypeInv, NEW a \in Actor, DeployLoadVdb(a)
  PROVE  /\ load' \in [Name -> Load \union {Null}]
         /\ job' \in [Load -> AnyJob]
         /\ call' \in [Actor -> AnyCall]
<1>1. call[a].conn \in Conn /\ NameOf(a) \in Name
  BY CallHasConn DEF DeployLoadVdb
<1>2. CASE load' = [load EXCEPT ![NameOf(a)] = Null] /\ UNCHANGED job
  BY <1>2, ReturnTypes DEF DeployLoadVdb, TypeInv
<1>3. CASE \E l \in Load : job[l] = NoJob
  <2> DEFINE l == CHOOSE k \in Load : job[k] = NoJob
             new == [NoJob EXCEPT !.pc = "loading", !.conn = call[a].conn]
  <2>1. l \in Load
    BY <1>3
  <2>2. new \in Job
    BY <1>1, RowTextTypes DEF Job, NoJob
  <2>3. \/ load' = [load EXCEPT ![NameOf(a)] = l] /\ job' = [job EXCEPT ![l] = new]
        \/ load' = [load EXCEPT ![NameOf(a)] = Null] /\ UNCHANGED job
    BY DEF DeployLoadVdb
  <2> HIDE DEF l, new
  <2>4. call' \in [Actor -> AnyCall]
    BY ReturnTypes DEF DeployLoadVdb
  <2>5. CASE load' = [load EXCEPT ![NameOf(a)] = l] /\ job' = [job EXCEPT ![l] = new]
    BY <1>1, <2>1, <2>2, <2>4, <2>5 DEF TypeInv, AnyJob
  <2> QED BY <1>2, <2>3, <2>5
<1> QED BY <1>2, <1>3 DEF DeployLoadVdb

LEMMA UndeployFailedTypes ==
  ASSUME TypeInv, NEW a \in Actor, UndeployFailed(a)
  PROVE  /\ conn' \in [Name -> AnyVdb]
         /\ queue' \in Seq(Task)
         /\ call' \in [Actor -> AnyCall]
BY EnqueueTypes, ReturnTypes DEF UndeployFailed, TypeInv, AnyVdb

LEMMA UndeployConnVdbTypes ==
  ASSUME TypeInv, NEW a \in Actor, UndeployConnVdb(a)
  PROVE  conn' \in [Name -> AnyVdb] /\ call' \in [Actor -> AnyCall]
<1>1. CASE Return(a)
  BY <1>1, ReturnTypes DEF UndeployConnVdb, TypeInv, AnyVdb
<1>2. CASE Go(a, "deploy")
  <2>1. call[a] \in Call
    BY CallHasConn DEF UndeployConnVdb
  <2>2. [call[a] EXCEPT !.pc = "deploy"] \in Call
    BY <2>1 DEF Call
  <2> QED BY <1>2, <2>2 DEF UndeployConnVdb, Go, TypeInv, AnyVdb, AnyCall
<1> QED BY <1>1, <1>2 DEF UndeployConnVdb

LEMMA DeployConnVdbTypes ==
  ASSUME TypeInv, NEW a \in Actor, DeployConnVdb(a)
  PROVE  /\ conn' \in [Name -> AnyVdb]
         /\ queue' \in Seq(Task)
         /\ call' \in [Actor -> AnyCall]
<1>1. Served(call[a].conn) \in AnyVdb
  BY CallHasConn, ServedType DEF DeployConnVdb, AnyVdb
<1>2. conn' \in [Name -> AnyVdb]
  BY <1>1 DEF DeployConnVdb, TypeInv
<1>3. queue' \in Seq(Task)
  BY EnqueueTypes DEF DeployConnVdb, TypeInv
<1> QED BY <1>2, <1>3, ReturnTypes DEF DeployConnVdb

LEMMA DeployingTypes ==
  ASSUME TypeInv, NEW a \in Actor, Deploying(a)
  PROVE  TypeInv'
<1>1. /\ conn' \in [Name -> AnyVdb]
      /\ load' \in [Name -> Load \union {Null}]
      /\ job' \in [Load -> AnyJob]
      /\ queue' \in Seq(Task)
      /\ call' \in [Actor -> AnyCall]
      /\ Fault \/ NoFault
  <2>1. CASE ReadRow(a)
    BY <2>1, ReadRowTypes DEF ReadRow, TypeInv
  <2>2. CASE CheckVdb(a)
    BY <2>2, ReturnTypes DEF CheckVdb, TypeInv
  <2>3. CASE DeployLoadVdb(a)
    BY <2>3, DeployLoadVdbTypes DEF DeployLoadVdb, TypeInv
  <2>4. CASE UndeployFailed(a)
    BY <2>4, UndeployFailedTypes DEF UndeployFailed, TypeInv
  <2>5. CASE UndeployConnVdb(a)
    BY <2>5, UndeployConnVdbTypes DEF UndeployConnVdb, TypeInv
  <2>6. CASE DeployConnVdb(a)
    BY <2>6, DeployConnVdbTypes DEF DeployConnVdb, TypeInv
  <2> QED BY <2>1, <2>2, <2>3, <2>4, <2>5, <2>6 DEF Deploying, DeployStep
<1>2. UNCHANGED <<worldVars, ds, ddl, current, preview, master, masterUp, refreshVars>>
  BY DEF Deploying
<1> QED BY <1>1, <1>2, BoundTypes DEF TypeInv

-----------------------------------------------------------------------------
(* The tasks of connectionExecutor.                                        *)

LEMMA TakeTypes ==
  ASSUME TypeInv, NEW kind, Take(kind)
  PROVE  /\ Head(queue) \in Task /\ Tail(queue) \in Seq(Task)
         /\ kind # "refresh" => Head(queue).conn \in Conn /\ ThisName \in Name
<1>1. Head(queue) \in Task /\ Tail(queue) \in Seq(Task)
  BY TailTask DEF Take, TypeInv
<1> QED BY <1>1, TaskTypes DEF Take, ThisName

LEMMA CreateTypes ==
  ASSUME TypeInv, NEW c \in Conn, NEW mode \in Mode, Create(c, mode)
  PROVE  /\ ddl' \in [Conn -> AnyRow]
         /\ ds' \in [Name -> Conn \union {Null}]
         /\ call' \in [Actor -> AnyCall]
         /\ Fault \/ NoFault
<1>1. CreateRow(c) \in [Conn -> AnyRow]
  BY RowTextTypes DEF CreateRow, TypeInv
<1>2. CASE Fault /\ Return(Executor) /\ ddl' \in {ddl, CreateRow(c)} /\ UNCHANGED ds
  <2>1. call' \in [Actor -> AnyCall]
    BY <1>2, ReturnTypes DEF Actor
  <2> QED BY <1>1, <1>2, <2>1 DEF TypeInv
<1>3. CASE /\ ddl' = CreateRow(c)
           /\ ds' = [ds EXCEPT ![TeiidName[c]] = IF @ = Null THEN c ELSE @]
           /\ Become(Deploy(ds'[TeiidName[c]], mode))
           /\ NoFault
  <2>1. TeiidName[c] \in Name
    OBVIOUS
  <2>2. ds' \in [Name -> Conn \union {Null}] /\ ds'[TeiidName[c]] \in Conn
    BY <1>3, <2>1 DEF TypeInv
  <2>3. Deploy(ds'[TeiidName[c]], mode) \in AnyCall
    BY <2>2, DeployTypes DEF AnyCall
  <2> QED BY <1>1, <1>3, <2>2, <2>3, BecomeTypes
<1> QED BY <1>2, <1>3 DEF Create

LEMMA TakeUpdateTypes ==
  ASSUME TypeInv, TakeUpdate
  PROVE  /\ ds' \in [Name -> Conn \union {Null}]
         /\ queue' \in Seq(Task)
         /\ call' \in [Actor -> AnyCall]
<1>1. Head(queue).conn \in Conn /\ Tail(queue) \in Seq(Task)
  BY TakeTypes DEF TakeUpdate
<1>2. [Deploy(Head(queue).conn, "refresh") EXCEPT !.pc = "create"] \in AnyCall
  BY <1>1, DeployTypes DEF Mode, AnyCall
<1> QED BY <1>1, <1>2, BecomeTypes DEF TakeUpdate, TypeInv

LEMMA TakeDeleteTypes ==
  ASSUME TypeInv, TakeDelete
  PROVE  /\ ddl' \in [Conn -> AnyRow]
         /\ current' \subseteq Load
         /\ queue' \in Seq(Task)
         /\ call' \in [Actor -> AnyCall]
         /\ Fault \/ NoFault
<1> DEFINE c == Head(queue).conn
<1>1. c \in Conn /\ Tail(queue) \in Seq(Task)
  BY TakeTypes DEF TakeDelete
<1>2. call' \in [Actor -> AnyCall]
  <2>1. [Deploy(c, "live") EXCEPT !.pc = "drop"] \in AnyCall
    BY <1>1, DeployTypes DEF Mode, AnyCall
  <2> QED BY <2>1, BecomeTypes DEF TakeDelete
<1>3. queue' \in Seq(Task)
  <2>1. Append(Tail(queue), [kind |-> "remove", conn |-> c]) \in Seq(Task)
    BY <1>1, TaskTypes, AppendTask
  <2> QED BY <1>1, <2>1 DEF TakeDelete
<1>4. ddl' \in [Conn -> AnyRow] /\ current' \subseteq Load /\ (Fault \/ NoFault)
  BY DEF TakeDelete, TypeInv, AnyRow
<1> QED BY <1>2, <1>3, <1>4

LEMMA TakeReplaceTypes ==
  ASSUME TypeInv, TakeReplace
  PROVE  queue' \in Seq(Task) /\ call' \in [Actor -> AnyCall]
<1>1. ThisName \in Name /\ Tail(queue) \in Seq(Task)
  BY TakeTypes DEF TakeReplace
<1>2. ds[ThisName] # Null => Deploy(ds[ThisName], "replace") \in AnyCall
  BY <1>1, DeployTypes DEF TypeInv, Mode, AnyCall
<1> QED BY <1>1, <1>2, BecomeTypes, IdleTypes DEF TakeReplace

LEMMA TasksTypes == TypeInv /\ Tasks => TypeInv'
<1> SUFFICES ASSUME TypeInv, Tasks PROVE TypeInv'
  OBVIOUS
<1>1. /\ ds' \in [Name -> Conn \union {Null}]
      /\ ddl' \in [Conn -> AnyRow]
      /\ conn' \in [Name -> AnyVdb]
      /\ current' \subseteq Load
      /\ queue' \in Seq(Task)
      /\ call' \in [Actor -> AnyCall]
      /\ imports' \subseteq Name
      /\ doomed' \subseteq Dv
      /\ Fault \/ NoFault
  <2>1. CASE TakeAdd
    <3>1. Head(queue).conn \in Conn /\ Tail(queue) \in Seq(Task)
      BY <2>1, TakeTypes DEF TakeAdd
    <3> QED BY <2>1, <3>1, CreateTypes DEF TakeAdd, Mode, TypeInv
  <2>2. CASE TakeUpdate
    BY <2>2, TakeUpdateTypes DEF TakeUpdate, TypeInv
  <2>3. CASE CreateAgain
    <3>1. call[Executor].conn \in Conn
      BY <2>3, CallHasConn DEF CreateAgain, Actor
    <3> QED BY <2>3, <3>1, CreateTypes DEF CreateAgain, Mode, TypeInv
  <2>4. CASE TakeDelete
    BY <2>4, TakeDeleteTypes DEF TakeDelete, TypeInv
  <2>5. CASE DeleteDataSource
    BY <2>5, ReturnTypes DEF DeleteDataSource, TypeInv, Actor
  <2>6. CASE TakeRemove
    BY <2>6, TakeTypes, BecomeTypes, IdleTypes DEF TakeRemove, TypeInv, AnyVdb
  <2>7. CASE TakeReplace
    BY <2>7, TakeReplaceTypes DEF TakeReplace, TypeInv
  <2>8. CASE Snapshot
    BY <2>8, TakeTypes, BecomeTypes, IdleTypes DEF Snapshot, TypeInv
  <2> QED BY <2>1, <2>2, <2>3, <2>4, <2>5, <2>6, <2>7, <2>8 DEF Tasks
<1>2. UNCHANGED <<worldVars, load, preview, master, masterUp, job>>
  BY DEF Tasks
<1> QED BY <1>1, <1>2, BoundTypes DEF TypeInv

LEMMA RefreshTypes == TypeInv /\ Refresh => TypeInv'
<1> SUFFICES ASSUME TypeInv, Refresh PROVE TypeInv'
  OBVIOUS
<1>1. UNCHANGED <<worldVars, ds, ddl, conn, load, job, current, queue, bounds>>
  BY DEF Refresh
<1>2. ASSUME NEW d \in Dv, UndeployPreview(d) PROVE TypeInv'
  BY <1>1, <1>2 DEF UndeployPreview, TypeInv
<1>3. CASE DeployMaster
  <2>1. preview' \in [Dv -> 0..2 \union {Null}]
    BY <1>3 DEF DeployMaster, TypeInv
  <2>2. master' \in [Name -> AnyVdb]
    BY <1>3 DEF DeployMaster, TypeInv, AnyVdb
  <2>3. masterUp' \in BOOLEAN
    BY <1>3 DEF DeployMaster
  <2>4. call' \in [Actor -> AnyCall] /\ imports' \subseteq Name /\ doomed' \subseteq Dv
    BY <1>3, ReturnTypes DEF DeployMaster, Actor, TypeInv
  <2> QED BY <1>1, <2>1, <2>2, <2>3, <2>4 DEF TypeInv
<1> QED BY <1>2, <1>3 DEF Refresh

-----------------------------------------------------------------------------
(* The threads of the load VDBs.                                           *)

LEMMA ExportedType ==
  ASSUME TypeInv, NEW l \in Load
  PROVE  job[l].ddl \in RowTexts
BY RowTextTypes DEF TypeInv, AnyJob, Job, NoJob

LEMMA FinishLoadTypes ==
  ASSUME TypeInv, NEW l \in Load, FinishLoad(l)
  PROVE  job' \in [Load -> AnyJob]
<1> DEFINE text == [of |-> job[l].conn, version |-> reports[job[l].conn]]
           done == [job[l] EXCEPT !.pc = "finished", !.ddl = text]
<1>1. job[l] \in Job /\ job[l].conn \in Conn
  BY JobHasConn DEF FinishLoad
<1>2. text \in RowTexts
  BY <1>1 DEF TypeInv, RowTexts, Ddl
<1>3. done \in Job
  BY <1>1, <1>2 DEF Job
<1>4. job' = [job EXCEPT ![l] = done]
  BY <1>1 DEF FinishLoad, TypeInv
<1> QED BY <1>3, <1>4 DEF TypeInv, AnyJob

LEMMA ExportSchemaTypes ==
  ASSUME TypeInv, NEW l \in Load, ExportSchema(l)
  PROVE  job' \in [Load -> AnyJob] /\ load' \in [Name -> Load \union {Null}]
<1>1. job[l] \in Job /\ JobName(l) \in Name
  BY JobHasConn DEF ExportSchema
<1>2. load' \in [Name -> Load \union {Null}]
  BY DEF ExportSchema, TypeInv
<1>3. CASE JobGoes(l, "read")
  BY <1>1, <1>2, <1>3, JobGoesTypes
<1>4. CASE ~JobGoes(l, "read")
  <2> DEFINE d == load[JobName(l)]
             done == [job[l] EXCEPT !.pc = "read", !.ddl = job[d].ddl]
  <2>1. d \in Load
    BY <1>1, <1>4 DEF ExportSchema, TypeInv
  <2>2. job[d].ddl \in RowTexts
    BY <2>1, ExportedType
  <2>3. done \in Job
    BY <1>1, <2>2 DEF Job
  <2>4. job' = [job EXCEPT ![l] = done]
    BY <1>1, <1>4 DEF ExportSchema, TypeInv
  <2> QED BY <1>2, <2>3, <2>4 DEF TypeInv, AnyJob
<1> QED BY <1>3, <1>4

LEMMA LoadingTypes ==
  ASSUME TypeInv, NEW l \in Load, Loading(l)
  PROVE  TypeInv'
<1>1. /\ ddl' \in [Conn -> AnyRow]
      /\ load' \in [Name -> Load \union {Null}]
      /\ job' \in [Load -> AnyJob]
      /\ current' \subseteq Load
      /\ queue' \in Seq(Task)
      /\ Fault \/ NoFault
  <2>1. CASE FinishLoad(l)
    BY <2>1, FinishLoadTypes DEF FinishLoad, TypeInv
  <2>2. CASE AbandonLoad(l)
    BY <2>2, JobEndsTypes DEF AbandonLoad, TypeInv
  <2>3. CASE ExportSchema(l)
    BY <2>3, ExportSchemaTypes DEF ExportSchema, TypeInv
  <2>4. CASE FailToExport(l)
    <3>1. job[l] \in Job
      BY <2>4, JobHasConn DEF FailToExport
    <3>2. job' \in [Load -> AnyJob] /\ current' \subseteq Load
      BY <2>4, <3>1, JobGoesTypes, JobEndsTypes DEF FailToExport, TypeInv
    <3> QED BY <2>4, <3>2 DEF FailToExport, TypeInv
  <2>5. CASE ReadForStore(l)
    <3>1. job[l] \in Job
      BY <2>5, JobHasConn DEF ReadForStore
    <3>2. job' \in [Load -> AnyJob] /\ current' \subseteq Load
      BY <2>5, <3>1, JobGoesTypes, JobEndsTypes DEF ReadForStore, TypeInv
    <3> QED BY <2>5, <3>2 DEF ReadForStore, TypeInv
  <2>6. CASE CommitStore(l)
    <3>1. job[l].conn \in Conn /\ job[l].ddl \in AnyRow
      BY <2>6, JobHasConn, RowTextTypes DEF CommitStore
    <3>2. queue' \in Seq(Task)
      BY <2>6, <3>1, EnqueueTypes DEF CommitStore, RowOf, TypeInv
    <3>3. ddl' \in [Conn -> AnyRow]
      BY <2>6, <3>1 DEF CommitStore, RowOf, TypeInv
    <3> QED BY <2>6, <3>2, <3>3 DEF CommitStore, TypeInv, AnyJob
  <2>7. CASE ConflictAtStore(l)
    <3>1. job[l].conn \in Conn
      BY <2>7, JobHasConn DEF ConflictAtStore
    <3>2. queue' \in Seq(Task)
      BY <2>7, <3>1, EnqueueTypes DEF ConflictAtStore, TypeInv
    <3> QED BY <2>7, <3>2, JobEndsTypes DEF ConflictAtStore, TypeInv
  <2>8. CASE FailAtStore(l)
    BY <2>8, JobEndsTypes DEF FailAtStore, TypeInv
  <2> QED BY <2>1, <2>2, <2>3, <2>4, <2>5, <2>6, <2>7, <2>8 DEF Loading, LoadStep
<1>2. UNCHANGED <<worldVars, ds, conn, preview, master, masterUp, call, refreshVars>>
  BY DEF Loading
<1> QED BY <1>1, <1>2, BoundTypes DEF TypeInv

-----------------------------------------------------------------------------
(* Restarts, and the theorem.                                              *)

LEMMA RestartTypes == TypeInv /\ Restart => TypeInv'
<1> SUFFICES ASSUME TypeInv, Restart PROVE TypeInv'
  OBVIOUS
<1>1. Cardinality(made \ gone) \in Nat
  <2>1. IsFiniteSet(made)
    BY DEF TypeInv
  <2>2. IsFiniteSet(made \ gone)
    BY <2>1, FS_Subset
  <2> QED BY <2>2, FS_CardinalityType
<1>2. queue' \in Seq(Task)
  <2>1. PICK q \in Orders(made \ gone) :
           queue' = [i \in DOMAIN q |-> [kind |-> "add", conn |-> q[i]]]
    BY DEF Restart
  <2>2. q \in [1..Cardinality(made \ gone) -> made \ gone]
    BY DEF Orders
  <2>3. \A i \in 1..Cardinality(made \ gone) : [kind |-> "add", conn |-> q[i]] \in Task
    BY <2>2, TaskTypes DEF TypeInv
  <2>4. queue' \in [1..Cardinality(made \ gone) -> Task]
    BY <2>1, <2>2, <2>3
  <2> QED BY <1>1, <2>4, SeqDef
<1>3. /\ ds' \in [Name -> Conn \union {Null}]
      /\ load' \in [Name -> Load \union {Null}]
      /\ preview' \in [Dv -> 0..2 \union {Null}]
      /\ conn' \in [Name -> AnyVdb]
      /\ master' \in [Name -> AnyVdb]
      /\ job' \in [Load -> AnyJob]
      /\ call' \in [Actor -> AnyCall]
  BY IdleTypes DEF Restart, AnyVdb, AnyJob
<1>4. masterUp' \in BOOLEAN
  BY DEF Restart
<1>5. restarts' \in 0..MaxRestarts
  BY DEF Restart, TypeInv
<1> QED BY <1>2, <1>3, <1>4, <1>5 DEF Restart, TypeInv

LEMMA NextTypes == TypeInv /\ [Next]_vars => TypeInv'
<1> SUFFICES ASSUME TypeInv, [Next]_vars PROVE TypeInv'
  OBVIOUS
<1>1. CASE UNCHANGED vars
  BY <1>1 DEF vars, TypeInv
<1> QED BY <1>1, WorldTypes, SynchronizeTypes, RequestsTypes, TasksTypes, RefreshTypes,
           RestartTypes, DeployingTypes, LoadingTypes DEF Next

\* However deployments, loads, requests and restarts interleave, no thread works
\* on a connection, a row or a load VDB that is none.
THEOREM TypeCorrect == Spec => []TypeOK
BY InitTypes, NextTypes, TypeInvImplies, PTL DEF Spec
=============================================================================
