----------------------------- MODULE SourceVdbs -----------------------------
(***************************************************************************)
(* How the data sources of the server become virtual databases (VDBs) that *)
(* views can be written against: MetadataService and the instance of Teiid *)
(* behind DefaultMetadataInstance.                                         *)
(*                                                                         *)
(* The metadata of a source is loaded by a VDB of its own, <name>conn-load,*)
(* on a thread of Teiid; the result is stored as the ddl of the source's   *)
(* row in SourceSchema and served by the VDB <name>conn.  The VDB Preview  *)
(* imports every <name>conn, and each virtualization has a preview VDB     *)
(* that imports Preview.  An imported VDB is copied when the importing one *)
(* is deployed, so whoever changes a VDB has to redeploy what imports it.  *)
(*                                                                         *)
(* The one thread of connectionExecutor, the threads of REST requests and  *)
(* the loading threads of Teiid interleave; how connections are found and  *)
(* named is the subject of the module Connections.                         *)
(***************************************************************************)
EXTENDS Integers, Sequences, FiniteSets

CONSTANTS
    Conn,         \* ids of Syndesis connections; an id is never used again
    Name,         \* names of data sources
    TeiidName,    \* Conn -> Name; a connection made later may reuse a name
    Executor,     \* the thread of connectionExecutor
    Rest,         \* threads that serve REST requests
    Load,         \* load VDBs, each with its loading thread
    Dv,           \* virtualizations
    Null,
    MaxMetadata,  \* bound: versions of the metadata a source reports
    MaxInputs,    \* bound: events of Syndesis, changes of the sources, requests
    MaxFaults,    \* bound: failing calls to Teiid and the database
    MaxRestarts   \* bound: restarts of the server

ASSUME SourceVdbsAssumption ==
    /\ TeiidName \in [Conn -> Name]
    /\ Executor \notin Rest
    /\ Null \notin Load \union Conn \union 0..2
    /\ MaxMetadata \in Nat \ {0}
    /\ MaxInputs \in Nat
    /\ MaxFaults \in Nat
    /\ MaxRestarts \in Nat

VARIABLES
    reports,   \* connection -> version of the metadata its source has (0: it fails)
    made,      \* connections Syndesis has announced
    gone,      \* those of them it has announced to be deleted
    ds,        \* name -> connection of the registered TeiidDataSource, or Null
    ddl,       \* connection -> what its row of SourceSchema holds
    conn,      \* name -> the VDB <name>conn
    load,      \* name -> the VDB <name>conn-load, or Null
    job,       \* load VDB -> what its thread is about
    current,   \* threads whose row is still as they read it
    preview,   \* virtualization -> masters deployed since its preview VDB was
    master,    \* the VDB Preview: name -> the VDB it has imported
    masterUp,  \* whether Preview is deployed
    queue,     \* tasks that wait in connectionExecutor
    call,      \* thread -> where it is in the methods of MetadataService
    imports,   \* VDBs the running refreshPreviewVdb will import
    doomed,    \* preview VDBs it has still to undeploy
    inputs, faults, restarts   \* used up so far of each bound

bounds == <<inputs, faults, restarts>>
worldVars == <<reports, made, gone>>
vdbVars == <<conn, load, preview, master, masterUp>>
refreshVars == <<imports, doomed>>
serverVars == <<ds, ddl, vdbVars, job, current, call, refreshVars>>
vars == <<reports, made, gone, ds, ddl, conn, load, job, current, preview,
          master, masterUp, queue, call, imports, doomed, inputs, faults,
          restarts>>

-----------------------------------------------------------------------------
Actor == Rest \union {Executor}

\* The ddl of a row: the metadata of a connection in some version, version 0
\* being the comment that a failed load leaves.  Unloaded is a null ddl.
Ddl      == [of : Conn, version : 0..MaxMetadata]
NoRow    == [of |-> Null, version |-> 0]
Unloaded == [of |-> Null, version |-> 1]
RowTexts == Ddl \union {Unloaded}
Failed(text) == text # Unloaded /\ text.version = 0

\* A VDB <name>conn: the connection in its id property and the version of the
\* metadata it serves, 0 for an empty schema.
NoVdb == NoRow
Vdb   == [of : Conn, version : 0..MaxMetadata]

\* What DDLDBMetadataRepository finds in the row while the VDB is deployed.
Served(c) ==
    [of |-> c,
     version |-> IF ddl[c] \in {NoRow, Unloaded} THEN 0 ELSE ddl[c].version]

\* A call of doDeploySourceVdb, or the executor's step in another method: the
\* connection it is about, the mode, and the ddl the deployment will use.
Mode  == {"reuse", "live", "refresh", "replace"}
Call  == [pc : {"row", "check", "deploy"}, conn : Conn, mode : Mode, text : RowTexts]
Other == [pc : {"create", "drop"}, conn : Conn, mode : Mode, text : {Unloaded}]
Idle  == [pc |-> "idle", conn |-> Null, mode |-> "live", text |-> Unloaded]
Refreshing(pc) == [Idle EXCEPT !.pc = pc]
Deploy(c, mode) == [pc |-> "row", conn |-> c, mode |-> mode, text |-> Unloaded]

\* The thread of a load VDB; ddl is the result once the load is over.
Job   == [pc : {"loading", "finished", "read", "commit", "stuck"},
          conn : Conn, ddl : RowTexts]
NoJob == [pc |-> "none", conn |-> Null, ddl |-> Unloaded]
Active(l) == job[l].pc # "loading" /\ ~Failed(job[l].ddl)

Task == [kind : {"add", "update", "delete", "remove", "replace"}, conn : Conn]
            \union [kind : {"refresh"}, conn : {Null}]
RefreshTask == [kind |-> "refresh", conn |-> Null]
Enqueue(kind, c) == queue' = Append(queue, [kind |-> kind, conn |-> c])

Init ==
    /\ reports = [c \in Conn |-> 0]
    /\ made = {}
    /\ gone = {}
    /\ ds = [n \in Name |-> Null]
    /\ ddl = [c \in Conn |-> NoRow]
    /\ conn = [n \in Name |-> NoVdb]
    /\ load = [n \in Name |-> Null]
    /\ job = [l \in Load |-> NoJob]
    /\ current = {}
    /\ preview = [d \in Dv |-> Null]
    /\ master = [n \in Name |-> NoVdb]
    /\ masterUp = TRUE
    /\ queue = <<>>
    /\ call = [a \in Actor |-> Idle]
    /\ imports = {}
    /\ doomed = {}
    /\ inputs = 0 /\ faults = 0 /\ restarts = 0

Fault == faults < MaxFaults /\ faults' = faults + 1
                            /\ UNCHANGED <<inputs, restarts>>
Input == inputs < MaxInputs /\ inputs' = inputs + 1
                            /\ UNCHANGED <<faults, restarts>>
NoFault == UNCHANGED bounds

-----------------------------------------------------------------------------
\* Outside: the sources, and Syndesis, whose events the synchronizer queues.

ChangeSource(c) ==
    /\ Input
    /\ c \in made
    /\ \E v \in 0..MaxMetadata \ {reports[c]} : reports' = [reports EXCEPT ![c] = v]
    /\ UNCHANGED <<made, gone, queue>>

\* The name is free: no connection that has it is left, nor the row of one.
Connect(c) ==
    /\ Input
    /\ c \notin made
    /\ \A d \in made : TeiidName[d] = TeiidName[c] => d \in gone /\ ddl[d] = NoRow
    /\ made' = made \union {c}
    /\ reports' \in {[reports EXCEPT ![c] = v] : v \in 0..1}
    /\ Enqueue("add", c)
    /\ UNCHANGED gone

Update(c) ==
    /\ Input
    /\ c \in made \ gone
    /\ Enqueue("update", c)
    /\ UNCHANGED worldVars

Disconnect(c) ==
    /\ Input
    /\ c \in made \ gone
    /\ gone' = gone \union {c}
    /\ Enqueue("delete", c)
    /\ UNCHANGED <<reports, made>>

\* The periodic synchronization, when the executor has nothing else to do; it
\* goes on as long as the server runs.
Synchronize(c) ==
    /\ call[Executor] = Idle
    /\ queue = <<>>
    /\ c \in made \ gone
    /\ Enqueue("update", c)
    /\ UNCHANGED <<worldVars, serverVars>>
    /\ NoFault

World ==
    /\ \E c \in Conn : ChangeSource(c) \/ Connect(c) \/ Update(c) \/ Disconnect(c)
    /\ UNCHANGED serverVars

-----------------------------------------------------------------------------
\* doDeploySourceVdb, step by step, on thread a.  Its texts are chosen when the
\* row is read: Unloaded stands for "load the metadata" into a load VDB.

At(a, pc) == call[a].pc = pc
Return(a) == call' = [call EXCEPT ![a] = Idle]
Go(a, pc) == call' = [call EXCEPT ![a].pc = pc]
NameOf(a) == TeiidName[call[a].conn]
ForLoad(a) == call[a].text = Unloaded

\* Faulty: a load VDB that is active does not count.
DeployedIfLoading(a) ==
    LET l == load[NameOf(a)]
    IN  IF ForLoad(a)
        THEN l # Null /\ job[l].pc = "loading"
        ELSE conn[NameOf(a)] # NoVdb /\ call[a].mode # "replace"

\* The VDB to deploy is there: being loaded, or active and not to be replaced.
Deployed(a) ==
    LET l == load[NameOf(a)]
    IN  IF ForLoad(a)
        THEN l # Null /\ (job[l].pc = "loading" \/ Active(l))
        ELSE conn[NameOf(a)] # NoVdb /\ call[a].mode # "replace"

NoSchemaYet(c, mode) == mode \in {"reuse", "replace"} /\ ddl[c] = Unloaded

\* Faulty: a row that is gone is not noticed.
ReadRowUnchecked(a) ==
    LET c == call[a].conn
    IN  /\ At(a, "row")
        /\ IF NoSchemaYet(c, call[a].mode)
           THEN Return(a)
           ELSE call' = [call EXCEPT ![a].pc = "check",
                           ![a].text = IF call[a].mode = "refresh" THEN Unloaded ELSE ddl[c]]
        /\ UNCHANGED <<conn, load, job, queue>>
        /\ NoFault

ReadRow(a) ==
    LET c == call[a].conn
    IN  /\ At(a, "row")
        /\ IF ddl[c] = NoRow \/ NoSchemaYet(c, call[a].mode)
           THEN Return(a)
           ELSE call' = [call EXCEPT ![a].pc = "check",
                           ![a].text = IF call[a].mode = "refresh" THEN Unloaded ELSE ddl[c]]
        /\ UNCHANGED <<conn, load, job, queue>>
        /\ NoFault

\* Checked before and again under the lock of previewVdbLocks for the VDB.
CheckVdb(a) ==
    /\ At(a, "check")
    /\ Deployed(a)
    /\ Return(a)
    /\ UNCHANGED <<conn, load, job, queue>>
    /\ NoFault

\* The load VDB is changed under the lock only, all in one step: the old one,
\* of a failed load, goes; the data source is asked for its connection factory,
\* a NullPointerException if it is gone; and the new one loads in background.
DeployLoadVdb(a) ==
    LET n == NameOf(a)
    IN  /\ At(a, "check")
        /\ ForLoad(a)
        /\ ~Deployed(a)
        /\ \/ /\ ds[n] # Null
              /\ \E l \in Load : job[l] = NoJob
              /\ LET l == CHOOSE k \in Load : job[k] = NoJob
                 IN  /\ load' = [load EXCEPT ![n] = l]
                     /\ job' = [job EXCEPT ![l] = [NoJob EXCEPT !.pc = "loading",
                                                                !.conn = call[a].conn]]
              /\ NoFault
           \/ ds[n] = Null /\ load' = [load EXCEPT ![n] = Null] /\ UNCHANGED job /\ NoFault
           \/ ds[n] # Null /\ Fault /\ load' = [load EXCEPT ![n] = Null] /\ UNCHANGED job
        /\ Return(a)
        /\ UNCHANGED <<conn, queue>>

\* The VDB <name>conn: another thread holds its lock while it deploys it.
Locked(a) ==
    \E b \in Actor \ {a} : At(b, "deploy") /\ NameOf(b) = NameOf(a)

\* Faulty: Preview is not refreshed.
UndeployFailedSilently(a) ==
    /\ At(a, "check")
    /\ Failed(call[a].text)
    /\ ~Deployed(a)
    /\ ~Locked(a)
    /\ conn' = [conn EXCEPT ![NameOf(a)] = NoVdb]
    /\ Return(a)
    /\ UNCHANGED <<load, job, queue>>
    /\ NoFault

\* Instead of what a failed load has left, nothing is deployed.
UndeployFailed(a) ==
    /\ At(a, "check")
    /\ Failed(call[a].text)
    /\ ~Deployed(a)
    /\ ~Locked(a)
    /\ conn' = [conn EXCEPT ![NameOf(a)] = NoVdb]
    /\ Enqueue("refresh", Null)
    /\ Return(a)
    /\ UNCHANGED <<load, job>>
    /\ NoFault

\* Faulty: there is no second check under the lock.
UndeployConnVdbUnchecked(a) ==
    /\ At(a, "check")
    /\ ~ForLoad(a) /\ ~Failed(call[a].text)
    /\ ~Locked(a)
    /\ conn' = [conn EXCEPT ![NameOf(a)] = NoVdb]
    /\ IF ds[NameOf(a)] = Null THEN Return(a) ELSE Go(a, "deploy")
    /\ UNCHANGED <<load, job, queue>>
    /\ NoFault

\* DefaultMetadataInstance.deploy takes the old VDB away and asks for the
\* connection factory; then, in a step of its own, it deploys the new VDB.
UndeployConnVdb(a) ==
    /\ At(a, "check")
    /\ ~ForLoad(a) /\ ~Failed(call[a].text)
    /\ ~Deployed(a)
    /\ ~Locked(a)
    /\ conn' = [conn EXCEPT ![NameOf(a)] = NoVdb]
    /\ IF ds[NameOf(a)] = Null THEN Return(a) ELSE Go(a, "deploy")
    /\ UNCHANGED <<load, job, queue>>
    /\ NoFault

DeployConnVdb(a) ==
    /\ At(a, "deploy")
    /\ \/ conn' = [conn EXCEPT ![NameOf(a)] = Served(call[a].conn)] /\ NoFault
       \/ Fault /\ UNCHANGED conn
    /\ Return(a)
    /\ Enqueue("refresh", Null)
    /\ UNCHANGED <<load, job>>

DeployStep(a) == ReadRow(a) \/ CheckVdb(a) \/ DeployLoadVdb(a) \/ UndeployFailed(a)
                            \/ UndeployConnVdb(a) \/ DeployConnVdb(a)

Deploying(a) ==
    /\ DeployStep(a)
    /\ UNCHANGED <<worldVars, ds, ddl, current, preview, master, masterUp, refreshVars>>

-----------------------------------------------------------------------------
\* Requests.

\* The data source is looked up when the call begins.
RefreshSchema(a, n) ==
    /\ Input
    /\ call[a] = Idle
    /\ ds[n] # Null
    /\ call' = [call EXCEPT ![a] = Deploy(ds[n], "refresh")]
    /\ UNCHANGED preview

\* Every method that shows the schema of a source goes through findSchemaModel.
FindSchemaModel(a, n) ==
    /\ Input
    /\ call[a] = Idle
    /\ ds[n] # Null
    /\ conn[n] = NoVdb
    /\ call' = [call EXCEPT ![a] = Deploy(ds[n], "reuse")]
    /\ UNCHANGED preview

\* masterLock is held while the preview VDB is deployed, and copies Preview.
UpdatePreviewVdb(d) ==
    /\ Input
    /\ preview[d] = Null
    /\ masterUp
    /\ preview' = [preview EXCEPT ![d] = 0]
    /\ UNCHANGED call

Requests ==
    /\ \/ \E a \in Rest, n \in Name : RefreshSchema(a, n) \/ FindSchemaModel(a, n)
       \/ \E d \in Dv : UpdatePreviewVdb(d)
    /\ UNCHANGED <<worldVars, ds, ddl, conn, load, master, masterUp, job,
                   current, queue, refreshVars>>

-----------------------------------------------------------------------------
\* The tasks of connectionExecutor.

ThisName == TeiidName[Head(queue).conn]
Take(kind) == At(Executor, "idle") /\ queue # <<>> /\ Head(queue).kind = kind
Become(c) == call' = [call EXCEPT ![Executor] = c]

\* addConnection creates the row, if there is none, and then the data source.
CreateRow(c) == [ddl EXCEPT ![c] = IF @ = NoRow THEN Unloaded ELSE @]
Create(c, mode) ==
    LET n == TeiidName[c]
    IN  \/ /\ ddl' = CreateRow(c)
           /\ ds' = [ds EXCEPT ![n] = IF @ = Null THEN c ELSE @]
           /\ Become(Deploy(ds'[n], mode))
           /\ NoFault
        \/ Fault /\ Return(Executor) /\ ddl' \in {ddl, CreateRow(c)} /\ UNCHANGED ds

TakeAdd ==
    /\ Take("add")
    /\ Create(Head(queue).conn, "live")
    /\ queue' = Tail(queue)
    /\ UNCHANGED <<conn, current, refreshVars>>

\* The data source of a connection that may have changed is deleted first.
TakeUpdate ==
    /\ Take("update")
    /\ Become([Deploy(Head(queue).conn, "refresh") EXCEPT !.pc = "create"])
    /\ ds' = [ds EXCEPT ![ThisName] = Null]
    /\ queue' = Tail(queue)
    /\ UNCHANGED <<ddl, conn, current, refreshVars>>
    /\ NoFault

CreateAgain ==
    /\ At(Executor, "create")
    /\ Create(call[Executor].conn, "refresh")
    /\ UNCHANGED <<conn, current, queue, refreshVars>>

\* Faulty: the VDB is left to the next refresh.
TakeDeleteKeepingVdb ==
    LET c == Head(queue).conn
        drop == [Deploy(c, "live") EXCEPT !.pc = "drop"]
    IN  /\ Take("delete")
        /\ Become(drop)
        /\ \/ /\ ddl' = [ddl EXCEPT ![c] = NoRow]
              /\ current' = {l \in current : job[l].conn # c}
              /\ queue' = Tail(queue)
              /\ NoFault
           \/ Fault /\ queue' = Tail(queue) /\ UNCHANGED <<ddl, current>>
        /\ UNCHANGED <<ds, conn, refreshVars>>

\* deleteConnection: deleteSchema in a transaction, which queues the removal of
\* the VDB if there was a row; then deleteDataSource, whatever became of it.
TakeDelete ==
    LET c == Head(queue).conn
        drop == [Deploy(c, "live") EXCEPT !.pc = "drop"]
    IN  /\ Take("delete")
        /\ Become(drop)
        /\ \/ /\ ddl' = [ddl EXCEPT ![c] = NoRow]
              /\ current' = {l \in current : job[l].conn # c}
              /\ queue' = IF ddl[c] = NoRow THEN Tail(queue)
                          ELSE Append(Tail(queue), [kind |-> "remove", conn |-> c])
              /\ NoFault
           \/ Fault /\ queue' = Tail(queue) /\ UNCHANGED <<ddl, current>>
        /\ UNCHANGED <<ds, conn, refreshVars>>

DeleteDataSource ==
    /\ At(Executor, "drop")
    /\ ds' = [ds EXCEPT ![NameOf(Executor)] = Null]
    /\ Return(Executor)
    /\ UNCHANGED <<ddl, conn, current, queue, refreshVars>>
    /\ NoFault

\* removeVdb takes no lock.
TakeRemove ==
    /\ Take("remove")
    /\ conn' = [conn EXCEPT ![ThisName] = NoVdb]
    /\ Become(Refreshing("snapshot"))
    /\ queue' = Tail(queue)
    /\ UNCHANGED <<ds, ddl, current, refreshVars>>
    /\ NoFault

\* Faulty: an active VDB is kept.
TakeReplaceReusing ==
    /\ Take("replace")
    /\ Become(IF ds[ThisName] = Null THEN Idle ELSE Deploy(ds[ThisName], "reuse"))
    /\ queue' = Tail(queue)
    /\ UNCHANGED <<ds, ddl, conn, current, refreshVars>>
    /\ NoFault

\* The data source that has the name by now.
TakeReplace ==
    /\ Take("replace")
    /\ Become(IF ds[ThisName] = Null THEN Idle ELSE Deploy(ds[ThisName], "replace"))
    /\ queue' = Tail(queue)
    /\ UNCHANGED <<ds, ddl, conn, current, refreshVars>>
    /\ NoFault

\* Faulty: the preview VDBs are kept.
SnapshotKeepingPreviews ==
    /\ \/ At(Executor, "snapshot") /\ UNCHANGED queue
       \/ Take("refresh") /\ queue' = Tail(queue)
    /\ imports' = {n \in Name : conn[n] # NoVdb}
    /\ doomed' = {}
    /\ Become(Refreshing("previews"))
    /\ UNCHANGED <<ds, ddl, conn, current>>
    /\ NoFault

\* refreshPreviewVdb: getVdbs tells what to import and what to undeploy.
Snapshot ==
    /\ \/ At(Executor, "snapshot") /\ UNCHANGED queue
       \/ Take("refresh") /\ queue' = Tail(queue)
    /\ imports' = {n \in Name : conn[n] # NoVdb}
    /\ doomed' = {d \in Dv : preview[d] # Null}
    /\ Become(Refreshing("previews"))
    /\ UNCHANGED <<ds, ddl, conn, current>>
    /\ NoFault

Tasks ==
    /\ \/ TakeAdd \/ TakeUpdate \/ CreateAgain \/ TakeDelete \/ DeleteDataSource
       \/ TakeRemove \/ TakeReplace \/ Snapshot
    /\ UNCHANGED <<worldVars, load, preview, master, masterUp, job>>

UndeployPreview(d) ==
    /\ At(Executor, "previews")
    /\ d \in doomed
    /\ doomed' = doomed \ {d}
    /\ preview' = [preview EXCEPT ![d] = Null]
    /\ UNCHANGED <<master, masterUp, imports, call>>

\* A VDB that is to be imported and not there fails the deployment, after the
\* old Preview has been undeployed.
DeployMaster ==
    /\ At(Executor, "previews")
    /\ doomed = {}
    /\ masterUp' = \A n \in imports : conn[n] # NoVdb
    /\ master' = [n \in Name |-> IF masterUp' /\ n \in imports THEN conn[n] ELSE NoVdb]
    /\ preview' = [d \in Dv |-> IF preview[d] \in 0..1 THEN preview[d] + 1 ELSE preview[d]]
    /\ imports' = {}
    /\ Return(Executor)
    /\ UNCHANGED doomed

Refresh ==
    /\ DeployMaster \/ \E d \in Dv : UndeployPreview(d)
    /\ UNCHANGED <<worldVars, ds, ddl, conn, load, job, current, queue, bounds>>

-----------------------------------------------------------------------------
\* The threads of the load VDBs.

JobAt(l, pc) == job[l].pc = pc
JobGoes(l, pc) == job' = [job EXCEPT ![l].pc = pc]
JobEnds(l) == job' = [job EXCEPT ![l] = NoJob] /\ current' = current \ {l}
JobName(l) == TeiidName[job[l].conn]

\* Teiid has read the metadata from the source, or failed to.
FinishLoad(l) ==
    LET c == job[l].conn
    IN  /\ JobAt(l, "loading")
        /\ load[JobName(l)] = l
        /\ job' = [job EXCEPT ![l].pc = "finished",
                              ![l].ddl = [of |-> c, version |-> reports[c]]]
        /\ UNCHANGED <<ddl, load, current, queue>>
        /\ NoFault

\* A VDB that is undeployed while it loads has no listener called for it.
AbandonLoad(l) ==
    /\ JobAt(l, "loading")
    /\ load[JobName(l)] # l
    /\ JobEnds(l)
    /\ UNCHANGED <<ddl, load, queue>>
    /\ NoFault

\* finishedDeployment, under the lock: the schema is asked of the VDB that has the
\* name by now; there is none if the load failed.  The VDB of the name goes.
ExportSchema(l) ==
    LET d == load[JobName(l)]
    IN  /\ JobAt(l, "finished")
        /\ \/ Failed(job[l].ddl) /\ JobGoes(l, "read")
           \/ /\ ~Failed(job[l].ddl)
              /\ d # Null
              /\ Active(d)
              /\ job' = [job EXCEPT ![l].pc = "read", ![l].ddl = job[d].ddl]
        /\ load' = [load EXCEPT ![JobName(l)] = Null]
        /\ UNCHANGED <<ddl, current, queue>>
        /\ NoFault

\* getSchema fails: nothing else is done, so a VDB of this thread stays for ever.
FailToExport(l) ==
    LET d == load[JobName(l)]
    IN  /\ JobAt(l, "finished")
        /\ ~Failed(job[l].ddl)
        /\ IF d # Null /\ Active(d) THEN Fault ELSE NoFault
        /\ IF d = l THEN JobGoes(l, "stuck") /\ UNCHANGED current ELSE JobEnds(l)
        /\ UNCHANGED <<ddl, load, queue>>

\* Faulty: the row is that of the data source which has the name.
RowOfName(l) == IF ds[JobName(l)] # Null THEN ds[JobName(l)] ELSE job[l].conn

\* The row to store in is found by the id in the property of the VDB.
RowOf(l) == job[l].conn

\* Faulty: a ddl is stored once and for all.
ReadForFirstStore(l) ==
    LET c == RowOf(l)
    IN  /\ JobAt(l, "read")
        /\ IF ddl[c] # Unloaded
           THEN JobEnds(l)
           ELSE JobGoes(l, "commit") /\ current' = current \union {l}
        /\ UNCHANGED <<ddl, load, queue>>
        /\ NoFault

\* The transaction that stores the ddl, outside the lock: it reads the row, ...
ReadForStore(l) ==
    LET c == RowOf(l)
    IN  /\ JobAt(l, "read")
        /\ IF ddl[c] \in {NoRow, job[l].ddl}
           THEN JobEnds(l)
           ELSE JobGoes(l, "commit") /\ current' = current \union {l}
        /\ UNCHANGED <<ddl, load, queue>>
        /\ NoFault

\* Faulty: the row is written whatever has become of it.
CommitUnchecked(l) ==
    LET c == RowOf(l)
    IN  /\ JobAt(l, "commit")
        /\ ddl' = [ddl EXCEPT ![c] = job[l].ddl]
        /\ current' = {k \in current : job[k].conn # c}
        /\ job' = [job EXCEPT ![l] = NoJob]
        /\ Enqueue("replace", c)
        /\ UNCHANGED load
        /\ NoFault

\* ... and stores it if no other transaction has changed the row since.
CommitStore(l) ==
    LET c == RowOf(l)
    IN  /\ JobAt(l, "commit")
        /\ l \in current
        /\ ddl' = [ddl EXCEPT ![c] = job[l].ddl]
        /\ current' = {k \in current : job[k].conn # c}
        /\ job' = [job EXCEPT ![l] = NoJob]
        /\ Enqueue("replace", c)
        /\ UNCHANGED load
        /\ NoFault

\* ConcurrencyFailureException: the ddl is dropped, the source replaced anyway.
ConflictAtStore(l) ==
    /\ JobAt(l, "commit")
    /\ l \notin current
    /\ Enqueue("replace", job[l].conn)
    /\ JobEnds(l)
    /\ UNCHANGED <<ddl, load>>
    /\ NoFault

FailAtStore(l) ==
    /\ JobAt(l, "commit")
    /\ Fault
    /\ JobEnds(l)
    /\ UNCHANGED <<ddl, load, queue>>

LoadStep(l) == FinishLoad(l) \/ AbandonLoad(l) \/ ExportSchema(l) \/ FailToExport(l)
               \/ ReadForStore(l) \/ CommitStore(l) \/ ConflictAtStore(l) \/ FailAtStore(l)

Loading(l) ==
    /\ LoadStep(l)
    /\ UNCHANGED <<worldVars, ds, conn, preview, master, masterUp, call, refreshVars>>

-----------------------------------------------------------------------------
\* The server restarts: only the rows are left. Preview is deployed empty, then
\* the connections of Syndesis are added again, in any order.
Orders(S) ==
    {q \in [1..Cardinality(S) -> S] : \A i, j \in DOMAIN q : q[i] = q[j] => i = j}

Restart ==
    /\ restarts < MaxRestarts
    /\ restarts' = restarts + 1
    /\ ds' = [n \in Name |-> Null]
    /\ conn' = [n \in Name |-> NoVdb]
    /\ load' = [n \in Name |-> Null]
    /\ job' = [l \in Load |-> NoJob]
    /\ current' = {}
    /\ preview' = [d \in Dv |-> Null]
    /\ master' = [n \in Name |-> NoVdb]
    /\ masterUp' = TRUE
    /\ \E q \in Orders(made \ gone) :
            queue' = [i \in DOMAIN q |-> [kind |-> "add", conn |-> q[i]]]
    /\ call' = [a \in Actor |-> Idle]
    /\ imports' = {}
    /\ doomed' = {}
    /\ UNCHANGED <<worldVars, ddl, inputs, faults>>

Next ==
    \/ World \/ (\E c \in Conn : Synchronize(c))
    \/ Requests \/ Tasks \/ Refresh \/ Restart
    \/ \E a \in Actor : Deploying(a)
    \/ \E l \in Load : Loading(l)

Spec == Init /\ [][Next]_vars

\* Threads run; the synchronization is scheduled again and again.  Nothing is
\* assumed of Syndesis, the sources, the requests and what may fail.
Fairness ==
    /\ WF_vars(Tasks \/ Refresh \/ Deploying(Executor))
    /\ \A a \in Rest : WF_vars(Deploying(a))
    /\ \A l \in Load : WF_vars(Loading(l))
    /\ \A c \in Conn : WF_vars(Synchronize(c))

FairSpec == Spec /\ Fairness

-----------------------------------------------------------------------------
\* Properties.

StoreOK ==
    /\ reports \in [Conn -> 0..MaxMetadata]
    /\ made \subseteq Conn
    /\ gone \subseteq made
    /\ ds \in [Name -> Conn \union {Null}]
    /\ ddl \in [Conn -> RowTexts \union {NoRow}]

VdbsOK ==
    /\ conn \in [Name -> Vdb \union {NoVdb}]
    /\ load \in [Name -> Load \union {Null}]
    /\ preview \in [Dv -> 0..2 \union {Null}]
    /\ master \in [Name -> Vdb \union {NoVdb}]
    /\ masterUp \in BOOLEAN

ThreadsOK ==
    /\ job \in [Load -> Job \union {NoJob}]
    /\ current \subseteq Load
    /\ queue \in Seq(Task)
    /\ call \in [Actor -> Call \union Other \union
                          {Idle, Refreshing("snapshot"), Refreshing("previews")}]
    /\ imports \subseteq Name
    /\ doomed \subseteq Dv

BoundsOK ==
    /\ inputs \in 0..MaxInputs
    /\ faults \in 0..MaxFaults
    /\ restarts \in 0..MaxRestarts

\* Every variable keeps its shape: a deployment always has a connection and
\* what it needs of its row, a load VDB is one whose thread exists.
TypeOK == StoreOK /\ VdbsOK /\ ThreadsOK /\ BoundsOK

\* "Anything that ... can undeploy an active connection vdb will be delegated to
\* the connectionExecutor": no request takes away or replaces a VDB that is
\* active, though requests deploy and undeploy these VDBs as well.
OnlyExecutorUndeploys ==
    [][\A n \in Name : conn[n] # NoVdb /\ conn'[n] # conn[n] =>
          call'[Executor] # call[Executor] \/ restarts' # restarts]_vars

\* Preview stays deployed: what refreshPreviewVdb found active is still there
\* when Preview is deployed, whatever requests and load VDBs do in between.
\* Without it no virtualization could be previewed, edited or published.
MasterIsDeployed == masterUp

\* Preview imports exactly the VDBs there are, in the state they are in, unless
\* a refresh of it is running or queued: no change goes unannounced.
MasterCatchesUp ==
    \/ master = conn
    \/ call[Executor].pc \in {"snapshot", "previews", "deploy"}
    \/ \E i \in 1..Len(queue) : queue[i].kind \in {"refresh", "remove"}

\* A preview VDB deployed while refreshPreviewVdb runs copies the old Preview
\* and survives, but only until the next refresh.
PreviewsAtMostOneBehind == \A d \in Dv : preview[d] # 2

\* As long as no load fails, the row of a connection holds metadata of that very
\* connection, never of one that had its name before, or got it meanwhile.  (The
\* thread of a failed load undeploys whatever load VDB has the name by then, and
\* the thread of that one may then export the schema of yet another.)
OwnMetadata ==
    [](\A c \in made : reports[c] > 0) =>
        [](\A c \in Conn : ddl[c] \in Ddl => ddl[c].of = c)

\* The VDB of a deleted connection that still serves its tables is about to be
\* removed; a request that deploys it late deploys an empty one.
DeletedSourceServesNothing ==
    \A n \in Name :
        conn[n] # NoVdb /\ conn[n].version > 0 /\ ddl[conn[n].of] = NoRow =>
            \E i \in 1..Len(queue) :
                queue[i].kind = "remove" /\ TeiidName[queue[i].conn] = n

\* "locks to make sure request threads don't step on each other's vdb
\* deployments/undeployments": no deployment takes away a load VDB whose metadata
\* is loaded and not yet stored.  (The thread of an older, failed load can.)
LoadedIsKept ==
    [][\A n \in Name : load[n] # Null /\ load'[n] # load[n] =>
          call' = call \/ ~Active(load[n]) \/ restarts' # restarts]_vars

\* The row of a connection as SchemaLifecycle sees it. What has no row yet may still
\* get one if a task that is queued or running will create it.
Wanted(c) == IF c \in gone THEN "dropped" ELSE IF c \in made THEN "announced" ELSE "new"
Expected(c) ==
    \/ \E i \in 1..Len(queue) : queue[i].kind \in {"add", "update"} /\ queue[i].conn = c
    \/ At(Executor, "create") /\ call[Executor].conn = c
Phase(c) ==
    IF ddl[c] = Unloaded THEN "unloaded"
    ELSE IF ddl[c] # NoRow THEN "loaded"
         ELSE IF c \in gone /\ ~Expected(c) THEN "deleted" ELSE "none"

Schemas == INSTANCE SchemaLifecycle WITH
    Connection <- Conn,
    wanted <- [c \in Conn |-> Wanted(c)],
    phase <- [c \in Conn |-> Phase(c)]

\* The row of a connection has one life: neither a load that stores its result late
\* nor a task that has waited too long, a failure or a restart brings back the row of
\* a deleted connection, takes the row of a live one or empties one that is loaded.
SchemasLiveOnce == Schemas!Lifecycle

\* However loads overlap, are skipped or overtake each other when they store,
\* the row of every connection ends up with what its source reports - unless
\* getSchema failed and left a load VDB that blocks all later ones.
RowsConverge ==
    <>[](\A c \in made \ gone :
            \/ ddl[c] = [of |-> c, version |-> reports[c]]
            \/ \E l \in Load : JobAt(l, "stuck") /\ JobName(l) = TeiidName[c])

\* If nothing fails, the VDB of every source ends up serving what its row holds.
VdbsConverge ==
    [](faults = 0) =>
        <>[](\A c \in made \ gone :
                ddl[c].version > 0 /\ ddl[c] # Unloaded => conn[TeiidName[c]] = ddl[c])
=============================================================================
