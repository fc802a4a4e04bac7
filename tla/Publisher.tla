----------------------------- MODULE Publisher -----------------------------
(***************************************************************************)
(* Publishing and unpublishing of data virtualizations: the threads of     *)
(* TeiidOpenShiftClient, the BuildStatus objects they share, and the       *)
(* OpenShift cluster, the Syndesis server and the database they act on.    *)
(*                                                                         *)
(* Four kinds of thread write BuildStatus.status, a volatile field that no *)
(* lock protects: REST threads (Client), the one monitor thread of         *)
(* workExecutor, and the threads of configureService (Worker), which run   *)
(* configure tasks and delete tasks.                                       *)
(***************************************************************************)
EXTENDS Integers, Sequences, Functions

CONSTANTS
    Vdb,          \* the data virtualizations
    Client,       \* REST threads that publish and unpublish
    Worker,       \* threads of configureService
    MaxJobs,      \* bound: BuildStatus objects ever monitored
    MaxFaults,    \* bound: failing calls to OpenShift, Syndesis, the database
    MaxDeletes,   \* bound: unpublish requests
    Droppable,    \* virtualizations whose row may be deleted
    MaxCrashes    \* bound: restarts of the server

ASSUME PublisherAssumption ==
    /\ Vdb # {}
    /\ MaxJobs \in Nat \ {0}
    /\ MaxFaults \in Nat
    /\ MaxDeletes \in Nat
    /\ MaxCrashes \in Nat

VARIABLES
    njobs,        \* BuildStatus objects created so far; they are 1..njobs
    vdbOf,        \* job -> its virtualization
    status,       \* job -> BuildStatus.status
    name,         \* job -> the build it names (0: none)
    config,       \* job -> whether it has a PublishConfiguration
    queue,        \* the queue of workExecutor: jobs of BuildStatusRunners
    mjob,         \* the job the monitor thread is running (0: none)
    mpc,          \* where the monitor thread is in BuildStatusRunner.run
    poolQueue,    \* the queue of configureService
    worker,       \* worker -> the task it is running
    client,       \* REST thread -> its place in publish or delete
    nbuilds,      \* builds instantiated so far; they are 1..nbuilds
    phase,        \* build -> its phase in OpenShift
    buildOf,      \* build -> the job whose configure task created it
    dc,           \* virtualization -> its deployment config
    rc,           \* virtualizations with a replication controller
    services,     \* virtualizations whose JDBC service exists
    dvs,          \* virtualizations with a row in the database
    sourceId,     \* DataVirtualization.sourceId (0: null)
    nconns,       \* Syndesis connections ever created; they are 1..nconns
    conns,        \* those that exist
    inUse,        \* those some integration uses
    faults, deletes, crashes   \* used up so far of each bound

jobVars     == <<njobs, vdbOf, config>>
monitorVars == <<queue, mjob, mpc>>
poolVars    == <<poolQueue, worker>>
threadVars  == <<jobVars, status, name, monitorVars, poolVars, client>>
buildVars   == <<nbuilds, phase, buildOf>>
clusterVars == <<buildVars, dc, rc, services>>
syndesisVars == <<dvs, sourceId, nconns, conns, inUse>>
cloudVars   == <<dc, services, sourceId, nconns, conns>>
boundVars   == <<faults, deletes, crashes>>
vars == <<njobs, vdbOf, status, name, config, queue, mjob, mpc, poolQueue,
          worker, client, nbuilds, phase, buildOf, dc, rc, services, dvs,
          sourceId, nconns, conns, inUse, faults, deletes, crashes>>

-----------------------------------------------------------------------------
Status == {"NOTFOUND", "SUBMITTED", "CONFIGURING", "BUILDING", "DEPLOYING",
           "RUNNING", "FAILED", "CANCELLED",
           "DELETE_SUBMITTED", "DELETE_REQUEUE", "DELETE_DONE"}

Job   == 1..MaxJobs
\* One build more than jobs, so that a job that is configured twice shows.
Build == 1..(MaxJobs + 1)
Conn  == 1..(MaxJobs + 1)

Phase == {"absent", "Running", "Complete", "Failed", "Cancelled"}

\* A deployment config: "stale" was replaced but still serves the deployment
\* before; "rolling" is being rolled out; "failed" has given up.
Deployment == {"absent", "stale", "rolling", "ready", "failed"}

\* DeleteStep[i] is what the i-th group of calls of a delete task removes.
DeleteStep == <<"services", "builds", "dc", "rest">>

Task == [kind : {"configure", "delete"}, job : Job,
         step : 1..(Len(DeleteStep) + 1), build : Build \union {0}]
NoTask == [kind |-> "none", job |-> 0, step |-> 0, build |-> 0]

ConfigureTask(j, i, b) == [kind |-> "configure", job |-> j, step |-> i, build |-> b]
DeleteTask(j, i) == [kind |-> "delete", job |-> j, step |-> i, build |-> 0]

SomeVdb == CHOOSE v \in Vdb : TRUE
At(pc, v, j, q) == [pc |-> pc, vdb |-> v, job |-> j, queue |-> q]
Idle == At("idle", SomeVdb, 0, FALSE)
ClientState == [pc : {"idle", "publish", "lookup", "submit", "mark"},
                vdb : Vdb, job : Job \union {0}, queue : BOOLEAN]

\* The tests of BuildStatusRunner.run in their order, then its other steps.
TestPc == {"isDeleteSubmitted", "isDeleteRequeue", "isDeleteDone", "isEnded",
           "isSubmitted", "isConfiguring", "isDeploying"}
MonitorPc == TestPc \union
    {"idle", "redelete", "remark", "disconnect", "configure",
     "getBuild", "deploy", "markDeploying", "checkDeployment",
     "services", "connect", "saveSource", "markRunning"}

\* The jobs some runner in the queue or the monitor thread looks after.
Live(j) == j = mjob \/ j \in Range(queue)

Init ==
    /\ njobs = 0
    /\ vdbOf = [j \in Job |-> SomeVdb]
    /\ status = [j \in Job |-> "NOTFOUND"]
    /\ name = [j \in Job |-> 0]
    /\ config = [j \in Job |-> FALSE]
    /\ queue = <<>>
    /\ mjob = 0
    /\ mpc = "idle"
    /\ poolQueue = <<>>
    /\ worker = [w \in Worker |-> NoTask]
    /\ client = [c \in Client |-> Idle]
    /\ nbuilds = 0
    /\ phase = [b \in Build |-> "absent"]
    /\ buildOf = [b \in Build |-> 0]
    /\ dc = [v \in Vdb |-> "absent"]
    /\ rc = {}
    /\ services = {}
    /\ dvs = Vdb
    /\ sourceId = [v \in Vdb |-> 0]
    /\ nconns = 0
    /\ conns = {}
    /\ inUse = {}
    /\ faults = 0
    /\ deletes = 0
    /\ crashes = 0

\* A call to OpenShift, Syndesis or the database fails.
Fault == faults < MaxFaults /\ faults' = faults + 1
NoFault == UNCHANGED faults

-----------------------------------------------------------------------------
\* What a reader sees of a virtualization.

\* activeJobs holds a job from the start of run() to its finally clause. Jobs
\* that wait in the queue are not found: its elements are the FutureTasks that
\* submit() makes, so the instanceof test of the scan never succeeds.
ActiveJob(v) == IF mjob # 0 /\ vdbOf[mjob] = v THEN mjob ELSE 0

Ready(d)       == d \in {"stale", "ready"}
Progressing(d) == d \in {"stale", "rolling", "ready"}

BuildsOf(v) == {b \in 1..nbuilds : phase[b] # "absent" /\ vdbOf[buildOf[b]] = v}

\* getVDBService for a virtualization whose first listed build is b. A completed
\* build without a deployment is DEPLOYING for 15 seconds and FAILED after.
BuildStatuses(v, b) ==
    CASE phase[b] = "Cancelled" -> {"CANCELLED"}
      [] phase[b] = "Failed"    -> {"FAILED"}
      [] phase[b] = "Complete"  ->
            IF dc[v] = "absent" THEN {"DEPLOYING", "FAILED"}
            ELSE IF ~Progressing(dc[v]) THEN {"FAILED"}
            ELSE IF Ready(dc[v]) THEN {"RUNNING"} ELSE {"DEPLOYING"}
      [] OTHER                  -> {"BUILDING"}

\* The statuses getVDBService can return, each with the build it names. Which
\* build comes first in the list is the API server's choice; a replication
\* controller without builds is dangling when it has no replicas; a call that
\* fails leaves a new BuildStatus, which is NOTFOUND.
VDBService(v) ==
    {[status |-> "NOTFOUND", name |-> 0]} \union
    (IF BuildsOf(v) = {}
     THEN IF v \in rc THEN {[status |-> "FAILED", name |-> 0]} ELSE {}
     ELSE UNION {{[status |-> s, name |-> b] : s \in BuildStatuses(v, b)} :
                 b \in BuildsOf(v)})

\* getVirtualizationStatus as publishVirtualization uses it.
VirtualizationStatus(v) ==
    IF ActiveJob(v) # 0 THEN {status[ActiveJob(v)]}
    ELSE {s.status : s \in VDBService(v)}

\* findIntegrationUsedIn looks in a map that is up to a minute old and that
\* holds its keys weakly: a use may go unseen, one that is not there is not seen.
SeesUse(v) == IF v \in dvs /\ sourceId[v] \in inUse THEN BOOLEAN ELSE {FALSE}

-----------------------------------------------------------------------------
\* The REST threads.

Goto(c, state) == client' = [client EXCEPT ![c] = state]

\* A new BuildStatus. Its runner is queued by the caller.
NewJob(v, s, b, cfg) ==
    /\ njobs < MaxJobs
    /\ njobs' = njobs + 1
    /\ vdbOf' = [vdbOf EXCEPT ![njobs + 1] = v]
    /\ status' = [status EXCEPT ![njobs + 1] = s]
    /\ name' = [name EXCEPT ![njobs + 1] = b]
    /\ config' = [config EXCEPT ![njobs + 1] = cfg]

\* publishVirtualization up to its test of the status it has read: only a
\* status of BUILDING refuses the request.
PublishBegin(c) ==
    /\ client[c].pc = "idle"
    /\ njobs < MaxJobs
    /\ \E v \in dvs :
         /\ \E s \in VirtualizationStatus(v) : s # "BUILDING"
         /\ Goto(c, At("publish", v, 0, FALSE))
    /\ UNCHANGED <<jobVars, status, name, queue, poolQueue, deletes>>

\* Faulty: the runner that addToQueue has submitted is submitted once more.
PublishEnqueueTwice(c) ==
    /\ client[c].pc = "publish"
    /\ NewJob(client[c].vdb, "SUBMITTED", 0, TRUE)
    /\ queue' = queue \o <<njobs + 1, njobs + 1>>
    /\ Goto(c, Idle)
    /\ UNCHANGED <<poolQueue, deletes>>

\* addToQueue.
PublishEnqueue(c) ==
    /\ client[c].pc = "publish"
    /\ NewJob(client[c].vdb, "SUBMITTED", 0, TRUE)
    /\ queue' = Append(queue, njobs + 1)
    /\ Goto(c, Idle)
    /\ UNCHANGED <<poolQueue, deletes>>

\* deleteVirtualization looks in activeJobs.
DeleteBegin(c) ==
    /\ client[c].pc = "idle"
    /\ deletes < MaxDeletes
    /\ deletes' = deletes + 1
    /\ \E v \in Vdb :
         Goto(c, At(IF ActiveJob(v) = 0 THEN "lookup" ELSE "submit",
                    v, ActiveJob(v), FALSE))
    /\ UNCHANGED <<jobVars, status, name, queue, poolQueue>>

\* It found no active job and calls getVirtualizationStatus, which looks in
\* activeJobs once more: the job that is found is queued again all the same.
DeleteFindActive(c) ==
    LET v == client[c].vdb IN
    /\ client[c].pc = "lookup"
    /\ ActiveJob(v) # 0
    /\ Goto(c, At("submit", v, ActiveJob(v), TRUE))
    /\ UNCHANGED <<jobVars, status, name, queue, poolQueue, deletes>>

\* Faulty: the status that was looked up is not assigned to runningBuild.
DeleteFindServiceUnassigned(c) ==
    /\ client[c].pc = "lookup"
    /\ ActiveJob(client[c].vdb) = 0
    /\ \E s \in VDBService(client[c].vdb) :
         NewJob(client[c].vdb, s.status, s.name, FALSE)
    /\ Goto(c, At("submit", client[c].vdb, 0, TRUE))
    /\ UNCHANGED <<queue, poolQueue, deletes>>

\* It asks the cluster: a virtualization that is not there is left alone, and
\* one that runs and is seen in use has its (unmonitored) status CANCELLED.
DeleteFindService(c) ==
    LET v == client[c].vdb IN
    /\ client[c].pc = "lookup"
    /\ ActiveJob(v) = 0
    /\ \E s \in VDBService(v), used \in SeesUse(v) :
         IF s.status = "NOTFOUND" \/ (s.status = "RUNNING" /\ used)
         THEN /\ Goto(c, Idle)
              /\ UNCHANGED <<jobVars, status, name>>
         ELSE /\ NewJob(v, s.status, s.name, FALSE)
              /\ Goto(c, At("submit", v, njobs + 1, TRUE))
    /\ UNCHANGED <<queue, poolQueue, deletes>>

\* The delete task goes to configureService ...
DeleteSubmit(c) ==
    /\ client[c].pc = "submit"
    /\ poolQueue' = Append(poolQueue, DeleteTask(client[c].job, 1))
    /\ Goto(c, At("mark", client[c].vdb, client[c].job, client[c].queue))
    /\ UNCHANGED <<jobVars, status, name, queue, deletes>>

\* Faulty: the runner is queued and the status left as it was.
DeleteMarkSkipped(c) ==
    /\ client[c].pc = "mark"
    /\ queue' = IF client[c].queue THEN Append(queue, client[c].job) ELSE queue
    /\ Goto(c, Idle)
    /\ UNCHANGED <<jobVars, status, name, poolQueue, deletes>>

\* ... before the status says so, whatever the task has made of it by then.
DeleteMark(c) ==
    /\ client[c].pc = "mark"
    /\ status' = [status EXCEPT ![client[c].job] = "DELETE_SUBMITTED"]
    /\ queue' = IF client[c].queue THEN Append(queue, client[c].job) ELSE queue
    /\ Goto(c, Idle)
    /\ UNCHANGED <<jobVars, name, poolQueue, deletes>>

ClientStep(c) ==
    /\ \/ PublishBegin(c) \/ PublishEnqueue(c)
       \/ DeleteBegin(c) \/ DeleteFindActive(c) \/ DeleteFindService(c)
       \/ DeleteSubmit(c) \/ DeleteMark(c)
    /\ UNCHANGED <<mjob, mpc, worker, clusterVars, syndesisVars, faults, crashes>>

-----------------------------------------------------------------------------
\* The monitor thread: BuildStatusRunner.run. Every test of work.getStatus()
\* is a read of its own, and the status may change between two of them.

SetStatus(j, s) == status' = [status EXCEPT ![j] = s]

\* run() ends: with its runner at the end of the queue, or with none. The
\* finally clause removes the job from activeJobs; an exception ends run()
\* without a word to the status ("Monitor exception").
Resubmit == queue' = Append(queue, mjob) /\ mjob' = 0 /\ mpc' = "idle"
Retire   == UNCHANGED queue /\ mjob' = 0 /\ mpc' = "idle"
Continue(pc) == UNCHANGED <<queue, mjob>> /\ mpc' = pc

Take ==
    /\ mpc = "idle"
    /\ queue # <<>>
    /\ mjob' = Head(queue)
    /\ queue' = Tail(queue)
    /\ mpc' = "isDeleteSubmitted"
    /\ UNCHANGED <<status, poolQueue, cloudVars, faults>>

\* One test of the status: what run() does when it holds, else the next test.
Test(pc, statuses, then, otherwise) ==
    /\ mpc = pc
    /\ IF status[mjob] \in statuses THEN then ELSE Continue(otherwise)

TestStatus ==
    /\ \/ Test("isDeleteSubmitted", {"DELETE_SUBMITTED"}, Resubmit, "isDeleteRequeue")
       \/ Test("isDeleteRequeue", {"DELETE_REQUEUE"}, Continue("redelete"), "isDeleteDone")
       \/ Test("isDeleteDone", {"DELETE_DONE"}, Continue("disconnect"), "isEnded")
       \/ Test("isEnded", {"FAILED", "CANCELLED"}, Retire, "isSubmitted")
       \/ Test("isSubmitted", {"SUBMITTED"}, Continue("configure"), "isConfiguring")
       \/ Test("isConfiguring", {"CONFIGURING"}, Resubmit, "getBuild")
       \/ Test("isDeploying", {"DEPLOYING"}, Continue("checkDeployment"), "deploy")
    /\ UNCHANGED <<status, poolQueue, cloudVars, faults>>

\* Faulty: configureBuild does not set the status.
ConfigureUnmarked ==
    /\ mpc = "configure"
    /\ poolQueue' = Append(poolQueue, ConfigureTask(mjob, 1, 0))
    /\ Resubmit
    /\ UNCHANGED <<status, cloudVars, faults>>

\* Faulty: the runner is not submitted again.
ConfigureUnwatched ==
    /\ mpc = "configure"
    /\ SetStatus(mjob, "CONFIGURING")
    /\ poolQueue' = Append(poolQueue, ConfigureTask(mjob, 1, 0))
    /\ Retire
    /\ UNCHANGED <<cloudVars, faults>>

\* configureBuild and the submit that follows it.
Configure ==
    /\ mpc = "configure"
    /\ SetStatus(mjob, "CONFIGURING")
    /\ poolQueue' = Append(poolQueue, ConfigureTask(mjob, 1, 0))
    /\ Resubmit
    /\ UNCHANGED <<cloudVars, faults>>

\* deleteVirtualization as run() calls it: the active job is its own, so a
\* second delete task is queued and no second runner.
Redelete ==
    /\ mpc = "redelete"
    /\ poolQueue' = Append(poolQueue, DeleteTask(mjob, 1))
    /\ Continue("remark")
    /\ UNCHANGED <<status, cloudVars, faults>>

Remark ==
    /\ mpc = "remark"
    /\ SetStatus(mjob, "DELETE_SUBMITTED")
    /\ Resubmit
    /\ UNCHANGED <<poolQueue, cloudVars, faults>>

\* removeSyndesisConnection. The entity whose sourceId it then sets to null is
\* detached: the transaction that read it has ended.
Disconnect ==
    LET v == vdbOf[mjob] IN
    /\ mpc = "disconnect"
    /\ \/ NoFault /\ conns' = IF v \in dvs THEN conns \ {sourceId[v]} ELSE conns
       \/ Fault /\ UNCHANGED conns
    /\ Retire
    /\ UNCHANGED <<status, poolQueue, dc, services, sourceId, nconns>>

\* The build is read from the cluster: one that is gone ends the monitoring.
GetBuild ==
    LET b == name[mjob]
        p == IF b = 0 THEN "absent" ELSE phase[b] IN
    /\ mpc = "getBuild"
    /\ \/ /\ NoFault
          /\ \/ p = "absent" /\ Retire /\ UNCHANGED status
             \/ p = "Running" /\ Resubmit /\ UNCHANGED status
             \/ p = "Complete" /\ Continue("isDeploying") /\ UNCHANGED status
             \/ p = "Cancelled" /\ Retire /\ SetStatus(mjob, "CANCELLED")
             \/ p = "Failed" /\ Retire /\ SetStatus(mjob, "FAILED")
       \/ Fault /\ Retire /\ UNCHANGED status
    /\ UNCHANGED <<poolQueue, cloudVars>>

\* createSecret and createDeploymentConfig. A job that deleteVirtualization
\* made has no PublishConfiguration: its null ends the run like a fault.
Deploy ==
    LET v == vdbOf[mjob] IN
    /\ mpc = "deploy"
    /\ \/ /\ config[mjob]
          /\ NoFault
          /\ dc' = [dc EXCEPT ![v] = IF Ready(@) THEN "stale" ELSE "rolling"]
          /\ Continue("markDeploying")
       \/ /\ \/ Fault
             \/ ~config[mjob] /\ NoFault
          /\ UNCHANGED dc
          /\ Retire
    /\ UNCHANGED <<status, poolQueue, services, sourceId, nconns, conns>>

\* The status is set before deployLatest is called.
MarkDeploying ==
    /\ mpc = "markDeploying"
    /\ SetStatus(mjob, "DEPLOYING")
    /\ \/ NoFault /\ Resubmit
       \/ Fault /\ Retire
    /\ UNCHANGED <<poolQueue, cloudVars>>

CheckDeployment ==
    LET d == dc[vdbOf[mjob]] IN
    /\ mpc = "checkDeployment"
    /\ \/ /\ NoFault
          /\ \/ d = "absent" /\ Retire /\ UNCHANGED status
             \/ Ready(d) /\ Continue("services") /\ UNCHANGED status
             \/ ~Ready(d) /\ Progressing(d) /\ Resubmit /\ UNCHANGED status
             \/ d = "failed" /\ Retire /\ SetStatus(mjob, "FAILED")
       \/ Fault /\ Retire /\ UNCHANGED status
    /\ UNCHANGED <<poolQueue, cloudVars>>

\* createServices, one call after the other: the JDBC service may be there
\* when a later call fails.
CreateServices ==
    LET v == vdbOf[mjob] IN
    /\ mpc = "services"
    /\ \/ NoFault /\ services' = services \union {v} /\ Continue("connect")
       \/ Fault /\ services' \in {services, services \union {v}} /\ Retire
    /\ UNCHANGED <<status, poolQueue, dc, sourceId, nconns, conns>>

\* createSyndesisConnection: nothing without the JDBC service, else a POST,
\* whose answer may be lost after the connection was made.
Connect ==
    /\ mpc = "connect"
    /\ IF vdbOf[mjob] \notin services
       THEN NoFault /\ UNCHANGED <<nconns, conns>> /\ Continue("markRunning")
       ELSE \/ /\ nconns < MaxJobs + 1
               /\ nconns' = nconns + 1
               /\ conns' = conns \union {nconns + 1}
               /\ \/ NoFault /\ Continue("saveSource")
                  \/ Fault /\ Retire
            \/ Fault /\ UNCHANGED <<nconns, conns>> /\ Retire
    /\ UNCHANGED <<status, poolQueue, dc, services, sourceId>>

\* The id of the POST's answer is stored in a transaction of its own.
SaveSource ==
    LET v == vdbOf[mjob] IN
    /\ mpc = "saveSource"
    /\ \/ /\ NoFault
          /\ sourceId' = IF v \in dvs THEN [sourceId EXCEPT ![v] = nconns]
                         ELSE sourceId
          /\ Continue("markRunning")
       \/ Fault /\ UNCHANGED sourceId /\ Retire
    /\ UNCHANGED <<status, poolQueue, dc, services, nconns, conns>>

\* Faulty: shouldReQueue stays true.
MarkRunningRequeued ==
    /\ mpc = "markRunning"
    /\ SetStatus(mjob, "RUNNING")
    /\ Resubmit
    /\ UNCHANGED <<poolQueue, cloudVars, faults>>

MarkRunning ==
    /\ mpc = "markRunning"
    /\ SetStatus(mjob, "RUNNING")
    /\ Retire
    /\ UNCHANGED <<poolQueue, cloudVars, faults>>

MonitorStep ==
    /\ \/ Take \/ TestStatus \/ Configure \/ Redelete \/ Remark
       \/ Disconnect \/ GetBuild \/ Deploy \/ MarkDeploying \/ CheckDeployment
       \/ CreateServices \/ Connect \/ SaveSource \/ MarkRunning
    /\ UNCHANGED <<jobVars, name, worker, client, buildVars, rc, dvs, inUse,
                   deletes, crashes>>

-----------------------------------------------------------------------------
\* The threads of configureService.

StartTask(w) ==
    /\ worker[w] = NoTask
    /\ poolQueue # <<>>
    /\ worker' = [worker EXCEPT ![w] = Head(poolQueue)]
    /\ poolQueue' = Tail(poolQueue)
    /\ UNCHANGED <<status, name, clusterVars, faults>>

EndTask(w)  == worker' = [worker EXCEPT ![w] = NoTask]
Running(w, kind, i) == worker[w].kind = kind /\ worker[w].step = i

\* The configure task up to createBuild. An exception makes the job FAILED.
CreateBuild(w) ==
    LET j == worker[w].job IN
    /\ Running(w, "configure", 1)
    /\ \/ /\ NoFault
          /\ nbuilds < MaxJobs + 1
          /\ nbuilds' = nbuilds + 1
          /\ phase' = [phase EXCEPT ![nbuilds + 1] = "Running"]
          /\ buildOf' = [buildOf EXCEPT ![nbuilds + 1] = j]
          /\ worker' = [worker EXCEPT ![w] = ConfigureTask(j, 2, nbuilds + 1)]
          /\ UNCHANGED status
       \/ Fault /\ SetStatus(j, "FAILED") /\ EndTask(w) /\ UNCHANGED buildVars
    /\ UNCHANGED <<name, poolQueue, dc, rc, services>>

\* Faulty: an exception leaves the status as it was.
FinishConfigureSilent(w) ==
    LET j == worker[w].job IN
    /\ Running(w, "configure", 2)
    /\ \/ NoFault /\ name' = [name EXCEPT ![j] = worker[w].build]
                  /\ SetStatus(j, "BUILDING")
       \/ Fault /\ UNCHANGED <<status, name>>
    /\ EndTask(w)
    /\ UNCHANGED <<poolQueue, clusterVars>>

\* The rest of it: the pod is waited for, the variables of the data sources
\* are collected (a missing source is an exception), then the job is BUILDING.
FinishConfigure(w) ==
    LET j == worker[w].job IN
    /\ Running(w, "configure", 2)
    /\ \/ NoFault /\ name' = [name EXCEPT ![j] = worker[w].build]
                  /\ SetStatus(j, "BUILDING")
       \/ Fault /\ SetStatus(j, "FAILED") /\ UNCHANGED name
    /\ EndTask(w)
    /\ UNCHANGED <<poolQueue, clusterVars>>

\* What a delete step that succeeds takes from the cluster. The replication
\* controllers go after the builds and once more with the rest; the routes,
\* pods, image streams, secret and build config are never read back.
Removed(step, v) ==
    /\ services' = IF step = "services" THEN services \ {v} ELSE services
    /\ phase' = IF step = "builds"
                THEN [b \in Build |-> IF b \in BuildsOf(v) THEN "absent"
                                      ELSE phase[b]]
                ELSE phase
    /\ rc' = IF step \in {"builds", "rest"} THEN rc \ {v} ELSE rc
    /\ dc' = IF step = "dc" THEN [dc EXCEPT ![v] = "absent"] ELSE dc

\* One try block of deleteVDBServiceResources.
DeleteResource(w) ==
    LET j == worker[w].job IN
    /\ worker[w].kind = "delete"
    /\ worker[w].step <= Len(DeleteStep)
    /\ \/ NoFault /\ Removed(DeleteStep[worker[w].step], vdbOf[j])
                  /\ UNCHANGED status
       \/ Fault /\ SetStatus(j, "DELETE_REQUEUE")
                /\ UNCHANGED <<phase, dc, rc, services>>
    /\ worker' = [worker EXCEPT ![w] = DeleteTask(j, worker[w].step + 1)]
    /\ UNCHANGED <<name, poolQueue, nbuilds, buildOf>>

\* Its last statement.
FinishDelete(w) ==
    /\ Running(w, "delete", Len(DeleteStep) + 1)
    /\ SetStatus(worker[w].job, "DELETE_DONE")
    /\ EndTask(w)
    /\ UNCHANGED <<name, poolQueue, clusterVars, faults>>

WorkerStep(w) ==
    /\ \/ StartTask(w) \/ CreateBuild(w) \/ FinishConfigure(w)
       \/ DeleteResource(w) \/ FinishDelete(w)
    /\ UNCHANGED <<jobVars, monitorVars, client, syndesisVars, deletes, crashes>>

-----------------------------------------------------------------------------
\* OpenShift, Syndesis and the rest of the server. None of it touches a thread.

BuildEnds(b) ==
    /\ phase[b] = "Running"
    /\ \E p \in {"Complete", "Failed", "Cancelled"} :
         phase' = [phase EXCEPT ![b] = p]
    /\ UNCHANGED <<threadVars, nbuilds, buildOf, dc, rc, services, syndesisVars,
                   boundVars>>

\* The rollout of a deployment config begins, then succeeds or is given up.
Rollout(v) ==
    /\ \/ dc[v] = "stale" /\ dc' = [dc EXCEPT ![v] = "rolling"]
       \/ /\ dc[v] = "rolling"
          /\ \E d \in {"ready", "failed"} : dc' = [dc EXCEPT ![v] = d]
    /\ rc' = rc \union {v}
    /\ UNCHANGED <<threadVars, buildVars, services, syndesisVars, boundVars>>

\* A user of Syndesis puts a connection into an integration.
UseConnection(id) ==
    /\ id \in conns
    /\ inUse' = inUse \union {id}
    /\ UNCHANGED <<threadVars, clusterVars, dvs, sourceId, nconns, conns,
                   boundVars>>

\* DataVirtualizationService.deleteDataVirtualization: the row goes, what is
\* published stays.
DropDataVirtualization(v) ==
    /\ v \in dvs \intersect Droppable
    /\ dvs' = dvs \ {v}
    /\ sourceId' = [sourceId EXCEPT ![v] = 0]
    /\ UNCHANGED <<threadVars, clusterVars, nconns, conns, inUse, boundVars>>

Environment ==
    \/ \E b \in Build : BuildEnds(b)
    \/ \E v \in Vdb : Rollout(v) \/ DropDataVirtualization(v)
    \/ \E id \in Conn : UseConnection(id)

\* The server restarts: BuildStatus objects, queues and threads are gone, the
\* cluster, Syndesis and the database are as they were. Nothing is recovered.
Crash ==
    /\ crashes < MaxCrashes
    /\ crashes' = crashes + 1
    /\ status' = [j \in Job |-> "NOTFOUND"]
    /\ queue' = <<>>
    /\ mjob' = 0
    /\ mpc' = "idle"
    /\ poolQueue' = <<>>
    /\ worker' = [w \in Worker |-> NoTask]
    /\ client' = [c \in Client |-> Idle]
    /\ UNCHANGED <<jobVars, name, clusterVars, syndesisVars, faults, deletes>>

Next ==
    \/ \E c \in Client : ClientStep(c)
    \/ MonitorStep
    \/ \E w \in Worker : WorkerStep(w)
    \/ Environment
    \/ Crash

Spec == Init /\ [][Next]_vars

\* The executors' threads run what is queued, a REST call that was begun goes
\* on, and OpenShift ends every build and every rollout. Nobody has to publish.
Fairness ==
    /\ WF_vars(MonitorStep)
    /\ \A w \in Worker : WF_vars(WorkerStep(w))
    /\ \A c \in Client : WF_vars(client[c].pc # "idle" /\ ClientStep(c))
    /\ \A b \in Build : WF_vars(BuildEnds(b))
    /\ \A v \in Vdb : WF_vars(Rollout(v))

FairSpec == Spec /\ Fairness

-----------------------------------------------------------------------------
\* Properties.

JobsOK ==
    /\ njobs \in 0..MaxJobs
    /\ vdbOf \in [Job -> Vdb]
    /\ status \in [Job -> Status]
    /\ name \in [Job -> Build \union {0}]
    /\ config \in [Job -> BOOLEAN]

ThreadsOK ==
    /\ queue \in Seq(Job)
    /\ mjob \in Job \union {0}
    /\ mpc \in MonitorPc
    /\ poolQueue \in Seq(Task)
    /\ worker \in [Worker -> Task \union {NoTask}]
    /\ client \in [Client -> ClientState]

ClusterOK ==
    /\ nbuilds \in 0..(MaxJobs + 1)
    /\ phase \in [Build -> Phase]
    /\ buildOf \in [Build -> Job \union {0}]
    /\ dc \in [Vdb -> Deployment]
    /\ rc \subseteq Vdb
    /\ services \subseteq Vdb

SyndesisOK ==
    /\ dvs \subseteq Vdb
    /\ sourceId \in [Vdb -> Conn \union {0}]
    /\ nconns \in 0..(MaxJobs + 1)
    /\ conns \subseteq Conn
    /\ inUse \subseteq Conn

BoundsOK ==
    /\ faults \in 0..MaxFaults
    /\ deletes \in 0..MaxDeletes
    /\ crashes \in 0..MaxCrashes

\* Every variable keeps its shape: no thread ever acts on a job that was not
\* made or hands a task without one to configureService.
TypeOK == JobsOK /\ ThreadsOK /\ ClusterOK /\ SyndesisOK /\ BoundsOK

\* A monitored job that is to be built or deployed has a build to poll and a
\* PublishConfiguration to deploy it with: run() would dereference null
\* otherwise, and its catch clause would drop the job without a word. It holds
\* although jobs made by deleteVirtualization, which start with the status of
\* the service and lack a PublishConfiguration, go through the same run().
DeployableJob ==
    \A j \in Job : Live(j) /\ status[j] \in {"BUILDING", "DEPLOYING"} =>
                      name[j] # 0 /\ config[j]

\* The tasks of kind k for job j that configureService has in hand.
InHand(k, j) == \E t \in Range(poolQueue) \union Range(worker) :
                    t.kind = k /\ t.job = j

\* A publish request that was accepted is not lost before it has been
\* configured: some runner looks after it, and a job that run() passes over
\* because it is being configured has a configure task that will change that.
PendingIsMonitored ==
    \A j \in Job :
        /\ status[j] \in {"SUBMITTED", "CONFIGURING"} => Live(j)
        /\ status[j] = "CONFIGURING" => InHand("configure", j)

\* One publish request starts one build: no interleaving of run() with the
\* other threads configures a job twice, not even when a delete request has
\* put a second runner of the job into the queue.
OneBuildPerJob ==
    \A b1, b2 \in 1..nbuilds : buildOf[b1] = buildOf[b2] => b1 = b2

\* A job has one runner at most, in the queue or in the monitor thread. Only
\* publish requests keep it: DeleteFindActive adds a second one.
OneRunnerPerJob ==
    /\ \A i, k \in 1..Len(queue) : queue[i] = queue[k] => i = k
    /\ mjob # 0 => mjob \notin Range(queue)

\* A publish request comes to an end: the monitor does not poll a job for ever.
PublishEnds == \A j \in Job : status[j] = "SUBMITTED" ~> ~Live(j)

\* Without delete requests the threads, queues and cluster together keep the
\* promise of PublishLifecycle: a status moves in order, only while its job is
\* in the queue or in the monitor thread, and no job is dropped unconfigured.
LC == INSTANCE PublishLifecycle
        WITH Request <- Job, state <- status, watched <- {j \in Job : Live(j)}
PublishesInOrder == LC!Lifecycle

\* "requeue will change state to submitted": a delete task that failed in part
\* is followed by another one.
RequeueIsFollowed ==
    [][\A j \in Job : status[j] = "DELETE_REQUEUE" =>
          status'[j] \in {"DELETE_REQUEUE", "DELETE_SUBMITTED", "NOTFOUND"}]_vars

\* "remove the source id from database": no virtualization keeps the id of a
\* Syndesis connection that was removed.
SourceIdExists == \A v \in dvs : sourceId[v] # 0 => sourceId[v] \in conns

\* "thus can not be deleted": no delete task is queued for a virtualization
\* while an integration uses its connection.
UsedIsNotDeleted ==
    [][\A v \in Vdb : (v \in dvs /\ sourceId[v] \in inUse) =>
          \A c \in Client : client'[c].pc = "mark" /\ client'[c].vdb = v =>
                               client[c].pc = "mark"]_vars

\* "since delete is async process too, monitor it in the monitor thread": the
\* monitoring of a delete comes to an end.
DeleteEnds == \A j \in Job : status[j] = "DELETE_SUBMITTED" ~> ~Live(j)
=============================================================================
