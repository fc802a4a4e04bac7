------------------------ MODULE PublisherSafetyProofs ------------------------
(***************************************************************************)
(* The safety invariants of Publisher: one build for each job, no request  *)
(* lost before it is configured, no job deployed without what it needs;    *)
(* and, where nothing is unpublished, one runner for each job and the life *)
(* of a publish request in order.                                          *)
(***************************************************************************)
EXTENDS PublisherProofs

USE PublisherAssumption DEF
    jobVars, monitorVars, poolVars, threadVars, buildVars, clusterVars,
    syndesisVars, cloudVars, boundVars

-----------------------------------------------------------------------------
(* Queues, tasks and REST threads name only jobs that were made: a job     *)
(* just made is new to all of them.                                        *)

Made(j) == j \in 0..njobs

JobsExist ==
    /\ Made(mjob)
    /\ \A j \in Range(queue) : Made(j)
    /\ \A t \in Range(poolQueue) : Made(t.job) /\ t.step = 1
    /\ \A w \in Worker : Made(worker[w].job)
    /\ \A c \in Client : Made(client[c].job)
    /\ \A b \in 1..nbuilds : buildOf[b] \in 1..njobs

\* At most one configure task of a job is in hand, it comes before any build of
\* the job, and a job that has or had one is not SUBMITTED and is not about to
\* be configured.
Configures(t, j) == t.kind = "configure" /\ t.job = j

OneEach(seq) ==
    \A i, k \in 1..Len(seq), j \in Job :
        Configures(seq[i], j) /\ Configures(seq[k], j) => i = k

Unbuilt(j) == \A b \in 1..nbuilds : buildOf[b] # j
Waits(j)   == \E t \in Range(poolQueue) : Configures(t, j)
Held(j)    == \E w \in Worker : Configures(worker[w], j)
Pending(j) == status[j] = "SUBMITTED" \/ (mjob = j /\ mpc = "configure")

ConfiguredOnce ==
    /\ OneBuildPerJob
    /\ OneEach(poolQueue)
    /\ \A w, x \in Worker, j \in Job :
          Configures(worker[w], j) /\ Configures(worker[x], j) => w = x
    /\ \A j \in Job : Waits(j) => Unbuilt(j) /\ ~Held(j)
    /\ \A j \in Job, w \in Worker :
          Configures(worker[w], j) /\ worker[w].step = 1 => Unbuilt(j)
    /\ \A j \in Job : Pending(j) => Unbuilt(j) /\ ~Waits(j) /\ ~Held(j)

\* Where the monitor thread can be while its job waits to be configured.
BeforeConfigure == {"isDeleteSubmitted", "isDeleteRequeue", "isDeleteDone",
                    "isEnded", "isSubmitted"}

PendingKept ==
    /\ PendingIsMonitored
    /\ mjob # 0 /\ status[mjob] = "SUBMITTED" => mpc \in BeforeConfigure \union {"configure"}
    /\ mjob # 0 /\ status[mjob] = "CONFIGURING" => mpc \in BeforeConfigure \union {"isConfiguring"}

\* Who can make a job BUILDING or DEPLOYING knows its build and configuration.
DeployableKept ==
    /\ DeployableJob
    /\ \A j \in Job : status[j] = "SUBMITTED" => config[j]
    /\ mpc = "configure" => config[mjob]
    /\ \A t \in Range(poolQueue), j \in Job : Configures(t, j) => config[j]
    /\ \A w \in Worker, j \in Job : Configures(worker[w], j) =>
          config[j] /\ (worker[w].step = 2 => worker[w].build # 0)
    /\ mpc \in {"isDeploying", "deploy", "markDeploying"} => name[mjob] # 0
    /\ mpc = "markDeploying" => config[mjob]

-----------------------------------------------------------------------------
(* What a step of each kind of thread does to the jobs in line.            *)

Typed ==
    /\ queue \in Seq(Job) /\ poolQueue \in Seq(Task)
    /\ Range(queue) \subseteq Job /\ Range(poolQueue) \subseteq Task
    /\ mjob \in Job \union {0}
    /\ mjob = 0 <=> mpc = "idle"
    /\ njobs \in 0..MaxJobs /\ nbuilds \in 0..(MaxJobs + 1)
    /\ vdbOf \in [Job -> Vdb]
    /\ status \in [Job -> Status]
    /\ name \in [Job -> Build \union {0}]
    /\ config \in [Job -> BOOLEAN]
    /\ buildOf \in [Build -> Job \union {0}]
    /\ worker \in [Worker -> Task \union {NoTask}]
    /\ client \in [Client -> ClientState]
    /\ \A c \in Client : client[c].job \in Job \union {0}
    /\ \A w \in Worker : worker[w].job \in Job \union {0}
    /\ \A t \in Range(poolQueue) : t.job \in Job

LEMMA TypeFacts ==
  ASSUME TypeInv
  PROVE  Typed
<1>1. queue \in Seq(Job) /\ poolQueue \in Seq(Task) /\ client \in [Client -> ClientState]
  BY DEF TypeInv, TypeOK, ThreadsOK
<1>2. Range(queue) \subseteq Job /\ Range(poolQueue) \subseteq Task
  BY <1>1, RangeOfSeq
<1>3. \A c \in Client : client[c].job \in Job \union {0}
  BY <1>1 DEF ClientState
<1>4. \A w \in Worker : worker[w].job \in Job \union {0}
  BY DEF TypeInv, TypeOK, ThreadsOK, Task, NoTask
<1>5. \A t \in Range(poolQueue) : t.job \in Job
  BY <1>2 DEF Task
<1> QED BY <1>1, <1>2, <1>3, <1>4, <1>5 DEF Typed, TypeInv, TypeOK, JobsOK, ThreadsOK, ClusterOK, ActorsHaveJobs

\* The monitor thread takes a job, goes on with it, or lets it go.
Takes == /\ mjob = 0 /\ mpc' = "isDeleteSubmitted"
         /\ Range(queue) = {mjob'} \union Range(queue')
Stays == UNCHANGED <<queue, mjob>>
LetsGo == /\ mjob # 0 /\ mjob' = 0
          /\ queue' = queue \/ Range(queue') = Range(queue) \union {mjob}

LEMMA ResubmitRange ==
  ASSUME TypeInv, mjob # 0, Resubmit
  PROVE  Range(queue') = Range(queue) \union {mjob}
BY TypeFacts, AppendRange DEF Typed, Resubmit

LEMMA MonitorMoves ==
  ASSUME TypeInv, MonitorStep
  PROVE  (Take /\ Takes) \/ Stays \/ LetsGo
<1>0. mpc # "idle" => mjob # 0
  BY TypeFacts DEF Typed
<1>1. CASE Take
  BY <1>1, TypeFacts, TailRange DEF Typed, Take, Takes
<1>2. CASE mpc # "idle" /\ (Resubmit \/ Retire)
  BY <1>0, <1>2, ResubmitRange DEF LetsGo, Resubmit, Retire
<1>3. CASE UNCHANGED <<queue, mjob>>
  BY <1>3 DEF Stays
<1> QED
  BY <1>1, <1>2, <1>3
     DEF MonitorStep, TestStatus, Test, Configure, Redelete, Remark, Disconnect, GetBuild,
         Deploy, MarkDeploying, CheckDeployment, CreateServices, Connect, SaveSource,
         MarkRunning, Continue

\* The tasks that wait for configureService: a thread adds one, or takes one.
LEMMA SubmitRange ==
  ASSUME TypeInv, NEW t \in Task, poolQueue' = Append(poolQueue, t)
  PROVE  Range(poolQueue') = Range(poolQueue) \union {t}
BY TypeFacts, AppendRange DEF Typed

LEMMA MonitorTasks ==
  ASSUME TypeInv, MonitorStep
  PROVE  \/ UNCHANGED poolQueue
         \/ mjob \in Job /\ Configure /\ poolQueue' = Append(poolQueue, ConfigureTask(mjob, 1, 0))
         \/ mjob \in Job /\ Redelete /\ poolQueue' = Append(poolQueue, DeleteTask(mjob, 1))
<1>0. mpc # "idle" => mjob \in Job
  BY TypeFacts DEF Typed
<1>1. CASE Configure
  BY <1>0, <1>1 DEF Configure
<1>2. CASE Redelete
  BY <1>0, <1>2 DEF Redelete
<1>3. CASE UNCHANGED poolQueue
  BY <1>3
<1> QED
  BY <1>1, <1>2, <1>3
     DEF MonitorStep, Take, TestStatus, Remark, Disconnect, GetBuild, Deploy,
         MarkDeploying, CheckDeployment, CreateServices, Connect, SaveSource, MarkRunning

-----------------------------------------------------------------------------
(* JobsExist.                                                              *)

LEMMA ClientKeepsJobs ==
  ASSUME TypeInv, JobsExist, NEW c \in Client, ClientStep(c)
  PROVE  JobsExist'
<1>a. Typed /\ njobs \in Nat /\ njobs' \in Nat
  BY TypeFacts, ClientKeepsTypes DEF Typed, TypeInv, TypeOK, JobsOK
<1>b. /\ UNCHANGED <<mjob, worker, nbuilds, buildOf>>
      /\ client[c].vdb \in Vdb /\ client[c].queue \in BOOLEAN /\ client[c].job \in Job \union {0}
  BY <1>a DEF ClientStep, ClientState, Typed
<1>c. \A v \in Vdb : ActiveJob(v) \in 0..njobs /\ ActiveJob(v) \in Job \union {0}
  BY <1>a, ActiveJobType DEF ActiveJob, JobsExist, Made, TypeInv
<1>d. client[c].pc \in {"submit", "mark"} => client[c].job \in Job /\ client[c].job \in 0..njobs
  BY <1>b DEF TypeInv, ActorsHaveJobs, JobsExist, Made
\* What is to be shown of each step.
<1>1. ASSUME NEW t, t.job \in 0..njobs', njobs' >= njobs, Goto(c, t),
             \A k \in Range(queue') : k \in 0..njobs',
             \A u \in Range(poolQueue') : u.job \in 0..njobs' /\ u.step = 1
      PROVE  JobsExist'
  <2>1. \A k \in 0..njobs : k \in 0..njobs'
    BY <1>1, <1>a
  <2>2. \A d \in Client : client'[d].job \in 0..njobs'
    BY <1>1, <1>a, <2>1 DEF Goto, JobsExist, Made, Typed
  <2>3. mjob' \in 0..njobs' /\ \A w \in Worker : worker'[w].job \in 0..njobs'
    BY <1>b, <2>1 DEF JobsExist, Made
  <2>4. \A b \in 1..nbuilds' : buildOf'[b] \in 1..njobs'
    BY <1>1, <1>a, <1>b DEF JobsExist
  <2> QED BY <1>1, <2>2, <2>3, <2>4 DEF JobsExist, Made
\* A step that makes no job, and one that makes one.
<1>2. /\ \A k \in Range(queue) : k \in 0..njobs
      /\ \A u \in Range(poolQueue) : u.job \in 0..njobs /\ u.step = 1
      /\ \A k \in Range(queue) : k \in 0..(njobs + 1)
      /\ \A u \in Range(poolQueue) : u.job \in 0..(njobs + 1)
  BY <1>a DEF JobsExist, Made
<1>3. CASE PublishBegin(c)
  <2>1. PICK v \in dvs : Goto(c, At("publish", v, 0, FALSE))
    BY <1>3 DEF PublishBegin
  <2> QED BY <1>1, <1>2, <1>3, <1>a, <2>1 DEF PublishBegin, At
<1>4. CASE PublishEnqueue(c)
  <2>1. njobs + 1 \in Job /\ njobs' = njobs + 1 /\ queue' = Append(queue, njobs + 1)
    BY <1>a, <1>4 DEF PublishEnqueue, NewJob, Job, Typed
  <2>2. Range(queue') = Range(queue) \union {njobs + 1}
    BY <1>a, <2>1, AppendRange DEF Typed
  <2> QED BY <1>1, <1>2, <1>4, <1>a, <2>1, <2>2 DEF PublishEnqueue, Idle, At
<1>5. CASE DeleteBegin(c)
  <2>1. PICK v \in Vdb : Goto(c, At(IF ActiveJob(v) = 0 THEN "lookup" ELSE "submit",
                                    v, ActiveJob(v), FALSE))
    BY <1>5 DEF DeleteBegin
  <2> QED BY <1>1, <1>2, <1>5, <1>a, <1>c, <2>1 DEF DeleteBegin, At
<1>6. CASE DeleteFindActive(c)
  BY <1>1, <1>2, <1>6, <1>a, <1>b, <1>c DEF DeleteFindActive, At
<1>7. CASE DeleteFindService(c)
  <2>1. UNCHANGED <<queue, poolQueue>>
    BY <1>7 DEF DeleteFindService
  <2>2. \/ njobs' = njobs /\ Goto(c, Idle)
        \/ njobs' = njobs + 1 /\ Goto(c, At("submit", client[c].vdb, njobs + 1, TRUE))
    BY <1>7 DEF DeleteFindService, NewJob
  <2> QED BY <1>1, <1>2, <1>a, <2>1, <2>2 DEF Idle, At
<1>8. CASE DeleteSubmit(c)
  <2>1. client[c].job \in Job
    BY <1>8, <1>d DEF DeleteSubmit
  <2>2. Range(poolQueue') = Range(poolQueue) \union {DeleteTask(client[c].job, 1)}
    BY <1>8, <2>1, TaskTypes, StepsOfDelete, SubmitRange DEF DeleteSubmit
  <2> QED BY <1>1, <1>2, <1>8, <1>a, <1>d, <2>2 DEF DeleteSubmit, DeleteTask, At
<1>9. CASE DeleteMark(c)
  <2>1. Range(queue') \subseteq Range(queue) \union {client[c].job}
    BY <1>9, <1>a, <1>d, AppendRange DEF DeleteMark, Typed
  <2> QED BY <1>1, <1>2, <1>9, <1>a, <1>d, <2>1 DEF DeleteMark, Idle, At
<1> QED BY <1>3, <1>4, <1>5, <1>6, <1>7, <1>8, <1>9 DEF ClientStep

LEMMA MonitorKeepsJobs ==
  ASSUME TypeInv, JobsExist, MonitorStep
  PROVE  JobsExist'
<1>1. UNCHANGED <<njobs, worker, client, nbuilds, buildOf>>
  BY DEF MonitorStep
<1>2. mjob' \in 0..njobs /\ \A j \in Range(queue') : j \in 0..njobs
  BY MonitorMoves, TypeFacts DEF Takes, Stays, LetsGo, JobsExist, Made, Typed
<1>3. CASE UNCHANGED poolQueue
  BY <1>1, <1>2, <1>3 DEF JobsExist, Made
<1>4. ASSUME mjob \in Job, NEW t \in Task, t.job = mjob, t.step = 1,
             poolQueue' = Append(poolQueue, t)
      PROVE  JobsExist'
  <2>1. Range(poolQueue') = Range(poolQueue) \union {t}
    BY <1>4, SubmitRange
  <2> QED BY <1>1, <1>2, <1>4, <2>1 DEF JobsExist, Made
<1>5. \A j \in Job : /\ ConfigureTask(j, 1, 0) \in Task /\ DeleteTask(j, 1) \in Task
                      /\ ConfigureTask(j, 1, 0).job = j /\ ConfigureTask(j, 1, 0).step = 1
                      /\ DeleteTask(j, 1).job = j /\ DeleteTask(j, 1).step = 1
  <2>1. \A j \in Job : ConfigureTask(j, 1, 0) \in Task /\ DeleteTask(j, 1) \in Task
    BY TaskTypes, StepsOfDelete
  <2> QED BY <2>1 DEF ConfigureTask, DeleteTask
<1> QED BY <1>3, <1>4, <1>5, MonitorTasks

LEMMA WorkerKeepsJobs ==
  ASSUME TypeInv, JobsExist, NEW w \in Worker, WorkerStep(w)
  PROVE  JobsExist'
<1>a. Typed /\ UNCHANGED <<njobs, queue, mjob, client>> /\ worker[w].job \in 0..njobs
  BY TypeFacts DEF WorkerStep, JobsExist, Made
<1>b. NoTask.job \in 0..njobs
  BY <1>a DEF NoTask, Typed
<1>1. ASSUME NEW t, t.job \in 0..njobs, worker' = [worker EXCEPT ![w] = t],
             Range(poolQueue') \subseteq Range(poolQueue),
             UNCHANGED <<nbuilds, buildOf>>
      PROVE  JobsExist'
  <2>1. \A x \in Worker : worker'[x].job \in 0..njobs
    BY <1>1, <1>a DEF JobsExist, Made, Typed
  <2> QED BY <1>1, <1>a, <2>1 DEF JobsExist, Made
<1>2. CASE StartTask(w)
  <2>1. Range(poolQueue) = {Head(poolQueue)} \union Range(poolQueue')
    BY <1>a, <1>2, TailRange DEF StartTask, Typed
  <2>2. Head(poolQueue).job \in 0..njobs
    BY <2>1 DEF JobsExist, Made
  <2> QED BY <1>1, <1>2, <2>1, <2>2 DEF StartTask
<1>3. CASE CreateBuild(w)
  <2>1. worker[w].job \in 1..njobs
    BY <1>a, <1>3, TaskOfWorker DEF CreateBuild, Running, Job
  <2>2. CASE UNCHANGED buildVars /\ EndTask(w)
    BY <1>1, <1>3, <1>b, <2>2 DEF CreateBuild, EndTask
  <2>3. CASE /\ nbuilds < MaxJobs + 1
             /\ nbuilds' = nbuilds + 1
             /\ buildOf' = [buildOf EXCEPT ![nbuilds + 1] = worker[w].job]
             /\ worker' = [worker EXCEPT ![w] = ConfigureTask(worker[w].job, 2, nbuilds + 1)]
    <3>1. \A b \in 1..nbuilds' : buildOf'[b] \in 1..njobs
      BY <1>a, <2>1, <2>3 DEF Build, JobsExist, Typed
    <3>2. \A x \in Worker : worker'[x].job \in 0..njobs
      BY <1>a, <2>1, <2>3 DEF ConfigureTask, JobsExist, Made, Typed
    <3>3. Range(poolQueue') = Range(poolQueue)
      BY <1>3 DEF CreateBuild
    <3> QED BY <1>a, <3>1, <3>2, <3>3 DEF JobsExist, Made
  <2> QED BY <1>3, <2>2, <2>3 DEF CreateBuild
<1>4. CASE FinishConfigure(w)
  BY <1>1, <1>4, <1>b DEF FinishConfigure, EndTask
<1>5. CASE DeleteResource(w)
  BY <1>a, <1>1, <1>5 DEF DeleteResource, DeleteTask
<1>6. CASE FinishDelete(w)
  BY <1>1, <1>6, <1>b DEF FinishDelete, EndTask
<1> QED BY <1>2, <1>3, <1>4, <1>5, <1>6 DEF WorkerStep

\* What the cluster, Syndesis and the user do is nothing to the threads.
LEMMA EnvironmentFrame ==
  ASSUME Environment
  PROVE  UNCHANGED <<threadVars, nbuilds, buildOf>>
BY DEF Environment, BuildEnds, Rollout, DropDataVirtualization, UseConnection

LEMMA NextKeepsJobs == TypeInv /\ JobsExist /\ [Next]_vars => JobsExist'
<1> SUFFICES ASSUME TypeInv, JobsExist, [Next]_vars PROVE JobsExist'
  OBVIOUS
<1>1. CASE UNCHANGED vars \/ Environment
  BY <1>1, EnvironmentFrame DEF vars, JobsExist, Made
<1>2. CASE Crash
  BY <1>2, TypeFacts, EmptyRange DEF Typed, Crash, JobsExist, Made, NoTask, Idle, At
<1> QED BY <1>1, <1>2, ClientKeepsJobs, MonitorKeepsJobs, WorkerKeepsJobs DEF Next

LEMMA InitJobs == Init => JobsExist
BY EmptyRange DEF Init, JobsExist, Made, NoTask, Idle, At

-----------------------------------------------------------------------------
(* ConfiguredOnce.                                                         *)

LEMMA OneEachAppend ==
  ASSUME NEW seq \in Seq(Task), OneEach(seq), NEW t \in Task,
         \A j \in Job : Configures(t, j) => \A u \in Range(seq) : ~Configures(u, j)
  PROVE  OneEach(Append(seq, t))
<1>1. /\ Len(seq) \in Nat /\ Len(Append(seq, t)) = Len(seq) + 1
      /\ \A i \in 1..Len(seq) : Append(seq, t)[i] = seq[i]
      /\ Append(seq, t)[Len(seq) + 1] = t
  OBVIOUS
<1>2. \A i \in 1..Len(seq) : seq[i] \in Range(seq)
  BY RangeEquality
<1> SUFFICES ASSUME NEW i \in 1..(Len(seq) + 1), NEW k \in 1..(Len(seq) + 1), NEW j \in Job,
                    Configures(Append(seq, t)[i], j), Configures(Append(seq, t)[k], j)
             PROVE  i = k
  BY <1>1 DEF OneEach
<1>3. CASE i \in 1..Len(seq) /\ k \in 1..Len(seq)
  BY <1>1, <1>3 DEF OneEach
<1>4. CASE i = Len(seq) + 1 /\ k \in 1..Len(seq)
  BY <1>1, <1>2, <1>4
<1>5. CASE k = Len(seq) + 1 /\ i \in 1..Len(seq)
  BY <1>1, <1>2, <1>5
<1> QED BY <1>1, <1>3, <1>4, <1>5

LEMMA OneEachTail ==
  ASSUME NEW seq \in Seq(Task), seq # <<>>, OneEach(seq)
  PROVE  /\ OneEach(Tail(seq))
         /\ \A j \in Job : Configures(Head(seq), j) =>
               \A u \in Range(Tail(seq)) : ~Configures(u, j)
<1>1. /\ Len(seq) \in Nat \ {0} /\ Len(Tail(seq)) = Len(seq) - 1
      /\ \A i \in 1..Len(Tail(seq)) : Tail(seq)[i] = seq[i + 1] /\ i + 1 \in 1..Len(seq)
      /\ Head(seq) = seq[1] /\ Tail(seq) \in Seq(Task)
  OBVIOUS
<1>2. Range(Tail(seq)) = {Tail(seq)[i] : i \in 1..Len(Tail(seq))}
  BY <1>1, RangeEquality
<1>3. OneEach(Tail(seq))
  <2> SUFFICES ASSUME NEW i \in 1..Len(Tail(seq)), NEW k \in 1..Len(Tail(seq)), NEW j \in Job,
                      Configures(Tail(seq)[i], j), Configures(Tail(seq)[k], j)
               PROVE  i = k
    BY DEF OneEach
  <2>1. i + 1 = k + 1
    BY <1>1 DEF OneEach
  <2> QED BY <1>1, <2>1
<1>4. ASSUME NEW j \in Job, Configures(Head(seq), j), NEW u \in Range(Tail(seq)), Configures(u, j)
      PROVE  FALSE
  <2>1. PICK i \in 1..Len(Tail(seq)) : u = Tail(seq)[i]
    BY <1>2
  <2>2. Configures(seq[1], j) /\ Configures(seq[i + 1], j) /\ i + 1 \in 1..Len(seq) /\ 1 \in 1..Len(seq)
    BY <1>1, <1>4, <2>1
  <2>3. i + 1 = 1
    BY <2>2 DEF OneEach
  <2> QED BY <1>1, <2>3
<1> QED BY <1>3, <1>4

\* A job that was not made has no task and no build.
LEMMA NewIsUnbuilt ==
  ASSUME TypeInv, JobsExist, NEW j \in Job, ~Made(j)
  PROVE  Unbuilt(j) /\ ~Waits(j) /\ ~Held(j)
<1>1. \A b \in 1..nbuilds : Made(buildOf[b])
  BY TypeFacts DEF Typed, JobsExist, Made
<1> QED BY <1>1 DEF JobsExist, Unbuilt, Waits, Held, Configures

\* A step that starts no build, hands no thread a task and submits at most a
\* delete task keeps the invariant, if only a new job becomes SUBMITTED.
LEMMA ConfigureFrame ==
  ASSUME TypeInv, JobsExist, ConfiguredOnce, UNCHANGED <<worker, nbuilds, buildOf>>,
         \/ poolQueue' = poolQueue
         \/ \E t \in Task : t.kind = "delete" /\ poolQueue' = Append(poolQueue, t),
         \A j \in Job : Pending(j)' => Pending(j) \/ ~Made(j)
  PROVE  ConfiguredOnce'
<1>1. poolQueue \in Seq(Task)
  BY TypeFacts DEF Typed
<1>2. OneEach(poolQueue') /\ \A j \in Job : Waits(j)' <=> Waits(j)
  <2>1. CASE poolQueue' = poolQueue
    BY <2>1 DEF ConfiguredOnce, Waits
  <2>2. CASE \E t \in Task : t.kind = "delete" /\ poolQueue' = Append(poolQueue, t)
    <3>1. PICK t \in Task : t.kind = "delete" /\ poolQueue' = Append(poolQueue, t)
      BY <2>2
    <3>2. \A j \in Job : ~Configures(t, j)
      BY <3>1 DEF Configures
    <3>3. Range(poolQueue') = Range(poolQueue) \union {t}
      BY <3>1, SubmitRange
    <3>4. OneEach(poolQueue')
      BY <1>1, <3>1, <3>2, OneEachAppend DEF ConfiguredOnce
    <3> QED BY <3>2, <3>3, <3>4 DEF Waits
  <2> QED BY <2>1, <2>2
<1>3. \A j \in Job : (Held(j)' <=> Held(j)) /\ (Unbuilt(j)' <=> Unbuilt(j))
  BY DEF Held, Unbuilt
<1>4. \A j \in Job : Pending(j)' => Unbuilt(j) /\ ~Waits(j) /\ ~Held(j)
  BY NewIsUnbuilt DEF ConfiguredOnce
<1>5. \A j \in Job : Pending(j)' => (Unbuilt(j) /\ ~Waits(j) /\ ~Held(j))'
  BY <1>2, <1>3, <1>4
<1>6. \A j \in Job : Waits(j)' => (Unbuilt(j) /\ ~Held(j))'
  BY <1>2, <1>3 DEF ConfiguredOnce
<1>7. \A j \in Job, w \in Worker : Configures(worker'[w], j) /\ worker'[w].step = 1 => Unbuilt(j)'
  BY <1>3 DEF ConfiguredOnce
<1> QED BY <1>2, <1>5, <1>6, <1>7 DEF ConfiguredOnce, OneBuildPerJob

\* Only a request that is new becomes SUBMITTED, and no other thread than the
\* monitor thread has to do with "configure".
LEMMA ClientStatus ==
  ASSUME TypeInv, JobsExist, NEW c \in Client, ClientStep(c), NEW j \in Job
  PROVE  /\ status'[j] = "SUBMITTED" => status[j] = "SUBMITTED" \/ ~Made(j)
         /\ status'[j] = "CONFIGURING" => status[j] = "CONFIGURING"
<1>1. Typed /\ client[c].vdb \in Vdb /\ njobs \in Nat
  BY TypeFacts DEF Typed, ClientState
<1>2. ~Made(njobs + 1)
  BY <1>1 DEF Made
<1>3. CASE UNCHANGED status
  BY <1>3
<1>4. CASE PublishEnqueue(c)
  BY <1>1, <1>2, <1>4 DEF PublishEnqueue, NewJob, Typed
<1>5. CASE DeleteMark(c)
  BY <1>1, <1>5 DEF DeleteMark, Typed
<1>6. CASE DeleteFindService(c) /\ ~UNCHANGED status
  <2>1. PICK s \in VDBService(client[c].vdb) : NewJob(client[c].vdb, s.status, s.name, FALSE)
    BY <1>6 DEF DeleteFindService
  <2>2. s.status \notin {"SUBMITTED", "CONFIGURING"}
    BY <1>1, VDBServiceType DEF TypeInv
  <2> QED BY <1>1, <2>1, <2>2 DEF NewJob, Typed
<1> QED
  BY <1>3, <1>4, <1>5, <1>6
     DEF ClientStep, PublishBegin, DeleteBegin, DeleteFindActive, DeleteSubmit

LEMMA ClientTasks ==
  ASSUME TypeInv, NEW c \in Client, ClientStep(c)
  PROVE  \/ poolQueue' = poolQueue
         \/ \E t \in Task : t.kind = "delete" /\ poolQueue' = Append(poolQueue, t)
<1>1. CASE DeleteSubmit(c)
  <2>1. client[c].job \in Job
    BY <1>1, TypeFacts DEF DeleteSubmit, TypeInv, ActorsHaveJobs, Typed
  <2>2. DeleteTask(client[c].job, 1) \in Task
    BY <2>1, TaskTypes, StepsOfDelete
  <2> QED BY <1>1, <2>2 DEF DeleteSubmit, DeleteTask
<1> QED
  BY <1>1 DEF ClientStep, PublishBegin, PublishEnqueue, DeleteBegin, DeleteFindActive,
              DeleteFindService, DeleteMark

LEMMA ClientKeepsConfigured ==
  ASSUME TypeInv, JobsExist, ConfiguredOnce, NEW c \in Client, ClientStep(c)
  PROVE  ConfiguredOnce'
<1>1. UNCHANGED <<mjob, mpc, worker, nbuilds, buildOf>>
  BY DEF ClientStep
<1>2. \A j \in Job : Pending(j)' => Pending(j) \/ ~Made(j)
  BY <1>1, ClientStatus DEF Pending
<1> QED BY <1>1, <1>2, ClientTasks, ConfigureFrame

\* The monitor thread never sets SUBMITTED, sets CONFIGURING in Configure only,
\* and writes the status of no job but its own.
LEMMA MonitorStatus ==
  ASSUME TypeInv, MonitorStep, NEW j \in Job
  PROVE  /\ j # mjob => status'[j] = status[j]
         /\ status'[j] = "SUBMITTED" => status[j] = "SUBMITTED"
         /\ ~Configure /\ status'[j] = "CONFIGURING" => status[j] = "CONFIGURING"
         /\ ~Configure /\ ~MarkDeploying /\ status'[j] \in {"BUILDING", "DEPLOYING"} =>
               status[j] = status'[j]
<1>1. Typed
  BY TypeFacts
<1>2. CASE UNCHANGED status
  BY <1>2
<1>3. CASE \E s \in Status \ {"SUBMITTED", "CONFIGURING", "BUILDING", "DEPLOYING"} : SetStatus(mjob, s)
  BY <1>1, <1>3 DEF SetStatus, Typed
<1>4. CASE Configure
  BY <1>1, <1>4 DEF Configure, SetStatus, Typed
<1>5. CASE MarkDeploying
  BY <1>1, <1>5 DEF MarkDeploying, SetStatus, Typed
<1>6. \/ UNCHANGED status \/ Configure \/ MarkDeploying
      \/ SetStatus(mjob, "FAILED") \/ SetStatus(mjob, "CANCELLED")
      \/ SetStatus(mjob, "RUNNING") \/ SetStatus(mjob, "DELETE_SUBMITTED")
  BY DEF MonitorStep, Take, TestStatus, Redelete, Remark, Disconnect, GetBuild, Deploy,
         CheckDeployment, CreateServices, Connect, SaveSource, MarkRunning
<1> QED BY <1>2, <1>3, <1>4, <1>5, <1>6 DEF Status

LEMMA MonitorKeepsConfigured ==
  ASSUME TypeInv, JobsExist, ConfiguredOnce, MonitorStep
  PROVE  ConfiguredOnce'
<1>1. Typed /\ UNCHANGED <<worker, nbuilds, buildOf>>
  BY TypeFacts DEF MonitorStep
<1>2. CASE ~Configure
  <2>1. \/ poolQueue' = poolQueue
        \/ \E t \in Task : t.kind = "delete" /\ poolQueue' = Append(poolQueue, t)
    <3>1. \A j \in Job : DeleteTask(j, 1) \in Task /\ DeleteTask(j, 1).kind = "delete"
      <4>1. \A j \in Job : DeleteTask(j, 1) \in Task
        BY TaskTypes, StepsOfDelete
      <4> QED BY <4>1 DEF DeleteTask
    <3> QED BY <1>2, <3>1, MonitorTasks
  <2>2. mpc' = "configure" => mjob' = mjob /\ status[mjob] = "SUBMITTED"
    BY <1>2 DEF MonitorStep, Take, TestStatus, Test, Redelete, Remark, Disconnect, GetBuild,
        Deploy, MarkDeploying, CheckDeployment, CreateServices, Connect, SaveSource,
        MarkRunning, Continue, Resubmit, Retire
  <2>3. \A j \in Job : Pending(j)' => Pending(j)
    BY <2>2, MonitorStatus DEF Pending
  <2> QED BY <1>1, <2>1, <2>3, ConfigureFrame
<1>3. CASE Configure
  <2> DEFINE t == ConfigureTask(mjob, 1, 0)
  <2>1. mjob \in Job /\ t \in Task /\ poolQueue' = Append(poolQueue, t) /\ mpc' = "idle"
        /\ status' = [status EXCEPT ![mjob] = "CONFIGURING"]
    BY <1>1, <1>3, TaskTypes DEF Configure, Typed, Resubmit, SetStatus
  <2>2. \A j \in Job : Configures(t, j) <=> j = mjob
    BY DEF Configures, ConfigureTask
  <2>3. Pending(mjob)
    BY <1>3 DEF Pending, Configure
  <2> HIDE DEF t
  <2>4. Range(poolQueue') = Range(poolQueue) \union {t}
    BY <2>1, SubmitRange
  <2>5. \A j \in Job : Waits(j)' <=> Waits(j) \/ j = mjob
    BY <2>2, <2>4 DEF Waits
  <2>6. \A j \in Job : (Held(j)' <=> Held(j)) /\ (Unbuilt(j)' <=> Unbuilt(j))
    BY <1>1 DEF Held, Unbuilt
  <2>7. \A u \in Range(poolQueue) : ~Configures(u, mjob)
    BY <2>1, <2>3 DEF ConfiguredOnce, Waits
  <2>8. OneEach(poolQueue')
    BY <1>1, <2>1, <2>2, <2>7, OneEachAppend DEF ConfiguredOnce, Typed
  <2>9. \A j \in Job : Pending(j)' => Pending(j) /\ j # mjob
    BY <1>1, <2>1 DEF Pending, Typed
  <2>10. \A j \in Job : Waits(j)' => (Unbuilt(j) /\ ~Held(j))'
    BY <2>1, <2>3, <2>5, <2>6 DEF ConfiguredOnce
  <2>11. \A j \in Job : Pending(j)' => (Unbuilt(j) /\ ~Waits(j) /\ ~Held(j))'
    BY <2>5, <2>6, <2>9 DEF ConfiguredOnce
  <2>12. \A j \in Job, w \in Worker : Configures(worker'[w], j) /\ worker'[w].step = 1 => Unbuilt(j)'
    BY <1>1, <2>6 DEF ConfiguredOnce
  <2> QED BY <1>1, <2>8, <2>10, <2>11, <2>12 DEF ConfiguredOnce, OneBuildPerJob
<1> QED BY <1>2, <1>3

\* The threads of configureService end what was CONFIGURING or being deleted.
LEMMA WorkerStatus ==
  ASSUME TypeInv, NEW w \in Worker, WorkerStep(w), NEW j \in Job
  PROVE  /\ status'[j] = "SUBMITTED" => status[j] = "SUBMITTED"
         /\ status'[j] = "CONFIGURING" => status[j] = "CONFIGURING"
         /\ ~(FinishConfigure(w) /\ worker[w].job = j) /\ status'[j] \in {"BUILDING", "DEPLOYING"} =>
               status[j] = status'[j]
         /\ Configures(worker[w], j) /\ status'[j] = "CONFIGURING" =>
               Configures(worker'[w], j)
<1>1. Typed
  BY TypeFacts
<1>2. CASE StartTask(w)
  BY <1>1, <1>2 DEF StartTask, Configures, NoTask
<1>3. CASE CreateBuild(w)
  <2>1. CASE SetStatus(worker[w].job, "FAILED")
    BY <1>1, <2>1 DEF SetStatus, Typed, Configures
  <2>2. CASE UNCHANGED status /\ worker' = [worker EXCEPT ![w] = ConfigureTask(worker[w].job, 2, nbuilds + 1)]
    BY <1>1, <2>2 DEF Typed, Configures, ConfigureTask
  <2> QED BY <1>3, <2>1, <2>2 DEF CreateBuild
<1>4. CASE FinishConfigure(w)
  <2>1. \E s \in {"BUILDING", "FAILED"} : SetStatus(worker[w].job, s)
    BY <1>4 DEF FinishConfigure
  <2> QED BY <1>1, <1>4, <2>1 DEF SetStatus, Typed, Configures
<1>5. CASE DeleteResource(w)
  <2>1. worker[w].kind = "delete" /\ (UNCHANGED status \/ SetStatus(worker[w].job, "DELETE_REQUEUE"))
    BY <1>5 DEF DeleteResource
  <2> QED BY <1>1, <2>1 DEF SetStatus, Typed, Configures
<1>6. CASE FinishDelete(w)
  <2>1. worker[w].kind = "delete" /\ SetStatus(worker[w].job, "DELETE_DONE")
    BY <1>6 DEF FinishDelete, Running
  <2> QED BY <1>1, <2>1 DEF SetStatus, Typed, Configures
<1> QED BY <1>2, <1>3, <1>4, <1>5, <1>6 DEF WorkerStep

LEMMA WorkerKeepsConfigured ==
  ASSUME TypeInv, JobsExist, ConfiguredOnce, NEW w \in Worker, WorkerStep(w)
  PROVE  ConfiguredOnce'
<1>1. Typed /\ UNCHANGED <<mjob, mpc>>
  BY TypeFacts DEF WorkerStep
<1>2. \A j \in Job : Pending(j)' => Pending(j)
  BY <1>1, WorkerStatus DEF Pending
<1>3. CASE StartTask(w)
  <2> DEFINE t == Head(poolQueue)
  <2>1. /\ worker' = [worker EXCEPT ![w] = t] /\ poolQueue' = Tail(poolQueue)
        /\ poolQueue # <<>> /\ worker[w] = NoTask /\ UNCHANGED <<nbuilds, buildOf>>
    BY <1>3 DEF StartTask
  <2>2. Range(poolQueue) = {t} \union Range(poolQueue')
    BY <1>1, <2>1, TailRange DEF Typed
  <2>3. /\ OneEach(poolQueue')
        /\ \A j \in Job : Configures(t, j) => \A u \in Range(poolQueue') : ~Configures(u, j)
    BY <1>1, <2>1, OneEachTail DEF ConfiguredOnce, Typed
  <2> HIDE DEF t
  <2>4. \A j \in Job : /\ Configures(t, j) => Waits(j) /\ ~Waits(j)'
                       /\ Waits(j)' => Waits(j)
    BY <2>2, <2>3 DEF Waits
  <2>5. \A j \in Job : Unbuilt(j)' <=> Unbuilt(j)
    BY <2>1 DEF Unbuilt
  <2>6. worker'[w] = t /\ \A x \in Worker \ {w} : worker'[x] = worker[x]
    BY <1>1, <2>1 DEF Typed
  <2>7. \A j \in Job : Held(j)' => Held(j) \/ Configures(t, j)
    BY <2>6 DEF Held
  <2>8. \A x, y \in Worker, j \in Job :
           Configures(worker'[x], j) /\ Configures(worker'[y], j) => x = y
    <3>1. \A j \in Job : Configures(t, j) => ~Held(j)
      BY <2>4 DEF ConfiguredOnce
    <3> QED BY <2>6, <3>1 DEF ConfiguredOnce, Held
  <2>9. \A j \in Job, x \in Worker : Configures(worker'[x], j) /\ worker'[x].step = 1 => Unbuilt(j)'
    BY <2>4, <2>5, <2>6 DEF ConfiguredOnce
  <2>10. \A j \in Job : Waits(j)' => (Unbuilt(j) /\ ~Held(j))'
    BY <2>4, <2>5, <2>7 DEF ConfiguredOnce
  <2>11. \A j \in Job : Pending(j)' => (Unbuilt(j) /\ ~Waits(j) /\ ~Held(j))'
    BY <1>2, <2>4, <2>5, <2>7 DEF ConfiguredOnce
  <2> QED BY <2>1, <2>3, <2>8, <2>9, <2>10, <2>11 DEF ConfiguredOnce, OneBuildPerJob
\* A thread that goes on with a task of the job it had, or with none.
<1>4. ASSUME NEW t, worker' = [worker EXCEPT ![w] = t],
             \A j \in Job : Configures(t, j) => Configures(worker[w], j) /\ worker[w].step = 1 /\ t.step = 2,
             poolQueue' = poolQueue
      PROVE  /\ OneEach(poolQueue')
             /\ \A j \in Job : (Held(j)' => Held(j)) /\ (Waits(j)' <=> Waits(j))
             /\ \A x, y \in Worker, j \in Job :
                   Configures(worker'[x], j) /\ Configures(worker'[y], j) => x = y
             /\ \A j \in Job, x \in Worker : Configures(worker'[x], j) /\ worker'[x].step = 1 =>
                   x # w /\ Unbuilt(j)
  <2>1. worker'[w] = t /\ \A x \in Worker \ {w} : worker'[x] = worker[x]
    BY <1>1, <1>4 DEF Typed
  <2>2. \A j \in Job : (Held(j)' => Held(j)) /\ (Waits(j)' <=> Waits(j))
    BY <1>4, <2>1 DEF Held, Waits
  <2>3. \A x, y \in Worker, j \in Job :
           Configures(worker'[x], j) /\ Configures(worker'[y], j) => x = y
    BY <1>4, <2>1 DEF ConfiguredOnce
  <2>4. \A j \in Job, x \in Worker : Configures(worker'[x], j) /\ worker'[x].step = 1 =>
           x # w /\ Unbuilt(j)
    BY <1>4, <2>1 DEF ConfiguredOnce
  <2> QED BY <1>4, <2>2, <2>3, <2>4 DEF ConfiguredOnce
<1>5. ASSUME NEW t, worker' = [worker EXCEPT ![w] = t], t.kind # "configure",
             UNCHANGED <<poolQueue, nbuilds, buildOf>>
      PROVE  ConfiguredOnce'
  <2>1. \A j \in Job : ~Configures(t, j)
    BY <1>5 DEF Configures
  <2>2. \A j \in Job : Unbuilt(j)' <=> Unbuilt(j)
    BY <1>5 DEF Unbuilt
  <2> QED BY <1>2, <1>4, <1>5, <2>1, <2>2 DEF ConfiguredOnce, OneBuildPerJob
<1>6. NoTask.kind # "configure" /\ \A j, i : DeleteTask(j, i).kind # "configure"
  BY DEF NoTask, DeleteTask
<1>7. CASE FinishConfigure(w) \/ FinishDelete(w)
  BY <1>5, <1>6, <1>7 DEF FinishConfigure, FinishDelete, EndTask
<1>8. CASE DeleteResource(w)
  BY <1>5, <1>6, <1>8 DEF DeleteResource
<1>9. CASE CreateBuild(w)
  <2>1. CASE UNCHANGED buildVars /\ EndTask(w)
    BY <1>5, <1>6, <1>9, <2>1 DEF CreateBuild, EndTask
  <2>2. CASE /\ nbuilds < MaxJobs + 1
             /\ nbuilds' = nbuilds + 1
             /\ buildOf' = [buildOf EXCEPT ![nbuilds + 1] = worker[w].job]
             /\ worker' = [worker EXCEPT ![w] = ConfigureTask(worker[w].job, 2, nbuilds + 1)]
    <3> DEFINE k == worker[w].job
    <3>1. k \in Job /\ Configures(worker[w], k) /\ worker[w].step = 1
      BY <1>9, TaskOfWorker DEF CreateBuild, Running, Configures
    <3>2. Unbuilt(k) /\ Held(k)
      BY <3>1 DEF ConfiguredOnce, Held
    <3>3. \A j \in Job : Configures(ConfigureTask(k, 2, nbuilds + 1), j) =>
             j = k /\ ConfigureTask(k, 2, nbuilds + 1).step = 2
      BY DEF Configures, ConfigureTask
    <3>4. poolQueue' = poolQueue
      BY <1>9 DEF CreateBuild
    <3>5. /\ nbuilds + 1 \in Build /\ nbuilds \in Nat /\ buildOf'[nbuilds + 1] = k
          /\ \A b \in 1..nbuilds : buildOf'[b] = buildOf[b]
          /\ 1..nbuilds' = (1..nbuilds) \union {nbuilds + 1}
      BY <1>1, <2>2 DEF Build, Typed
    <3> HIDE DEF k
    <3>6. OneBuildPerJob'
      BY <3>2, <3>5 DEF ConfiguredOnce, OneBuildPerJob, Unbuilt
    <3>7. \A j \in Job : j # k => (Unbuilt(j)' <=> Unbuilt(j))
      BY <3>5 DEF Unbuilt
    <3>8. /\ OneEach(poolQueue')
          /\ \A j \in Job : (Held(j)' => Held(j)) /\ (Waits(j)' <=> Waits(j))
          /\ \A x, y \in Worker, j \in Job :
                Configures(worker'[x], j) /\ Configures(worker'[y], j) => x = y
          /\ \A j \in Job, x \in Worker : Configures(worker'[x], j) /\ worker'[x].step = 1 =>
                x # w /\ Unbuilt(j)
      BY <1>4, <2>2, <3>1, <3>3, <3>4 DEF k
    <3>9. \A j \in Job, x \in Worker : Configures(worker'[x], j) /\ worker'[x].step = 1 =>
             Unbuilt(j)'
      <4>1. \A x \in Worker \ {w} : ~Configures(worker'[x], k)
        BY <1>1, <2>2, <3>1 DEF ConfiguredOnce, Typed
      <4> QED BY <3>7, <3>8, <4>1
    <3>10. \A j \in Job : Waits(j)' => (Unbuilt(j) /\ ~Held(j))'
      BY <3>2, <3>7, <3>8 DEF ConfiguredOnce
    <3>11. \A j \in Job : Pending(j)' => (Unbuilt(j) /\ ~Waits(j) /\ ~Held(j))'
      BY <1>2, <3>2, <3>7, <3>8 DEF ConfiguredOnce
    <3> QED BY <3>6, <3>8, <3>9, <3>10, <3>11 DEF ConfiguredOnce
  <2> QED BY <1>9, <2>1, <2>2 DEF CreateBuild
<1> QED BY <1>3, <1>7, <1>8, <1>9 DEF WorkerStep

\* A restart leaves no task and no request.
LEMMA CrashKeepsConfigured ==
  ASSUME TypeInv, ConfiguredOnce, Crash
  PROVE  ConfiguredOnce'
<1>1. /\ poolQueue' = <<>> /\ worker' = [w \in Worker |-> NoTask]
      /\ status' = [j \in Job |-> "NOTFOUND"] /\ mpc' = "idle" /\ UNCHANGED <<nbuilds, buildOf>>
  BY DEF Crash
<1>2. \A j \in Job : ~Waits(j)' /\ ~Held(j)' /\ ~Pending(j)'
  BY <1>1, EmptyRange DEF Waits, Held, Pending, Configures, NoTask
<1>3. OneEach(poolQueue')
  BY <1>1 DEF OneEach
<1>4. \A w \in Worker, j \in Job : ~Configures(worker'[w], j)
  BY <1>1 DEF Configures, NoTask
<1> QED BY <1>1, <1>2, <1>3, <1>4 DEF ConfiguredOnce, OneBuildPerJob

LEMMA NextKeepsConfigured == TypeInv /\ JobsExist /\ ConfiguredOnce /\ [Next]_vars => ConfiguredOnce'
<1> SUFFICES ASSUME TypeInv, JobsExist, ConfiguredOnce, [Next]_vars PROVE ConfiguredOnce'
  OBVIOUS
<1>1. CASE UNCHANGED vars \/ Environment
  <2>1. UNCHANGED <<status, mjob, mpc, poolQueue, worker, nbuilds, buildOf>>
    BY <1>1, EnvironmentFrame DEF vars
  <2>2. \A j \in Job : /\ (Waits(j)' <=> Waits(j)) /\ (Held(j)' <=> Held(j))
                        /\ (Unbuilt(j)' <=> Unbuilt(j)) /\ (Pending(j)' <=> Pending(j))
    BY <2>1 DEF Waits, Held, Unbuilt, Pending
  <2>3. OneEach(poolQueue')
    BY <2>1 DEF ConfiguredOnce
  <2> QED BY <2>1, <2>2, <2>3 DEF ConfiguredOnce, OneBuildPerJob
<1> QED BY <1>1, ClientKeepsConfigured, MonitorKeepsConfigured, WorkerKeepsConfigured,
           CrashKeepsConfigured DEF Next

LEMMA InitConfigured == Init => ConfiguredOnce
<1> SUFFICES ASSUME Init PROVE ConfiguredOnce
  OBVIOUS
<1>1. /\ poolQueue = <<>> /\ worker = [w \in Worker |-> NoTask] /\ nbuilds = 0
      /\ status = [j \in Job |-> "NOTFOUND"] /\ mpc = "idle"
  BY DEF Init
<1>2. \A j \in Job : ~Waits(j) /\ ~Held(j) /\ ~Pending(j)
  BY <1>1, EmptyRange DEF Waits, Held, Pending, Configures, NoTask
<1>3. OneEach(poolQueue)
  BY <1>1 DEF OneEach
<1>4. \A w \in Worker, j \in Job : ~Configures(worker[w], j)
  BY <1>1 DEF Configures, NoTask
<1> QED BY <1>1, <1>2, <1>3, <1>4 DEF ConfiguredOnce, OneBuildPerJob

\* The configuration of a job's builds, as an invariant of the whole system.
LEMMA JobInvariant == Spec => [](TypeInv /\ JobsExist /\ ConfiguredOnce)
<1> DEFINE I == TypeInv /\ JobsExist /\ ConfiguredOnce
<1>1. Init => I
  BY InitTypeInv, InitJobs, InitConfigured
<1>2. I /\ [Next]_vars => I'
  BY NextKeepsTypes, NextKeepsJobs, NextKeepsConfigured
<1> HIDE DEF I
<1>3. Spec => []I
  BY <1>1, <1>2, PTL DEF Spec
<1> QED BY <1>3 DEF I

\* One publish request starts one build, whatever the REST threads, the monitor
\* thread and the threads of configureService do in between, for any number of
\* each: configureBuild runs once for a job although run() reads the status
\* piecemeal and a job may have two runners.
THEOREM OneBuild == Spec => []OneBuildPerJob
<1>1. TypeInv /\ JobsExist /\ ConfiguredOnce => OneBuildPerJob
  BY DEF ConfiguredOnce
<1> QED BY <1>1, JobInvariant, PTL

-----------------------------------------------------------------------------
(* PendingKept.                                                            *)

LEMMA WorkerRange == TypeInv => Range(worker) = {worker[w] : w \in Worker}
BY TypeFacts DEF Typed, Range

LEMMA ConfigureInHand ==
  ASSUME TypeInv, NEW j \in Job
  PROVE  InHand("configure", j) <=> Waits(j) \/ Held(j)
BY WorkerRange DEF InHand, Waits, Held, Configures

\* The invariant in the terms of ConfiguredOnce.
Watched(j) ==
    /\ status[j] \in {"SUBMITTED", "CONFIGURING"} => Live(j)
    /\ status[j] = "CONFIGURING" => Waits(j) \/ Held(j)

InPlace ==
    /\ mjob # 0 /\ status[mjob] = "SUBMITTED" => mpc \in BeforeConfigure \union {"configure"}
    /\ mjob # 0 /\ status[mjob] = "CONFIGURING" => mpc \in BeforeConfigure \union {"isConfiguring"}

WatchedInPlace == (\A j \in Job : Watched(j)) /\ InPlace

LEMMA PendingMeans == TypeInv => (PendingKept <=> WatchedInPlace)
BY ConfigureInHand DEF PendingKept, PendingIsMonitored, Watched, InPlace, WatchedInPlace

LEMMA PendingMeansNext == TypeInv' => (PendingKept' <=> WatchedInPlace')
BY PendingMeans, PTL

LEMMA ClientKeepsPending ==
  ASSUME TypeInv, JobsExist, PendingKept, NEW c \in Client, ClientStep(c)
  PROVE  PendingKept'
<1>1. TypeInv' /\ Typed
  BY ClientKeepsTypes, TypeFacts
<1>2. UNCHANGED <<mjob, mpc, worker>> /\ (mjob # 0 => mjob \in Job /\ Made(mjob))
  BY <1>1 DEF ClientStep, JobsExist, Typed
<1>3. Range(poolQueue) \subseteq Range(poolQueue')
  BY ClientTasks, SubmitRange
<1>4. Range(queue) \subseteq Range(queue')
  <2>1. CASE UNCHANGED queue
    BY <2>1
  <2>2. CASE PublishEnqueue(c)
    <3>1. njobs + 1 \in Job /\ queue' = Append(queue, njobs + 1)
      BY <1>1, <2>2 DEF PublishEnqueue, NewJob, Job, Typed
    <3> QED BY <1>1, <3>1, AppendRange DEF Typed
  <2>3. CASE DeleteMark(c)
    <3>1. client[c].job \in Job
      BY <1>1, <2>3 DEF DeleteMark, TypeInv, ActorsHaveJobs, Typed
    <3> QED BY <1>1, <2>3, <3>1, AppendRange DEF DeleteMark, Typed
  <2> QED BY <2>1, <2>2, <2>3 DEF ClientStep, PublishBegin, DeleteBegin, DeleteFindActive,
             DeleteFindService, DeleteSubmit
<1>5. \A j \in Job : (Live(j) => Live(j)') /\ (Waits(j) \/ Held(j) => (Waits(j) \/ Held(j))')
  BY <1>2, <1>3, <1>4 DEF Live, Waits, Held
<1>6. \A j \in Job : status'[j] = "SUBMITTED" => status[j] = "SUBMITTED" \/ Live(j)'
  <2>1. CASE PublishEnqueue(c)
    <3>1. /\ njobs + 1 \in Job /\ queue' = Append(queue, njobs + 1)
          /\ status' = [status EXCEPT ![njobs + 1] = "SUBMITTED"]
      BY <1>1, <2>1 DEF PublishEnqueue, NewJob, Job, Typed
    <3>2. njobs + 1 \in Range(queue')
      BY <1>1, <3>1, AppendRange DEF Typed
    <3> QED BY <1>1, <3>1, <3>2 DEF Live, Typed
  <2>2. CASE UNCHANGED status \/ DeleteMark(c)
    BY <1>1, <2>2 DEF DeleteMark, Typed
  <2>3. CASE DeleteFindService(c) /\ ~UNCHANGED status
    <3>1. client[c].vdb \in Vdb
      BY <1>1 DEF Typed, ClientState
    <3>2. PICK s \in VDBService(client[c].vdb) : NewJob(client[c].vdb, s.status, s.name, FALSE)
      BY <2>3 DEF DeleteFindService
    <3>3. s.status \notin {"SUBMITTED", "CONFIGURING"}
      BY <3>1, VDBServiceType DEF TypeInv
    <3> QED BY <1>1, <3>2, <3>3 DEF NewJob, Typed
  <2> QED BY <2>1, <2>2, <2>3 DEF ClientStep, PublishBegin, DeleteBegin, DeleteFindActive,
             DeleteSubmit
<1>7. \A j \in Job : Watched(j)'
  <2>1. \A j \in Job : status'[j] = "CONFIGURING" => status[j] = "CONFIGURING"
    BY ClientStatus
  <2> QED BY <1>5, <1>6, <2>1, PendingMeans DEF Watched, WatchedInPlace
<1>8. InPlace'
  BY <1>2, ClientStatus, PendingMeans DEF InPlace, WatchedInPlace
<1> QED BY <1>1, <1>7, <1>8, PendingMeansNext DEF WatchedInPlace

LEMMA MonitorKeepsPending ==
  ASSUME TypeInv, PendingKept, MonitorStep
  PROVE  PendingKept'
<1>1. TypeInv' /\ Typed /\ UNCHANGED worker
  BY MonitorKeepsTypes, TypeFacts DEF MonitorStep
<1>2. (\A j \in Job : Watched(j)) /\ InPlace
  BY PendingMeans DEF WatchedInPlace
\* A runner that is not queued again has a job that is past being configured.
<1>3. \A j \in Job : Live(j) => Live(j)' \/ status[j] \notin {"SUBMITTED", "CONFIGURING"}
  <2>1. CASE ~Retire
    <3>1. \A j \in Job : Live(j) => Live(j)'
      <4>1. CASE (Take /\ Takes) \/ Stays
        BY <1>1, <4>1 DEF Takes, Stays, Live, Typed, Job
      <4>2. CASE LetsGo /\ Range(queue') = Range(queue) \union {mjob}
        BY <4>2 DEF Live
      <4>3. CASE LetsGo /\ queue' = queue
        <5>1. Resubmit
          BY <2>1, <4>3 DEF LetsGo, MonitorStep, Take, TestStatus, Test, Configure, Redelete,
             Remark, Disconnect, GetBuild, Deploy, MarkDeploying, CheckDeployment,
             CreateServices, Connect, SaveSource, MarkRunning, Continue
        <5> QED BY <4>3, <5>1, ResubmitRange DEF LetsGo, Live
      <4> QED BY <4>1, <4>2, <4>3, MonitorMoves DEF LetsGo
    <3> QED BY <3>1
  <2>2. CASE Retire
    <3>1. \/ mjob = 0 \/ status[mjob] \in {"FAILED", "CANCELLED"}
          \/ mpc \notin BeforeConfigure \union {"configure", "isConfiguring"}
      BY <1>1, <2>2 DEF Typed, BeforeConfigure, Retire, MonitorStep, Take, TestStatus, Test, Configure,
         Redelete, Remark, Disconnect, GetBuild, Deploy, MarkDeploying, CheckDeployment,
         CreateServices, Connect, SaveSource, MarkRunning, Continue, Resubmit
    <3>2. mjob = 0 \/ status[mjob] \notin {"SUBMITTED", "CONFIGURING"}
      BY <1>2, <3>1 DEF InPlace
    <3> QED BY <1>1, <2>2, <3>2 DEF Retire, Live, Typed
  <2> QED BY <2>1, <2>2
<1>4. CASE Configure
  <2>1. /\ mjob \in Job /\ status' = [status EXCEPT ![mjob] = "CONFIGURING"] /\ mjob' = 0
        /\ poolQueue' = Append(poolQueue, ConfigureTask(mjob, 1, 0))
        /\ Resubmit
    BY <1>1, <1>4 DEF Configure, Typed, SetStatus, Resubmit
  <2>2. Range(poolQueue') = Range(poolQueue) \union {ConfigureTask(mjob, 1, 0)}
    BY <2>1, TaskTypes, SubmitRange
  <2>3. \A j \in Job : j = mjob => Configures(ConfigureTask(mjob, 1, 0), j)
    BY DEF Configures, ConfigureTask
  <2>4. \A j \in Job : j = mjob \/ Waits(j) \/ Held(j) => (Waits(j) \/ Held(j))'
    BY <1>1, <2>2, <2>3 DEF Waits, Held
  <2>5. \A j \in Job : j = mjob \/ Live(j) => Live(j)'
    <3>1. Range(queue') = Range(queue) \union {mjob}
      BY <2>1, ResubmitRange, 0 \notin Job DEF Job
    <3> QED BY <3>1 DEF Live
  <2>6. \A j \in Job : Watched(j)'
    BY <1>1, <1>2, <2>1, <2>4, <2>5 DEF Watched, Typed
  <2>7. InPlace'
    BY <2>1 DEF InPlace
  <2> QED BY <1>1, <2>6, <2>7, PendingMeansNext DEF WatchedInPlace
<1>5. CASE ~Configure
  <2>1. \A j \in Job : /\ status'[j] = "SUBMITTED" => status[j] = "SUBMITTED"
                       /\ status'[j] = "CONFIGURING" => status[j] = "CONFIGURING"
    BY <1>5, MonitorStatus
  <2>2. Range(poolQueue) \subseteq Range(poolQueue')
    <3>1. \A j \in Job : DeleteTask(j, 1) \in Task
      BY TaskTypes, StepsOfDelete
    <3> QED BY <1>5, <3>1, MonitorTasks, SubmitRange
  <2>3. \A j \in Job : Waits(j) \/ Held(j) => (Waits(j) \/ Held(j))'
    BY <1>1, <2>2 DEF Waits, Held
  <2>4. \A j \in Job : Watched(j)'
    BY <1>2, <1>3, <2>1, <2>3 DEF Watched
  <2>5. InPlace'
    <3>1. CASE mjob' = 0
      BY <3>1 DEF InPlace
    <3>2. CASE mjob' # 0 /\ Take
      BY <3>2 DEF InPlace, Take, BeforeConfigure
    <3>3. CASE mjob' # 0 /\ ~Take
      <4>1. mjob' = mjob /\ mjob \in Job
        BY <1>1, <3>3, MonitorMoves DEF Stays, LetsGo, Typed
      <4>2. mpc # "configure"
        BY <1>5, <3>3 DEF MonitorStep, Take, TestStatus, Test, Redelete, Remark, Disconnect,
           GetBuild, Deploy, MarkDeploying, CheckDeployment, CreateServices, Connect,
           SaveSource, MarkRunning
      <4>3. CASE TestStatus
        BY <1>2, <2>1, <4>1, <4>3 DEF InPlace, TestStatus, Test, Continue, Resubmit, Retire, BeforeConfigure
      <4>4. CASE ~TestStatus
        <5>1. mpc \notin BeforeConfigure \union {"configure", "isConfiguring"}
          BY <1>5, <3>3, <4>4 DEF BeforeConfigure, MonitorStep, Redelete, Remark, Disconnect,
             GetBuild, Deploy, MarkDeploying, CheckDeployment, CreateServices, Connect,
             SaveSource, MarkRunning
        <5>2. status'[mjob] \notin {"SUBMITTED", "CONFIGURING"}
          BY <1>2, <2>1, <4>1, <5>1, <3>3 DEF InPlace
        <5> QED BY <4>1, <5>2 DEF InPlace
      <4> QED BY <4>3, <4>4
    <3> QED BY <3>1, <3>2, <3>3
  <2> QED BY <1>1, <2>4, <2>5, PendingMeansNext DEF WatchedInPlace
<1> QED BY <1>4, <1>5

LEMMA WorkerKeepsPending ==
  ASSUME TypeInv, PendingKept, NEW w \in Worker, WorkerStep(w)
  PROVE  PendingKept'
<1>1. TypeInv' /\ Typed /\ UNCHANGED <<queue, mjob, mpc>>
  BY WorkerKeepsTypes, TypeFacts DEF WorkerStep
<1>2. (\A j \in Job : Watched(j)) /\ InPlace
  BY PendingMeans DEF WatchedInPlace
<1>3. \A j \in Job : /\ status'[j] = "SUBMITTED" => status[j] = "SUBMITTED"
                     /\ status'[j] = "CONFIGURING" => status[j] = "CONFIGURING"
  BY WorkerStatus
<1>4. \A x \in Worker \ {w} : worker'[x] = worker[x]
  BY <1>1 DEF WorkerStep, StartTask, CreateBuild, FinishConfigure, DeleteResource, FinishDelete,
              EndTask, Typed
<1>5. \A j \in Job : status'[j] = "CONFIGURING" /\ Held(j) => Held(j)'
  BY <1>4, WorkerStatus DEF Held
<1>6. \A j \in Job : status'[j] = "CONFIGURING" /\ Waits(j) => (Waits(j) \/ Held(j))'
  <2>1. CASE StartTask(w)
    <3>1. Range(poolQueue) = {Head(poolQueue)} \union Range(poolQueue')
          /\ worker'[w] = Head(poolQueue)
      BY <1>1, <2>1, TailRange DEF StartTask, Typed
    <3> QED BY <3>1 DEF Waits, Held
  <2>2. CASE poolQueue' = poolQueue
    BY <2>2 DEF Waits
  <2> QED BY <2>1, <2>2 DEF WorkerStep, CreateBuild, FinishConfigure, DeleteResource, FinishDelete
<1>7. \A j \in Job : Watched(j)'
  <2>1. \A j \in Job : Live(j)' <=> Live(j)
    BY <1>1 DEF Live
  <2> QED BY <1>2, <1>3, <1>5, <1>6, <2>1 DEF Watched
<1>8. InPlace'
  BY <1>1, <1>2, <1>3 DEF InPlace, Typed
<1> QED BY <1>1, <1>7, <1>8, PendingMeansNext DEF WatchedInPlace

LEMMA NextKeepsPending == TypeInv /\ JobsExist /\ PendingKept /\ [Next]_vars => PendingKept'
<1> SUFFICES ASSUME TypeInv, JobsExist, PendingKept, [Next]_vars PROVE PendingKept'
  OBVIOUS
<1>1. TypeInv'
  BY NextKeepsTypes
<1>2. CASE UNCHANGED vars \/ Environment
  <2>1. UNCHANGED <<status, mjob, mpc, queue, poolQueue, worker>>
    BY <1>2, EnvironmentFrame DEF vars
  <2>2. \A j \in Job : (InHand("configure", j)' <=> InHand("configure", j)) /\ (Live(j)' <=> Live(j))
    BY <2>1 DEF InHand, Live
  <2> QED BY <2>1, <2>2 DEF PendingKept, PendingIsMonitored
<1>3. CASE Crash
  BY <1>3 DEF Crash, PendingKept, PendingIsMonitored
<1> QED BY <1>2, <1>3, ClientKeepsPending, MonitorKeepsPending, WorkerKeepsPending DEF Next

\* A publish request that was accepted is not lost before it is configured: a
\* runner looks after it, and one that is CONFIGURING has a configure task that
\* will end that, through every interleaving of publish and delete requests,
\* run(), the tasks of configureService, failing calls and restarts.
THEOREM NothingPendingIsLost == Spec => []PendingIsMonitored
<1>1. Init => PendingKept
  BY DEF Init, PendingKept, PendingIsMonitored
<1>2. TypeInv /\ JobsExist /\ ConfiguredOnce /\ PendingKept /\ [Next]_vars => PendingKept'
  BY NextKeepsPending
<1>3. PendingKept => PendingIsMonitored
  BY DEF PendingKept
<1>4. Spec => [](TypeInv /\ JobsExist /\ ConfiguredOnce /\ PendingKept)
  BY <1>1, <1>2, JobInvariant, PTL DEF Spec
<1> QED BY <1>3, <1>4, PTL

-----------------------------------------------------------------------------
(* DeployableKept.                                                         *)

\* A step that makes no job leaves the names and configurations alone.
LEMMA ClientKeepsDeployable ==
  ASSUME TypeInv, JobsExist, DeployableKept, NEW c \in Client, ClientStep(c)
  PROVE  DeployableKept'
<1>1. Typed /\ client[c].vdb \in Vdb /\ njobs \in Nat
  BY TypeFacts DEF Typed, ClientState
<1>2. UNCHANGED <<mjob, mpc, worker>> /\ (mpc # "idle" => mjob \in 1..njobs)
      /\ \A j \in Job : Live(j) => j \in 1..njobs
  BY <1>1 DEF ClientStep, JobsExist, Made, Typed, Live, Job
<1>3. /\ \A t \in Range(poolQueue'), j \in Job : Configures(t, j) => config[j] /\ j \in 1..njobs
      /\ \A w \in Worker, j \in Job : Configures(worker'[w], j) =>
            config[j] /\ j \in 1..njobs /\ (worker'[w].step = 2 => worker'[w].build # 0)
  <2>1. \A t \in Range(poolQueue'), j \in Job : Configures(t, j) => t \in Range(poolQueue)
    BY ClientTasks, SubmitRange DEF Configures
  <2>2. \A t \in Range(poolQueue), j \in Job : Configures(t, j) => config[j] /\ j \in 1..njobs
    BY DEF DeployableKept, JobsExist, Made, Configures, Job
  <2>3. \A w \in Worker, j \in Job : Configures(worker[w], j) =>
            config[j] /\ j \in 1..njobs /\ (worker[w].step = 2 => worker[w].build # 0)
    BY DEF DeployableKept, JobsExist, Made, Configures, Job
  <2> QED BY <1>2, <2>1, <2>2, <2>3
\* What is to be shown of a step that changes at most the job k.
<1>4. ASSUME NEW k, k \in 1..njobs => name'[k] = name[k] /\ config'[k] = config[k],
             \A j \in Job \ {k} : /\ status'[j] = status[j] /\ name'[j] = name[j]
                                  /\ config'[j] = config[j] /\ (Live(j)' => Live(j)),
             status'[k] = "SUBMITTED" => config'[k],
             k \in Job /\ Live(k)' => status'[k] \notin {"BUILDING", "DEPLOYING"}
      PROVE  DeployableKept'
  <2>1. \A j \in Job : Live(j)' /\ status'[j] \in {"BUILDING", "DEPLOYING"} =>
                          name'[j] # 0 /\ config'[j]
    BY <1>4 DEF DeployableKept, DeployableJob
  <2>2. \A j \in Job : status'[j] = "SUBMITTED" => config'[j]
    BY <1>4 DEF DeployableKept
  <2>3. \A j \in Job : j \in 1..njobs => name'[j] = name[j] /\ config'[j] = config[j]
    BY <1>4
  <2>4. 1..njobs \subseteq Job
    BY <1>1 DEF Typed, Job
  <2>5. /\ \A t \in Range(poolQueue'), j \in Job : Configures(t, j) => config'[j]
        /\ \A w \in Worker, j \in Job : Configures(worker'[w], j) =>
              config'[j] /\ (worker'[w].step = 2 => worker'[w].build # 0)
    BY <1>3, <2>3
  <2>6. /\ mpc' = "configure" => config'[mjob']
        /\ mpc' \in {"isDeploying", "deploy", "markDeploying"} => name'[mjob'] # 0
        /\ mpc' = "markDeploying" => config'[mjob']
    BY <1>2, <2>3, <2>4 DEF DeployableKept
  <2>7. DeployableJob'
    BY <2>1 DEF DeployableJob
  <2> QED BY <2>2, <2>5, <2>6, <2>7 DEF DeployableKept
<1>5. CASE PublishEnqueue(c)
  <2>1. /\ njobs + 1 \in Job /\ queue' = Append(queue, njobs + 1)
        /\ status' = [status EXCEPT ![njobs + 1] = "SUBMITTED"]
        /\ name' = [name EXCEPT ![njobs + 1] = 0]
        /\ config' = [config EXCEPT ![njobs + 1] = TRUE]
    BY <1>1, <1>5 DEF PublishEnqueue, NewJob, Job, Typed
  <2>2. Range(queue') = Range(queue) \union {njobs + 1}
    BY <1>1, <2>1, AppendRange DEF Typed
  <2>3. \A j \in Job \ {njobs + 1} : Live(j)' => Live(j)
    BY <1>2, <2>2 DEF Live
  <2>4. \A j \in Job \ {njobs + 1} :
           status'[j] = status[j] /\ name'[j] = name[j] /\ config'[j] = config[j]
    BY <1>1, <2>1 DEF Typed
  <2>5. status'[njobs + 1] = "SUBMITTED" /\ config'[njobs + 1] = TRUE /\ njobs + 1 \notin 1..njobs
    BY <1>1, <2>1 DEF Typed
  <2> QED BY <1>4, <2>3, <2>4, <2>5
<1>6. CASE DeleteMark(c)
  <2> DEFINE k == client[c].job
  <2>1. k \in Job /\ status' = [status EXCEPT ![k] = "DELETE_SUBMITTED"] /\ UNCHANGED <<name, config>>
    BY <1>1, <1>6 DEF DeleteMark, TypeInv, ActorsHaveJobs, Typed
  <2>2. Range(queue') \subseteq Range(queue) \union {k}
    BY <1>1, <1>6, <2>1, AppendRange DEF DeleteMark, Typed
  <2> HIDE DEF k
  <2>3. \A j \in Job \ {k} : Live(j)' => Live(j)
    BY <1>2, <2>2 DEF Live
  <2> QED BY <1>1, <1>4, <2>1, <2>3 DEF Typed
<1>7. CASE UNCHANGED <<status, name, config, queue>>
  <2>1. \A j \in Job : Live(j)' <=> Live(j)
    BY <1>2, <1>7 DEF Live
  <2> QED BY <1>2, <1>3, <1>7, <2>1 DEF DeployableKept, DeployableJob
<1>8. CASE DeleteFindService(c) /\ ~UNCHANGED <<status, name, config>>
  <2>1. PICK s \in VDBService(client[c].vdb) : NewJob(client[c].vdb, s.status, s.name, FALSE)
    BY <1>8 DEF DeleteFindService
  <2>2. s.status # "SUBMITTED"
    BY <1>1, VDBServiceType DEF TypeInv
  <2>3. /\ njobs + 1 \in Job /\ njobs + 1 \notin 1..njobs /\ queue' = queue
        /\ status' = [status EXCEPT ![njobs + 1] = s.status]
        /\ name' = [name EXCEPT ![njobs + 1] = s.name]
        /\ config' = [config EXCEPT ![njobs + 1] = FALSE]
    BY <1>1, <1>8, <2>1 DEF DeleteFindService, NewJob, Job, Typed
  <2>4. \A j \in Job : Live(j)' <=> Live(j)
    BY <1>2, <2>3 DEF Live
  <2> QED BY <1>1, <1>2, <1>4, <2>2, <2>3, <2>4 DEF Typed
<1> QED BY <1>5, <1>6, <1>7, <1>8
        DEF ClientStep, PublishBegin, DeleteBegin, DeleteFindActive, DeleteSubmit, DeleteFindService

LEMMA MonitorKeepsDeployable ==
  ASSUME TypeInv, DeployableKept, MonitorStep
  PROVE  DeployableKept'
<1>1. Typed /\ UNCHANGED <<name, config, worker>> /\ (mpc # "idle" => mjob \in Job)
  BY TypeFacts DEF MonitorStep, Typed
<1>2. \A j \in Job : Live(j)' => Live(j)
  BY <1>1, MonitorMoves DEF Takes, Stays, LetsGo, Live, Typed, Job
<1>3. DeployableJob'
  <2>1. CASE MarkDeploying
    <3>1. mjob \in Job /\ status' = [status EXCEPT ![mjob] = "DEPLOYING"]
      BY <1>1, <2>1 DEF MarkDeploying, SetStatus
    <3>2. name[mjob] # 0 /\ config[mjob]
      BY <2>1 DEF MarkDeploying, DeployableKept
    <3> QED BY <1>1, <1>2, <3>1, <3>2 DEF DeployableKept, DeployableJob, Typed
  <2>2. CASE Configure
    BY <1>1, <1>2, <2>2 DEF Configure, SetStatus, DeployableKept, DeployableJob, Typed
  <2>3. CASE ~MarkDeploying /\ ~Configure
    BY <1>1, <1>2, <2>3, MonitorStatus DEF DeployableKept, DeployableJob
  <2> QED BY <2>1, <2>2, <2>3
<1>4. \A j \in Job : status'[j] = "SUBMITTED" => config'[j]
  BY <1>1, MonitorStatus DEF DeployableKept
<1>5. mpc' = "configure" => config'[mjob']
  <2>1. mpc' = "configure" => mjob' = mjob /\ mjob \in Job /\ status[mjob] = "SUBMITTED"
    BY <1>1 DEF MonitorStep, Take, TestStatus, Test, Configure, Redelete, Remark, Disconnect,
       GetBuild, Deploy, MarkDeploying, CheckDeployment, CreateServices, Connect, SaveSource,
       MarkRunning, Continue, Resubmit, Retire
  <2> QED BY <1>1, <2>1 DEF DeployableKept
<1>6. \A t \in Range(poolQueue'), j \in Job : Configures(t, j) => config'[j]
  <2>1. CASE UNCHANGED poolQueue
    BY <1>1, <2>1 DEF DeployableKept
  <2>2. CASE Configure /\ mjob \in Job /\ poolQueue' = Append(poolQueue, ConfigureTask(mjob, 1, 0))
    <3>1. Range(poolQueue') = Range(poolQueue) \union {ConfigureTask(mjob, 1, 0)}
      BY <2>2, TaskTypes, SubmitRange
    <3>2. config[mjob] /\ \A j : Configures(ConfigureTask(mjob, 1, 0), j) => j = mjob
      BY <2>2 DEF Configures, ConfigureTask, Configure, DeployableKept
    <3> QED BY <1>1, <3>1, <3>2 DEF DeployableKept
  <2>3. CASE mjob \in Job /\ poolQueue' = Append(poolQueue, DeleteTask(mjob, 1))
    <3>1. DeleteTask(mjob, 1) \in Task
      BY <2>3, TaskTypes, StepsOfDelete
    <3>2. Range(poolQueue') = Range(poolQueue) \union {DeleteTask(mjob, 1)}
      BY <2>3, <3>1, SubmitRange
    <3>3. \A j : ~Configures(DeleteTask(mjob, 1), j)
      BY DEF Configures, DeleteTask
    <3> QED BY <1>1, <3>2, <3>3 DEF DeployableKept
  <2> QED BY <2>1, <2>2, <2>3, MonitorTasks
<1>7. /\ mpc' \in {"isDeploying", "deploy", "markDeploying"} => name'[mjob'] # 0
      /\ mpc' = "markDeploying" => config'[mjob']
  <2>1. mpc' \in {"isDeploying", "deploy", "markDeploying"} =>
           /\ mjob' = mjob
           /\ mpc \in {"isDeploying", "deploy"} \/ name[mjob] # 0
    BY <1>1 DEF MonitorStep, Take, TestStatus, Test, Configure, Redelete, Remark, Disconnect,
       GetBuild, Deploy, MarkDeploying, CheckDeployment, CreateServices, Connect, SaveSource,
       MarkRunning, Continue, Resubmit, Retire
  <2>2. mpc' = "markDeploying" => config[mjob]
    BY DEF MonitorStep, Take, TestStatus, Test, Configure, Redelete, Remark, Disconnect,
       GetBuild, Deploy, MarkDeploying, CheckDeployment, CreateServices, Connect, SaveSource,
       MarkRunning, Continue, Resubmit, Retire
  <2> QED BY <1>1, <2>1, <2>2 DEF DeployableKept
<1>8. \A w \in Worker, j \in Job : Configures(worker'[w], j) =>
          config'[j] /\ (worker'[w].step = 2 => worker'[w].build # 0)
  BY <1>1 DEF DeployableKept
<1> QED BY <1>3, <1>4, <1>5, <1>6, <1>7, <1>8 DEF DeployableKept

LEMMA WorkerKeepsDeployable ==
  ASSUME TypeInv, JobsExist, DeployableKept, NEW w \in Worker, WorkerStep(w)
  PROVE  DeployableKept'
<1>1. Typed /\ UNCHANGED <<queue, mjob, mpc, config>> /\ (mpc # "idle" => mjob \in Job)
  BY TypeFacts DEF WorkerStep, Typed
<1>2. \A j \in Job : Live(j)' <=> Live(j)
  BY <1>1 DEF Live
<1>3. CASE FinishConfigure(w)
  <2> DEFINE k == worker[w].job
  <2>1. /\ k \in Job /\ Configures(worker[w], k) /\ worker[w].step = 2
        /\ worker' = [worker EXCEPT ![w] = NoTask] /\ poolQueue' = poolQueue
    BY <1>3, TaskOfWorker DEF FinishConfigure, Running, Configures, EndTask
  <2>2. config[k] /\ worker[w].build # 0
    BY <2>1 DEF DeployableKept
  <2>3. \/ /\ status' = [status EXCEPT ![k] = "BUILDING"]
           /\ name' = [name EXCEPT ![k] = worker[w].build]
        \/ /\ status' = [status EXCEPT ![k] = "FAILED"]
           /\ UNCHANGED name
    BY <1>3 DEF FinishConfigure, SetStatus
  <2> HIDE DEF k
  <2>4. DeployableJob' /\ \A j \in Job : name[j] # 0 => name'[j] # 0
    BY <1>1, <1>2, <2>1, <2>2, <2>3 DEF DeployableKept, DeployableJob, Typed
  <2>5. \A j \in Job : status'[j] = "SUBMITTED" => config'[j]
    BY <1>1, WorkerStatus DEF DeployableKept
  <2>6. \A x \in Worker, j \in Job : Configures(worker'[x], j) => worker'[x] = worker[x]
    BY <1>1, <2>1 DEF Typed, Configures, NoTask
  <2> QED BY <1>1, <2>1, <2>4, <2>5, <2>6 DEF DeployableKept
<1>4. CASE ~FinishConfigure(w)
  <2>1. DeployableJob' /\ UNCHANGED name
    <3>1. UNCHANGED name
      BY <1>4 DEF WorkerStep, StartTask, CreateBuild, DeleteResource, FinishDelete
    <3> QED BY <1>1, <1>2, <1>4, <3>1, WorkerStatus DEF DeployableKept, DeployableJob
  <2>2. \A j \in Job : status'[j] = "SUBMITTED" => config'[j]
    BY <1>1, WorkerStatus DEF DeployableKept
  <2>3. Range(poolQueue') \subseteq Range(poolQueue)
    <3>1. CASE StartTask(w)
      BY <1>1, <3>1, TailRange DEF StartTask, Typed
    <3> QED BY <1>4, <3>1 DEF WorkerStep, CreateBuild, DeleteResource, FinishDelete
  <2>4. \A x \in Worker, j \in Job : Configures(worker'[x], j) =>
           config[j] /\ (worker'[x].step = 2 => worker'[x].build # 0)
    <3>1. CASE StartTask(w)
      <4>1. Head(poolQueue) \in Range(poolQueue) /\ worker' = [worker EXCEPT ![w] = Head(poolQueue)]
        BY <1>1, <3>1, TailRange DEF StartTask, Typed
      <4>2. Head(poolQueue).step = 1
        BY <4>1 DEF JobsExist
      <4> QED BY <1>1, <4>1, <4>2 DEF DeployableKept, Typed
    <3>2. CASE FinishDelete(w)
      BY <1>1, <3>2 DEF FinishDelete, EndTask, DeployableKept, Configures, NoTask, Typed
    <3>3. CASE DeleteResource(w)
      BY <1>1, <3>3 DEF DeleteResource, DeleteTask, DeployableKept, Configures, Typed
    <3>4. CASE CreateBuild(w)
      <4>1. CASE EndTask(w)
        BY <1>1, <4>1 DEF EndTask, DeployableKept, Configures, NoTask, Typed
      <4>2. CASE worker' = [worker EXCEPT ![w] = ConfigureTask(worker[w].job, 2, nbuilds + 1)]
        <5>1. \A j \in Job : Configures(ConfigureTask(worker[w].job, 2, nbuilds + 1), j) =>
                 /\ Configures(worker[w], j)
                 /\ ConfigureTask(worker[w].job, 2, nbuilds + 1).build # 0
          BY <1>1, <3>4 DEF Configures, ConfigureTask, CreateBuild, Running, Typed
        <5> QED BY <1>1, <4>2, <5>1 DEF DeployableKept, Typed
      <4> QED BY <3>4, <4>1, <4>2 DEF CreateBuild
    <3> QED BY <1>4, <3>1, <3>2, <3>3, <3>4 DEF WorkerStep
  <2> QED BY <1>1, <2>1, <2>2, <2>3, <2>4 DEF DeployableKept
<1> QED BY <1>3, <1>4

LEMMA NextKeepsDeployable == TypeInv /\ JobsExist /\ DeployableKept /\ [Next]_vars => DeployableKept'
<1> SUFFICES ASSUME TypeInv, JobsExist, DeployableKept, [Next]_vars PROVE DeployableKept'
  OBVIOUS
<1>1. CASE UNCHANGED vars \/ Environment
  <2>1. UNCHANGED <<status, name, config, mjob, mpc, queue, poolQueue, worker>>
    BY <1>1, EnvironmentFrame DEF vars
  <2>2. \A j \in Job : Live(j)' <=> Live(j)
    BY <2>1 DEF Live
  <2> QED BY <2>1, <2>2 DEF DeployableKept, DeployableJob
<1>2. CASE Crash
  BY <1>2, EmptyRange DEF Crash, DeployableKept, DeployableJob, Configures, NoTask
<1> QED BY <1>1, <1>2, ClientKeepsDeployable, MonitorKeepsDeployable, WorkerKeepsDeployable DEF Next

LEMMA InitDeployable == Init => DeployableKept
BY EmptyRange DEF Init, DeployableKept, DeployableJob, Configures, NoTask

\* A job that run() builds or deploys has a build to poll and a configuration to
\* deploy: run() does not dereference null and lose the job, although jobs that
\* deleteVirtualization makes have no PublishConfiguration and go through it.
THEOREM JobsAreDeployable == Spec => []DeployableJob
<1>1. TypeInv /\ JobsExist /\ ConfiguredOnce /\ DeployableKept /\ [Next]_vars => DeployableKept'
  BY NextKeepsDeployable
<1>2. DeployableKept => DeployableJob
  BY DEF DeployableKept
<1>3. Spec => [](TypeInv /\ JobsExist /\ ConfiguredOnce /\ DeployableKept)
  BY <1>1, InitDeployable, JobInvariant, PTL DEF Spec
<1> QED BY <1>2, <1>3, PTL

-----------------------------------------------------------------------------
(* Without delete requests a job has one runner, and the threads together  *)
(* take it through its life in the order of PublishLifecycle.              *)

Distinct(s) == \A i, k \in 1..Len(s) : s[i] = s[k] => i = k

LEMMA DistinctAppend ==
  ASSUME NEW s \in Seq(Job), NEW j \in Job, Distinct(s), j \notin Range(s)
  PROVE  Distinct(Append(s, j))
<1>1. /\ Len(Append(s, j)) = Len(s) + 1 /\ Len(s) \in Nat
      /\ \A i \in 1..Len(s) : Append(s, j)[i] = s[i]
      /\ Append(s, j)[Len(s) + 1] = j
  OBVIOUS
<1>2. \A i \in 1..Len(s) : s[i] # j
  BY RangeEquality
<1>3. \A i \in 1..(Len(s) + 1) : i \in 1..Len(s) \/ i = Len(s) + 1
  BY <1>1
<1> QED BY <1>1, <1>2, <1>3 DEF Distinct

LEMMA DistinctTail ==
  ASSUME NEW s \in Seq(Job), s # <<>>, Distinct(s)
  PROVE  Distinct(Tail(s)) /\ Head(s) \notin Range(Tail(s))
<1>1. /\ Tail(s) \in Seq(Job) /\ Len(Tail(s)) = Len(s) - 1 /\ Len(s) \in Nat \ {0}
      /\ \A i \in 1..Len(Tail(s)) : Tail(s)[i] = s[i + 1] /\ i + 1 \in 1..Len(s)
      /\ Head(s) = s[1] /\ 1 \in 1..Len(s)
  OBVIOUS
<1>2. Distinct(Tail(s))
  BY <1>1 DEF Distinct
<1>3. \A i \in 1..Len(Tail(s)) : Tail(s)[i] # Head(s)
  <2> SUFFICES ASSUME NEW i \in 1..Len(Tail(s)), Tail(s)[i] = Head(s) PROVE FALSE
    OBVIOUS
  <2>1. s[i + 1] = s[1] /\ i + 1 \in 1..Len(s)
    BY <1>1
  <2>2. i + 1 = 1
    BY <1>1, <2>1 DEF Distinct
  <2> QED BY <1>1, <2>2
<1>4. Range(Tail(s)) = {Tail(s)[i] : i \in 1..Len(Tail(s))}
  BY <1>1, RangeEquality
<1> QED BY <1>2, <1>3, <1>4

\* A job that is watched is in one of these states.
Watchable == {"SUBMITTED", "CONFIGURING", "BUILDING", "DEPLOYING", "FAILED"}

\* Where the monitor thread can be with a job in a given state.
MonitorPlace ==
    /\ mpc \notin {"redelete", "remark", "disconnect"}
    /\ mpc = "configure" => status[mjob] = "SUBMITTED"
    /\ mpc = "isConfiguring" => status[mjob] # "SUBMITTED"
    /\ mpc = "getBuild" => status[mjob] \in {"BUILDING", "DEPLOYING", "FAILED"}
    /\ mpc = "isDeploying" => status[mjob] \in {"BUILDING", "DEPLOYING"}
    /\ mpc \in {"deploy", "markDeploying"} => status[mjob] = "BUILDING"
    /\ mpc \in {"checkDeployment", "services", "connect", "saveSource", "markRunning"} =>
           status[mjob] = "DEPLOYING"
    /\ mpc \in {"isDeploying", "deploy", "markDeploying"} => phase[name[mjob]] = "Complete"

\* Whoever has a task has a configure task, of a job that is CONFIGURING.
OnlyConfigures ==
    /\ \A c \in Client : client[c].pc \in {"idle", "publish"}
    /\ \A t \in Range(poolQueue) : /\ t.kind = "configure" /\ status[t.job] = "CONFIGURING"
                                    /\ t.build = 0
    /\ \A w \in Worker : worker[w] # NoTask =>
           /\ worker[w].kind = "configure" /\ status[worker[w].job] = "CONFIGURING"
           /\ worker[w].build <= nbuilds

\* A job has no build before it is BUILDING and a completed one once DEPLOYING.
BuildsInOrder ==
    \A j \in Job :
        /\ name[j] <= nbuilds
        /\ j > njobs => status[j] = "NOTFOUND"
        /\ status[j] \in {"SUBMITTED", "CONFIGURING"} => name[j] = 0
        /\ status[j] = "FAILED" /\ Live(j) => name[j] = 0
        /\ status[j] = "DEPLOYING" /\ Live(j) => phase[name[j]] = "Complete"

WatchedInOrder == \A j \in Job : Live(j) => status[j] \in Watchable

LifeInv ==
    OneRunnerPerJob /\ WatchedInOrder /\ MonitorPlace /\ OnlyConfigures /\ BuildsInOrder

LEMMA InitLife == Init => LifeInv
<1> SUFFICES ASSUME Init PROVE LifeInv
  OBVIOUS
<1>1. OneRunnerPerJob /\ WatchedInOrder /\ MonitorPlace
  BY EmptyRange DEF Init, OneRunnerPerJob, WatchedInOrder, MonitorPlace, Live, Job
<1>2. OnlyConfigures
  BY EmptyRange DEF Init, OnlyConfigures, Idle, At
<1>3. BuildsInOrder
  BY EmptyRange DEF Init, BuildsInOrder, Live, Job
<1> QED BY <1>1, <1>2, <1>3 DEF LifeInv

\* Who is watched after a step of the monitor thread.
Watch == \A j \in Job : Live(j)' <=> Live(j)
Unwatch == \A j \in Job : Live(j)' <=> Live(j) /\ j # mjob

LEMMA MonitorWatches ==
  ASSUME TypeInv, OneRunnerPerJob, MonitorStep
  PROVE  /\ OneRunnerPerJob'
         /\ Take => Watch /\ mjob' \in Job
         /\ ~Take => /\ mjob \in Job
                     /\ Stays \/ Resubmit => Watch
                     /\ Retire => Unwatch
<1>1. Typed /\ Distinct(queue)
  BY TypeFacts DEF OneRunnerPerJob, Distinct
<1>2. ASSUME Take PROVE OneRunnerPerJob' /\ Watch /\ mjob' \in Job
  <2>1. queue \in Seq(Job) /\ queue # <<>> /\ mjob = 0
    BY <1>1, <1>2 DEF Typed, Take
  <2>2. /\ Range(queue) = {Head(queue)} \union Range(Tail(queue))
        /\ Head(queue) \in Job
    BY <2>1, TailRange
  <2>3. Distinct(Tail(queue)) /\ Head(queue) \notin Range(Tail(queue))
    BY <1>1, <2>1, DistinctTail
  <2>4. mjob' = Head(queue) /\ queue' = Tail(queue)
    BY <1>2 DEF Take
  <2>5. OneRunnerPerJob'
    BY <2>3, <2>4 DEF OneRunnerPerJob, Distinct
  <2>6. Watch
    BY <2>1, <2>2, <2>4 DEF Watch, Live, Job
  <2> QED BY <2>2, <2>4, <2>5, <2>6
<1>3. ASSUME mpc # "idle", Stays PROVE OneRunnerPerJob' /\ Watch
  BY <1>3 DEF Stays, OneRunnerPerJob, Watch, Live
<1>4. ASSUME mpc # "idle", Resubmit PROVE OneRunnerPerJob' /\ Watch
  <2>1. mjob \in Job /\ mjob \notin Range(queue) /\ queue \in Seq(Job)
    BY <1>1, <1>4 DEF Typed, OneRunnerPerJob
  <2>2. Distinct(Append(queue, mjob))
    BY <1>1, <2>1, DistinctAppend
  <2>3. Range(queue') = Range(queue) \union {mjob}
    BY <1>4, <2>1, ResubmitRange DEF Job
  <2>4. OneRunnerPerJob'
    BY <1>4, <2>2 DEF OneRunnerPerJob, Distinct, Resubmit
  <2>5. Watch
    BY <1>4, <2>3 DEF Watch, Live, Resubmit, Job
  <2> QED BY <2>4, <2>5
<1>5. ASSUME mpc # "idle", Retire PROVE OneRunnerPerJob' /\ Unwatch
  <2>1. mjob \in Job /\ mjob \notin Range(queue)
    BY <1>1, <1>5 DEF Typed, OneRunnerPerJob
  <2>2. OneRunnerPerJob'
    BY <1>5 DEF OneRunnerPerJob, Retire
  <2>3. Unwatch
    BY <1>5, <2>1 DEF Unwatch, Live, Retire, Job
  <2> QED BY <2>2, <2>3
<1>6. ~Take => mpc # "idle" /\ (Stays \/ Resubmit \/ Retire)
  BY DEF MonitorStep, TestStatus, Test, Configure, Redelete, Remark, Disconnect, GetBuild,
         Deploy, MarkDeploying, CheckDeployment, CreateServices, Connect, SaveSource,
         MarkRunning, Continue, Stays
<1>7. mpc # "idle" => mjob \in Job
  BY <1>1 DEF Typed
<1> QED BY <1>2, <1>3, <1>4, <1>5, <1>6, <1>7


\* What the monitor thread may make of the job it runs.
JobMoves ==
    \/ UNCHANGED status /\ (Stays \/ Resubmit)
    \/ UNCHANGED status /\ Retire /\ status[mjob] \in {"BUILDING", "DEPLOYING", "FAILED"}
    \/ status[mjob] = "SUBMITTED" /\ SetStatus(mjob, "CONFIGURING") /\ Resubmit
    \/ /\ status[mjob] = "BUILDING" /\ phase[name[mjob]] = "Complete"
       /\ SetStatus(mjob, "DEPLOYING") /\ (Resubmit \/ Retire)
    \/ /\ status[mjob] = "BUILDING" /\ Retire
       /\ SetStatus(mjob, "CANCELLED") \/ SetStatus(mjob, "FAILED")
    \/ /\ status[mjob] = "DEPLOYING" /\ Retire
       /\ SetStatus(mjob, "RUNNING") \/ SetStatus(mjob, "FAILED")

LEMMA LetGo ==
  ASSUME Resubmit \/ Retire
  PROVE  MonitorPlace'
BY DEF Resubmit, Retire, MonitorPlace

LEMMA TestMoves ==
  ASSUME TypeInv, LifeInv, MonitorStep, TestStatus
  PROVE  MonitorPlace' /\ JobMoves
<1>1. UNCHANGED <<status, phase, name>>
  BY DEF TestStatus, MonitorStep
<1>2. mpc # "idle" /\ mjob \in Job /\ status[mjob] \in Watchable
  <2>1. mpc # "idle"
    BY DEF TestStatus, Test
  <2>2. mjob \in Job
    BY <2>1, TypeFacts DEF Typed
  <2> QED BY <2>1, <2>2 DEF LifeInv, WatchedInOrder, Live
<1>3. CASE mpc \in {"isDeleteSubmitted", "isDeleteRequeue", "isDeleteDone"}
  <2>1. Stays /\ mpc' \in {"isDeleteRequeue", "isDeleteDone", "isEnded"}
    BY <1>2, <1>3 DEF TestStatus, Test, Continue, Stays, Watchable
  <2> QED BY <1>1, <2>1 DEF MonitorPlace, JobMoves
<1>4. CASE mpc = "isEnded"
  <2>1. \/ Stays /\ mpc' = "isSubmitted"
        \/ status[mjob] = "FAILED" /\ Retire
    BY <1>2, <1>4 DEF TestStatus, Test, Continue, Stays, Watchable
  <2>2. CASE Stays /\ mpc' = "isSubmitted"
    BY <1>1, <2>2 DEF MonitorPlace, JobMoves
  <2>3. CASE status[mjob] = "FAILED" /\ Retire
    BY <1>1, <2>3, LetGo DEF JobMoves
  <2> QED BY <2>1, <2>2, <2>3
<1>5. CASE mpc = "isSubmitted"
  <2>1. /\ Stays
        /\ \/ status[mjob] = "SUBMITTED" /\ mpc' = "configure"
           \/ status[mjob] # "SUBMITTED" /\ mpc' = "isConfiguring"
    BY <1>5 DEF TestStatus, Test, Continue, Stays
  <2> QED BY <1>1, <2>1 DEF MonitorPlace, JobMoves, Stays
<1>6. CASE mpc = "isConfiguring"
  <2>1. \/ Stays /\ mpc' = "getBuild" /\ status[mjob] # "CONFIGURING"
        \/ Resubmit
    BY <1>6 DEF TestStatus, Test, Continue, Stays
  <2>2. CASE Stays /\ mpc' = "getBuild" /\ status[mjob] # "CONFIGURING"
    <3>1. status[mjob] \in {"BUILDING", "DEPLOYING", "FAILED"}
      BY <1>2, <1>6, <2>2 DEF LifeInv, MonitorPlace, Watchable
    <3> QED BY <1>1, <2>2, <3>1 DEF MonitorPlace, JobMoves, Stays
  <2>3. CASE Resubmit
    BY <1>1, <2>3, LetGo DEF JobMoves
  <2> QED BY <2>1, <2>2, <2>3
<1>7. CASE mpc = "isDeploying"
  <2>1. /\ Stays
        /\ \/ status[mjob] = "DEPLOYING" /\ mpc' = "checkDeployment"
           \/ status[mjob] # "DEPLOYING" /\ mpc' = "deploy"
    BY <1>7 DEF TestStatus, Test, Continue, Stays
  <2>2. status[mjob] \in {"BUILDING", "DEPLOYING"} /\ phase[name[mjob]] = "Complete"
    BY <1>7 DEF LifeInv, MonitorPlace
  <2> QED BY <1>1, <2>1, <2>2 DEF MonitorPlace, JobMoves, Stays
<1> QED BY <1>3, <1>4, <1>5, <1>6, <1>7 DEF TestStatus, Test

LEMMA BuildMoves ==
  ASSUME TypeInv, LifeInv, MonitorStep, GetBuild
  PROVE  MonitorPlace' /\ JobMoves
<1> DEFINE p == IF name[mjob] = 0 THEN "absent" ELSE phase[name[mjob]]
<1>1. /\ mjob \in Job /\ Live(mjob)
      /\ status[mjob] \in {"BUILDING", "DEPLOYING", "FAILED"}
  BY TypeFacts DEF GetBuild, Typed, LifeInv, MonitorPlace, Live
<1>2. /\ status[mjob] = "FAILED" => p = "absent"
      /\ status[mjob] = "DEPLOYING" => p \in {"absent", "Complete"}
      /\ p # "absent" => phase[name[mjob]] = p
  BY <1>1 DEF LifeInv, BuildsInOrder
<1>3. UNCHANGED <<phase, name>>
  BY DEF MonitorStep
<1>4. \/ UNCHANGED status /\ (Retire \/ Resubmit)
      \/ p = "Complete" /\ Stays /\ mpc' = "isDeploying" /\ UNCHANGED status
      \/ p \in {"Cancelled", "Failed"} /\ Retire
            /\ (SetStatus(mjob, "CANCELLED") \/ SetStatus(mjob, "FAILED"))
  BY DEF GetBuild, Continue, Stays
<1> HIDE DEF p
<1>5. CASE UNCHANGED status /\ (Retire \/ Resubmit)
  BY <1>1, <1>5, LetGo DEF JobMoves
<1>6. CASE p = "Complete" /\ Stays /\ mpc' = "isDeploying" /\ UNCHANGED status
  BY <1>1, <1>2, <1>3, <1>6 DEF MonitorPlace, JobMoves, Stays
<1>7. CASE p \in {"Cancelled", "Failed"} /\ Retire
            /\ (SetStatus(mjob, "CANCELLED") \/ SetStatus(mjob, "FAILED"))
  <2>1. status[mjob] = "BUILDING"
    BY <1>1, <1>2, <1>7
  <2> QED BY <1>7, <2>1, LetGo DEF JobMoves
<1> QED BY <1>4, <1>5, <1>6, <1>7

LEMMA DeployMoves ==
  ASSUME TypeInv, LifeInv, MonitorStep,
         \/ Deploy \/ MarkDeploying \/ CheckDeployment \/ CreateServices
         \/ Connect \/ SaveSource \/ MarkRunning
  PROVE  MonitorPlace' /\ JobMoves
<1>0. UNCHANGED <<phase, name>>
  BY DEF MonitorStep
<1>1. CASE Deploy
  <2>1. status[mjob] = "BUILDING" /\ phase[name[mjob]] = "Complete" /\ UNCHANGED status
    BY <1>1 DEF Deploy, LifeInv, MonitorPlace
  <2>2. Retire \/ (Stays /\ mpc' = "markDeploying")
    BY <1>1 DEF Deploy, Continue, Stays
  <2>3. CASE Retire
    BY <2>1, <2>3, LetGo DEF JobMoves
  <2>4. CASE Stays /\ mpc' = "markDeploying"
    BY <1>0, <2>1, <2>4 DEF MonitorPlace, JobMoves, Stays
  <2> QED BY <2>2, <2>3, <2>4
<1>2. CASE MarkDeploying
  BY <1>2, LetGo DEF MarkDeploying, LifeInv, MonitorPlace, JobMoves
<1>3. CASE CheckDeployment
  <2>1. status[mjob] = "DEPLOYING"
    BY <1>3 DEF CheckDeployment, LifeInv, MonitorPlace
  <2>2. \/ UNCHANGED status /\ (Retire \/ Resubmit)
        \/ UNCHANGED status /\ Stays /\ mpc' = "services"
        \/ SetStatus(mjob, "FAILED") /\ Retire
    BY <1>3 DEF CheckDeployment, Continue, Stays
  <2>3. CASE Retire \/ Resubmit
    BY <2>1, <2>2, <2>3, LetGo DEF JobMoves
  <2>4. CASE UNCHANGED status /\ Stays /\ mpc' = "services"
    BY <2>1, <2>4 DEF MonitorPlace, JobMoves, Stays
  <2> QED BY <2>2, <2>3, <2>4
<1>4. CASE CreateServices \/ Connect \/ SaveSource
  <2>1. status[mjob] = "DEPLOYING" /\ UNCHANGED status
    BY <1>4 DEF CreateServices, Connect, SaveSource, LifeInv, MonitorPlace
  <2>2. Retire \/ (Stays /\ mpc' \in {"connect", "saveSource", "markRunning"})
    BY <1>4 DEF CreateServices, Connect, SaveSource, Continue, Stays
  <2>3. CASE Retire
    BY <2>1, <2>3, LetGo DEF JobMoves
  <2>4. CASE Stays /\ mpc' \in {"connect", "saveSource", "markRunning"}
    BY <2>1, <2>4 DEF MonitorPlace, JobMoves, Stays
  <2> QED BY <2>2, <2>3, <2>4
<1>5. CASE MarkRunning
  BY <1>5, LetGo DEF MarkRunning, LifeInv, MonitorPlace, JobMoves
<1> QED BY <1>1, <1>2, <1>3, <1>4, <1>5

\* A step of the monitor thread other than taking a job.
LEMMA MonitorMove ==
  ASSUME TypeInv, LifeInv, MonitorStep, ~Take
  PROVE  MonitorPlace' /\ JobMoves
<1>1. CASE Configure
  BY <1>1, LetGo DEF Configure, LifeInv, MonitorPlace, JobMoves
<1>2. ~Redelete /\ ~Remark /\ ~Disconnect
  BY DEF Redelete, Remark, Disconnect, LifeInv, MonitorPlace
<1> QED BY <1>1, <1>2, TestMoves, BuildMoves, DeployMoves DEF MonitorStep

LEMMA MonitorKeepsLife ==
  ASSUME TypeInv, JobsExist, LifeInv, MonitorStep
  PROVE  LifeInv'
<1>0. /\ UNCHANGED <<njobs, name, worker, client, nbuilds, phase>>
      /\ Typed
  BY TypeFacts DEF MonitorStep
<1>1. CASE Take
  <2>1. UNCHANGED <<status, poolQueue>> /\ mpc' = "isDeleteSubmitted"
    BY <1>1 DEF Take
  <2>2. OneRunnerPerJob' /\ Watch
    BY <1>1, MonitorWatches DEF LifeInv
  <2>3. WatchedInOrder'
    BY <2>1, <2>2 DEF LifeInv, WatchedInOrder, Watch
  <2>4. MonitorPlace'
    BY <2>1 DEF MonitorPlace
  <2>5. OnlyConfigures'
    BY <1>0, <2>1 DEF LifeInv, OnlyConfigures
  <2>6. BuildsInOrder'
    BY <1>0, <2>1, <2>2 DEF LifeInv, BuildsInOrder, Watch
  <2> QED BY <2>2, <2>3, <2>4, <2>5, <2>6 DEF LifeInv
<1>2. CASE ~Take
  <2>1. MonitorPlace' /\ JobMoves
    BY <1>2, MonitorMove
  <2>2. /\ OneRunnerPerJob' /\ mjob \in Job /\ mjob <= njobs /\ Live(mjob)
        /\ Stays \/ Resubmit => Watch
        /\ Retire => Unwatch
    BY <1>0, <1>2, MonitorWatches DEF LifeInv, JobsExist, Made, Live, Typed
  <2>3. \A j \in Job \ {mjob} : status'[j] = status[j] /\ (Live(j)' <=> Live(j))
    BY <1>0, <2>1, <2>2 DEF JobMoves, SetStatus, Typed, Watch, Unwatch
  <2>4. \A j \in Job : j = mjob /\ Live(j)' =>
           \/ status'[j] = status[j]
           \/ status[j] = "SUBMITTED" /\ status'[j] = "CONFIGURING"
           \/ /\ status[j] = "BUILDING" /\ phase[name[j]] = "Complete"
              /\ status'[j] = "DEPLOYING"
    BY <1>0, <2>1, <2>2 DEF JobMoves, SetStatus, Typed, Unwatch
  <2>5. \/ status'[mjob] = status[mjob]
        \/ status[mjob] = "SUBMITTED" /\ status'[mjob] = "CONFIGURING"
        \/ status[mjob] \in {"BUILDING", "DEPLOYING"}
           /\ status'[mjob] \notin {"SUBMITTED", "CONFIGURING"}
    BY <1>0, <2>1, <2>2 DEF JobMoves, SetStatus, Typed
  <2>6. WatchedInOrder'
    BY <2>2, <2>3, <2>4 DEF LifeInv, WatchedInOrder, Watchable
  <2>7. OnlyConfigures'
    <3>1. \A j \in Job : status[j] = "CONFIGURING" => status'[j] = "CONFIGURING"
      BY <2>3, <2>5
    <3>2. \A w \in Worker : worker[w] # NoTask => worker[w].job \in Job
      BY <1>0 DEF Typed, Task
    <3>3. CASE UNCHANGED poolQueue
      BY <1>0, <3>1, <3>2, <3>3 DEF LifeInv, OnlyConfigures, Typed
    <3>4. CASE Configure /\ poolQueue' = Append(poolQueue, ConfigureTask(mjob, 1, 0))
      <4>1. Range(poolQueue') = Range(poolQueue) \union {ConfigureTask(mjob, 1, 0)}
        BY <2>2, <3>4, TaskTypes, SubmitRange
      <4>2. status'[mjob] = "CONFIGURING"
        BY <1>0, <2>2, <3>4 DEF Configure, SetStatus, Typed
      <4>3. /\ ConfigureTask(mjob, 1, 0).kind = "configure"
            /\ ConfigureTask(mjob, 1, 0).job = mjob
            /\ ConfigureTask(mjob, 1, 0).build = 0
        BY DEF ConfigureTask
      <4> QED BY <1>0, <3>1, <3>2, <4>1, <4>2, <4>3 DEF LifeInv, OnlyConfigures, Typed
    <3>5. ~Redelete
      BY DEF Redelete, LifeInv, MonitorPlace
    <3> QED BY <3>3, <3>4, <3>5, MonitorTasks
  <2>8. BuildsInOrder'
    <3> SUFFICES ASSUME NEW j \in Job
                 PROVE  /\ name[j] <= nbuilds
                        /\ j > njobs => status'[j] = "NOTFOUND"
                        /\ status'[j] \in {"SUBMITTED", "CONFIGURING"} => name[j] = 0
                        /\ status'[j] = "FAILED" /\ Live(j)' => name[j] = 0
                        /\ status'[j] = "DEPLOYING" /\ Live(j)' => phase[name[j]] = "Complete"
      BY <1>0 DEF BuildsInOrder
    <3>1. CASE j # mjob
      BY <2>3, <3>1 DEF LifeInv, BuildsInOrder
    <3>2. CASE j = mjob
      <4>1. ~(j > njobs)
        BY <1>0, <2>2, <3>2 DEF Typed, Job
      <4>2. /\ name[j] <= nbuilds
            /\ status'[j] \in {"SUBMITTED", "CONFIGURING"} => name[j] = 0
        BY <2>5, <3>2 DEF LifeInv, BuildsInOrder
      <4>3. ASSUME Live(j)'
            PROVE  /\ status'[j] = "FAILED" => name[j] = 0
                   /\ status'[j] = "DEPLOYING" => phase[name[j]] = "Complete"
        BY <2>2, <2>4, <3>2, <4>3 DEF LifeInv, BuildsInOrder
      <4> QED BY <4>1, <4>2, <4>3
    <3> QED BY <3>1, <3>2
  <2> QED BY <2>1, <2>2, <2>6, <2>7, <2>8 DEF LifeInv
<1> QED BY <1>1, <1>2

\* A configure task ends: its job is BUILDING, with the build it made, or FAILED.
LEMMA TaskEndKeepsLife ==
  ASSUME TypeInv, ConfiguredOnce, LifeInv, NEW w \in Worker, worker[w] # NoTask,
         UNCHANGED <<njobs, queue, mjob, mpc, poolQueue, client, nbuilds, phase>>,
         EndTask(w),
         \/ SetStatus(worker[w].job, "FAILED") /\ UNCHANGED name
         \/ /\ SetStatus(worker[w].job, "BUILDING")
            /\ name' = [name EXCEPT ![worker[w].job] = worker[w].build]
  PROVE  LifeInv'
<1>1. PICK j \in Job, s \in {"FAILED", "BUILDING"} :
         /\ j = worker[w].job /\ status' = [status EXCEPT ![j] = s]
         /\ \/ s = "FAILED" /\ UNCHANGED name
            \/ s = "BUILDING" /\ name' = [name EXCEPT ![j] = worker[w].build]
  <2>1. worker[w].job \in Job
    BY TypeFacts DEF Typed, Task
  <2> QED BY <2>1 DEF SetStatus
<1>2. Typed /\ worker' = [worker EXCEPT ![w] = NoTask]
  BY TypeFacts DEF EndTask
<1>3. /\ Configures(worker[w], j) /\ status[j] = "CONFIGURING" /\ worker[w].build <= nbuilds
      /\ name[j] = 0
  BY <1>1 DEF LifeInv, OnlyConfigures, BuildsInOrder, Configures
<1>4. \A k \in Job : /\ Live(k)' <=> Live(k)
                     /\ k # j => status'[k] = status[k] /\ name'[k] = name[k]
  BY <1>1, <1>2 DEF Live, Typed
<1>5. status'[j] = s /\ name'[j] <= nbuilds /\ (s = "FAILED" => name'[j] = 0)
  BY <1>1, <1>2, <1>3 DEF LifeInv, BuildsInOrder, Typed
<1>6. OneRunnerPerJob'
  BY DEF LifeInv, OneRunnerPerJob
<1>7. WatchedInOrder'
  BY <1>4, <1>5 DEF LifeInv, WatchedInOrder, Watchable
<1>8. MonitorPlace'
  <2>1. CASE mjob = j
    BY <1>3, <1>5, <2>1 DEF LifeInv, MonitorPlace
  <2>2. CASE mjob # j /\ mpc # "idle"
    <3>1. status'[mjob] = status[mjob] /\ name'[mjob] = name[mjob]
      BY <1>2, <1>4, <2>2 DEF Typed
    <3> QED BY <3>1 DEF LifeInv, MonitorPlace
  <2>3. CASE mpc = "idle"
    BY <2>3 DEF MonitorPlace
  <2> QED BY <2>1, <2>2, <2>3
<1>9. OnlyConfigures'
  <2>1. \A t \in Range(poolQueue) : t.job \in Job /\ t.job # j
    <3>1. ~Waits(j)
      BY <1>3 DEF ConfiguredOnce, Held
    <3> QED BY <1>2, <3>1 DEF Waits, Configures, LifeInv, OnlyConfigures, Typed
  <2>2. \A x \in Worker : x # w /\ worker[x] # NoTask => worker[x].job \in Job /\ worker[x].job # j
    <3>1. \A x \in Worker : Configures(worker[x], j) => x = w
      BY <1>3 DEF ConfiguredOnce
    <3>2. \A x \in Worker : worker[x] # NoTask => worker[x].job \in Job
      BY <1>2 DEF Typed, Task
    <3> QED BY <3>1, <3>2 DEF Configures, LifeInv, OnlyConfigures
  <2>3. \A x \in Worker : worker'[x] # NoTask => x # w /\ worker'[x] = worker[x]
    BY <1>2 DEF Typed
  <2> QED BY <1>4, <2>1, <2>2, <2>3 DEF LifeInv, OnlyConfigures
<1>10. BuildsInOrder'
  BY <1>3, <1>4, <1>5 DEF LifeInv, BuildsInOrder
<1> QED BY <1>6, <1>7, <1>8, <1>9, <1>10 DEF LifeInv

LEMMA WorkerKeepsLife ==
  ASSUME TypeInv, ConfiguredOnce, DeployableKept, LifeInv, NEW w \in Worker, WorkerStep(w)
  PROVE  LifeInv'
<1>1. Typed /\ UNCHANGED <<njobs, queue, mjob, mpc, client>>
  BY TypeFacts DEF WorkerStep
<1>2. OneRunnerPerJob' /\ (\A j \in Job : Live(j)' <=> Live(j))
  BY <1>1 DEF LifeInv, OneRunnerPerJob, Live
<1>3. CASE StartTask(w)
  <2>1. /\ UNCHANGED <<status, name, nbuilds, phase>>
        /\ Head(poolQueue) \in Range(poolQueue)
        /\ Range(poolQueue') \subseteq Range(poolQueue)
        /\ worker' = [worker EXCEPT ![w] = Head(poolQueue)]
    BY <1>1, <1>3, TailRange DEF StartTask, Typed
  <2>2. OnlyConfigures'
    <3>1. \A x \in Worker : worker'[x] = worker[x] \/ worker'[x] = Head(poolQueue)
      BY <1>1, <2>1 DEF Typed
    <3>2. Head(poolQueue).build <= nbuilds
      BY <1>1, <2>1 DEF LifeInv, OnlyConfigures, Typed
    <3> QED BY <1>1, <2>1, <3>1, <3>2 DEF LifeInv, OnlyConfigures
  <2>3. WatchedInOrder' /\ BuildsInOrder'
    BY <1>1, <1>2, <2>1 DEF LifeInv, WatchedInOrder, BuildsInOrder
  <2>4. MonitorPlace'
    BY <1>1, <2>1 DEF LifeInv, MonitorPlace
  <2> QED BY <1>2, <2>2, <2>3, <2>4 DEF LifeInv
<1>4. CASE CreateBuild(w) /\ UNCHANGED status
  <2>1. /\ nbuilds' = nbuilds + 1 /\ nbuilds \in Nat /\ nbuilds + 1 \in Build
        /\ phase' = [phase EXCEPT ![nbuilds + 1] = "Running"]
        /\ worker' = [worker EXCEPT ![w] = ConfigureTask(worker[w].job, 2, nbuilds + 1)]
        /\ UNCHANGED <<name, poolQueue>>
    <3>1. worker[w].job \in Job
      BY <1>1, <1>4, TaskOfWorker DEF CreateBuild, Running
    <3>2. status[worker[w].job] = "CONFIGURING"
      BY <1>4 DEF LifeInv, OnlyConfigures, CreateBuild, Running, NoTask
    <3>3. ~SetStatus(worker[w].job, "FAILED")
      BY <1>1, <1>4, <3>1, <3>2 DEF SetStatus, Typed
    <3> QED BY <1>1, <1>4, <3>3 DEF CreateBuild, Typed, Build
  <2>2. phase \in [Build -> Phase]
    BY DEF TypeInv, TypeOK, ClusterOK
  <2>3. \A j \in Job : name[j] # 0 => phase'[name[j]] = phase[name[j]]
    BY <1>1, <2>1, <2>2 DEF LifeInv, BuildsInOrder, Typed, Build
  <2>4. OnlyConfigures'
    <3>1. \A x \in Worker : worker'[x] # NoTask =>
              /\ worker[x] # NoTask /\ worker'[x].job = worker[x].job
              /\ worker'[x].kind = "configure" /\ worker'[x].build <= nbuilds'
      <4>1. worker[w] # NoTask
        BY <1>4 DEF CreateBuild, Running, NoTask
      <4>2. \A x \in Worker : worker[x].build \in Int
        BY <1>1 DEF Typed, Task, NoTask, Build
      <4> QED BY <1>1, <2>1, <4>1, <4>2 DEF Typed, ConfigureTask, LifeInv, OnlyConfigures
    <3> QED BY <1>1, <1>4, <2>1, <3>1 DEF LifeInv, OnlyConfigures
  <2>5. WatchedInOrder'
    BY <1>2, <1>4 DEF LifeInv, WatchedInOrder
  <2>6. BuildsInOrder'
    <3>1. \A j \in Job : status[j] = "DEPLOYING" /\ Live(j) => name[j] # 0
      BY DEF DeployableKept, DeployableJob
    <3>2. \A j \in Job : name[j] <= nbuilds'
      BY <1>1, <2>1 DEF LifeInv, BuildsInOrder, Typed, Build
    <3> QED BY <1>1, <1>2, <1>4, <2>1, <2>3, <3>1, <3>2 DEF LifeInv, BuildsInOrder
  <2>7. MonitorPlace'
    <3>1. mpc \in {"isDeploying", "deploy", "markDeploying"} => mjob \in Job /\ name[mjob] # 0
      BY <1>1 DEF DeployableKept, Typed
    <3> QED BY <1>1, <1>4, <2>1, <2>3, <3>1 DEF LifeInv, MonitorPlace
  <2> QED BY <1>2, <2>4, <2>5, <2>6, <2>7 DEF LifeInv
<1>5. CASE (CreateBuild(w) /\ ~UNCHANGED status) \/ FinishConfigure(w)
  <2>1. /\ worker[w] # NoTask /\ EndTask(w) /\ UNCHANGED <<poolQueue, nbuilds, phase>>
        /\ \/ SetStatus(worker[w].job, "FAILED") /\ UNCHANGED name
           \/ /\ SetStatus(worker[w].job, "BUILDING")
              /\ name' = [name EXCEPT ![worker[w].job] = worker[w].build]
    BY <1>5 DEF CreateBuild, FinishConfigure, Running, NoTask
  <2> QED BY <1>1, <2>1, TaskEndKeepsLife
<1>6. ~DeleteResource(w) /\ ~FinishDelete(w)
  BY DEF DeleteResource, FinishDelete, Running, LifeInv, OnlyConfigures, NoTask
<1> QED BY <1>3, <1>4, <1>5, <1>6 DEF WorkerStep

\* Without delete requests a REST thread can only publish.
LEMMA OnlyPublishes ==
  ASSUME MaxDeletes = 0, TypeInv, LifeInv, NEW c \in Client, ClientStep(c)
  PROVE  PublishBegin(c) \/ PublishEnqueue(c)
<1>1. ~(deletes < MaxDeletes)
  BY DEF TypeInv, TypeOK, BoundsOK
<1> QED BY <1>1 DEF ClientStep, DeleteBegin, DeleteFindActive, DeleteFindService, DeleteSubmit,
              DeleteMark, LifeInv, OnlyConfigures

\* What the request that is accepted means for the jobs.
LEMMA Accepts ==
  ASSUME TypeInv, JobsExist, LifeInv, NEW c \in Client, ClientStep(c), PublishEnqueue(c)
  PROVE  \E j \in Job :
            /\ j = njobs + 1 /\ njobs' = j /\ ~Live(j) /\ status[j] = "NOTFOUND"
            /\ j \in Int /\ njobs \in Int
            /\ status' = [status EXCEPT ![j] = "SUBMITTED"]
            /\ name' = [name EXCEPT ![j] = 0]
            /\ j \notin Range(queue) /\ queue' = Append(queue, j)
            /\ \A k \in Job : Live(k)' <=> Live(k) \/ k = j
<1>1. Typed /\ UNCHANGED mjob
  BY TypeFacts DEF ClientStep
<1>2. PICK j \in Job : /\ j = njobs + 1 /\ njobs' = j /\ queue' = Append(queue, j)
                       /\ status' = [status EXCEPT ![j] = "SUBMITTED"]
                       /\ name' = [name EXCEPT ![j] = 0]
  <2>1. njobs + 1 \in Job
    BY <1>1 DEF PublishEnqueue, NewJob, Job, Typed
  <2>2. /\ njobs' = njobs + 1 /\ queue' = Append(queue, njobs + 1)
        /\ status' = [status EXCEPT ![njobs + 1] = "SUBMITTED"]
        /\ name' = [name EXCEPT ![njobs + 1] = 0]
    BY DEF PublishEnqueue, NewJob
  <2> QED BY <2>1, <2>2
<1>3. j \in Int /\ njobs \in Int /\ ~Made(j)
  BY <1>1, <1>2 DEF Typed, Made, Job
<1>4. ~Live(j) /\ j \notin Range(queue)
  BY <1>3 DEF Live, JobsExist
<1>5. status[j] = "NOTFOUND"
  BY <1>2, <1>3 DEF LifeInv, BuildsInOrder
<1>6. Range(queue') = Range(queue) \union {j}
  BY <1>1, <1>2, AppendRange DEF Typed
<1>7. \A k \in Job : Live(k)' <=> Live(k) \/ k = j
  BY <1>1, <1>6 DEF Live
<1> QED BY <1>2, <1>3, <1>4, <1>5, <1>7

LEMMA ClientKeepsLife ==
  ASSUME MaxDeletes = 0, TypeInv, JobsExist, LifeInv, NEW c \in Client, ClientStep(c)
  PROVE  LifeInv'
<1>1. Typed /\ UNCHANGED <<mjob, mpc, worker, nbuilds, phase>>
  BY TypeFacts DEF ClientStep
<1>2. CASE PublishBegin(c)
  <2>1. /\ UNCHANGED <<njobs, status, name, queue, poolQueue>>
        /\ \E v \in dvs : client' = [client EXCEPT ![c] = At("publish", v, 0, FALSE)]
    BY <1>2 DEF PublishBegin, Goto
  <2>2. OnlyConfigures'
    <3>1. \A d \in Client : client'[d].pc \in {"idle", "publish"}
      BY <1>1, <2>1 DEF LifeInv, OnlyConfigures, Typed, At
    <3> QED BY <1>1, <2>1, <3>1 DEF LifeInv, OnlyConfigures
  <2>3. OneRunnerPerJob' /\ WatchedInOrder' /\ BuildsInOrder'
    BY <1>1, <2>1 DEF LifeInv, OneRunnerPerJob, WatchedInOrder, BuildsInOrder, Live
  <2>4. MonitorPlace'
    BY <1>1, <2>1 DEF LifeInv, MonitorPlace
  <2> QED BY <2>2, <2>3, <2>4 DEF LifeInv
<1>3. CASE PublishEnqueue(c)
  <2>1. PICK j \in Job :
            /\ j = njobs + 1 /\ njobs' = j /\ ~Live(j) /\ status[j] = "NOTFOUND"
            /\ j \in Int /\ njobs \in Int
            /\ status' = [status EXCEPT ![j] = "SUBMITTED"]
            /\ name' = [name EXCEPT ![j] = 0]
            /\ j \notin Range(queue) /\ queue' = Append(queue, j)
            /\ \A k \in Job : Live(k)' <=> Live(k) \/ k = j
    BY <1>3, Accepts
  <2>2. /\ UNCHANGED poolQueue /\ client' = [client EXCEPT ![c] = Idle]
    BY <1>3 DEF PublishEnqueue, Goto
  <2>3. \A k \in Job \ {j} : status'[k] = status[k] /\ name'[k] = name[k]
    BY <1>1, <2>1 DEF Typed
  <2>4. status'[j] = "SUBMITTED" /\ name'[j] = 0
    BY <1>1, <2>1 DEF Typed
  <2>5. OneRunnerPerJob'
    <3>1. Distinct(queue) /\ queue \in Seq(Job)
      BY <1>1 DEF LifeInv, OneRunnerPerJob, Distinct, Typed
    <3>2. Distinct(queue')
      BY <2>1, <3>1, DistinctAppend
    <3>3. Range(queue') = Range(queue) \union {j}
      BY <2>1, <3>1, AppendRange
    <3>4. mjob # j
      BY <2>1 DEF Live
    <3> QED BY <1>1, <3>2, <3>3, <3>4 DEF LifeInv, OneRunnerPerJob, Distinct
  <2>6. WatchedInOrder'
    BY <2>1, <2>3, <2>4 DEF LifeInv, WatchedInOrder, Watchable
  <2>7. MonitorPlace'
    <3>1. mpc # "idle" => mjob \in Job /\ mjob # j
      BY <1>1, <2>1 DEF Typed, Live
    <3>2. mpc # "idle" => status'[mjob] = status[mjob] /\ name'[mjob] = name[mjob]
      BY <2>3, <3>1
    <3> QED BY <1>1, <3>2 DEF LifeInv, MonitorPlace
  <2>8. OnlyConfigures'
    <3>1. \A d \in Client : client'[d].pc \in {"idle", "publish"}
      BY <1>1, <2>2 DEF LifeInv, OnlyConfigures, Typed, Idle, At
    <3>2. \A k \in Job : status[k] = "CONFIGURING" => status'[k] = "CONFIGURING"
      BY <2>1, <2>3
    <3>3. \A w \in Worker : worker[w] # NoTask => worker[w].job \in Job
      BY <1>1 DEF Typed, Task
    <3> QED BY <1>1, <2>2, <3>1, <3>2, <3>3 DEF LifeInv, OnlyConfigures, Typed
  <2>9. BuildsInOrder'
    <3>1. 0 <= nbuilds
      BY <1>1 DEF Typed
    <3>2. \A k \in Job : k > j => k > njobs
      BY <2>1 DEF Job
    <3> QED BY <1>1, <2>1, <2>3, <2>4, <3>1, <3>2 DEF LifeInv, BuildsInOrder
  <2> QED BY <2>5, <2>6, <2>7, <2>8, <2>9 DEF LifeInv
<1> QED BY <1>2, <1>3, OnlyPublishes

\* A build that has completed stays so.
LEMMA EnvironmentKeepsLife ==
  ASSUME TypeInv, DeployableKept, LifeInv, Environment
  PROVE  LifeInv'
<1>1. Typed /\ UNCHANGED <<threadVars, nbuilds>>
  BY TypeFacts, EnvironmentFrame
<1>2. \A b \in Build : phase[b] = "Complete" => phase'[b] = "Complete"
  <2>1. phase \in [Build -> Phase]
    BY DEF TypeInv, TypeOK, ClusterOK
  <2> QED BY <2>1 DEF Environment, BuildEnds, Rollout, DropDataVirtualization, UseConnection
<1>3. OneRunnerPerJob' /\ WatchedInOrder' /\ OnlyConfigures'
  BY <1>1 DEF LifeInv, OneRunnerPerJob, WatchedInOrder, OnlyConfigures, Live
<1>4. BuildsInOrder'
  <2>1. \A j \in Job : status[j] = "DEPLOYING" /\ Live(j) => name[j] \in Build
    BY <1>1 DEF DeployableKept, DeployableJob, Typed
  <2> QED BY <1>1, <1>2, <2>1 DEF LifeInv, BuildsInOrder, Live
<1>5. MonitorPlace'
  <2>1. mpc \in {"isDeploying", "deploy", "markDeploying"} => name[mjob] \in Build
    BY <1>1 DEF DeployableKept, Typed
  <2> QED BY <1>1, <1>2, <2>1 DEF LifeInv, MonitorPlace
<1> QED BY <1>3, <1>4, <1>5 DEF LifeInv

LEMMA CrashKeepsLife ==
  ASSUME LifeInv, Crash
  PROVE  LifeInv'
<1>1. OneRunnerPerJob' /\ WatchedInOrder' /\ MonitorPlace'
  BY EmptyRange DEF Crash, OneRunnerPerJob, WatchedInOrder, MonitorPlace, Live, Job
<1>2. OnlyConfigures'
  BY EmptyRange DEF Crash, OnlyConfigures, Idle, At
<1>3. BuildsInOrder'
  BY DEF Crash, LifeInv, BuildsInOrder
<1> QED BY <1>1, <1>2, <1>3 DEF LifeInv

\* All that the life of a job rests on.
LifeKept == TypeInv /\ JobsExist /\ ConfiguredOnce /\ DeployableKept /\ LifeInv

LEMMA NextKeepsLife ==
  ASSUME MaxDeletes = 0, LifeKept, [Next]_vars
  PROVE  LifeInv'
<1>1. CASE UNCHANGED vars
  <2>1. OneRunnerPerJob' /\ WatchedInOrder' /\ OnlyConfigures' /\ BuildsInOrder'
    BY <1>1 DEF vars, LifeKept, LifeInv, OneRunnerPerJob, WatchedInOrder, OnlyConfigures,
                BuildsInOrder, Live
  <2>2. MonitorPlace'
    BY <1>1 DEF vars, LifeKept, LifeInv, MonitorPlace
  <2> QED BY <2>1, <2>2 DEF LifeInv
<1> QED BY <1>1, ClientKeepsLife, MonitorKeepsLife, WorkerKeepsLife, EnvironmentKeepsLife,
           CrashKeepsLife DEF Next, LifeKept

LEMMA LifeInvariant ==
  ASSUME MaxDeletes = 0
  PROVE  Spec => []LifeKept
<1>1. Init => LifeKept
  BY InitTypeInv, InitJobs, InitConfigured, InitDeployable, InitLife DEF LifeKept
<1>2. LifeKept /\ [Next]_vars => LifeKept'
  BY NextKeepsTypes, NextKeepsJobs, NextKeepsConfigured, NextKeepsDeployable, NextKeepsLife
     DEF LifeKept
<1> QED BY <1>1, <1>2, PTL DEF Spec

\* Without delete requests a job has one runner at most, for any number of REST
\* threads, workers, failing calls and restarts: run() submits its runner again
\* on some paths and drops it on the others, and no path does both or adds one
\* to the runner that addToQueue has submitted.
THEOREM OneRunner ==
  ASSUME MaxDeletes = 0
  PROVE  Spec => []OneRunnerPerJob
<1>1. LifeKept => OneRunnerPerJob
  BY DEF LifeKept, LifeInv
<1>2. Spec => []LifeKept
  BY LifeInvariant
<1> QED BY <1>1, <1>2, PTL


-----------------------------------------------------------------------------
(* PublishLifecycle.                                                       *)

\* Who is watched, as PublishLifecycle sees it.
Watching == {j \in Job : Live(j)}

USE DEF LC!lifeVars

\* What a step makes of the abstract state.
LEMMA WatchingMoves ==
  /\ Watch => Watching' = Watching
  /\ Unwatch => Watching' = Watching \ {mjob}
BY DEF Watch, Unwatch, Watching, Job

LEMMA MonitorRefines ==
  ASSUME LifeKept, MonitorStep
  PROVE  [LC!LifeNext]_(LC!lifeVars)
<1>1. TypeInv /\ LifeInv /\ OneRunnerPerJob /\ Typed
  BY TypeFacts DEF LifeKept, LifeInv
<1>2. CASE Take
  BY <1>1, <1>2, MonitorWatches, WatchingMoves DEF Take, Watching
<1>3. CASE ~Take
  <2>1. /\ JobMoves /\ mjob \in Job /\ mjob \in Watching
        /\ Stays \/ Resubmit => Watching' = Watching
        /\ Retire => Watching' = Watching \ {mjob}
    BY <1>1, <1>3, MonitorMove, MonitorWatches, WatchingMoves DEF Watching, Live
  <2>2. CASE UNCHANGED status /\ (Stays \/ Resubmit)
    BY <2>1, <2>2 DEF Watching
  <2>3. CASE UNCHANGED status /\ Retire /\ status[mjob] \in {"BUILDING", "DEPLOYING", "FAILED"}
    <3>1. LC!GiveUp(mjob)
      BY <2>1, <2>3 DEF LC!GiveUp, Watching
    <3> QED BY <2>1, <3>1 DEF LC!LifeNext
  <2>4. CASE status[mjob] = "SUBMITTED" /\ SetStatus(mjob, "CONFIGURING") /\ Resubmit
    <3>1. LC!Advance(mjob)
      BY <2>1, <2>4 DEF LC!Advance, LC!Advances, SetStatus, Watching
    <3> QED BY <2>1, <3>1 DEF LC!LifeNext
  <2>5. CASE status[mjob] = "BUILDING" /\ SetStatus(mjob, "DEPLOYING") /\ Resubmit
    <3>1. LC!Advance(mjob)
      BY <2>1, <2>5 DEF LC!Advance, LC!Advances, SetStatus, Watching
    <3> QED BY <2>1, <3>1 DEF LC!LifeNext
  <2>6. CASE status[mjob] = "BUILDING" /\ SetStatus(mjob, "DEPLOYING") /\ Retire
    <3>1. LC!GiveUp(mjob)
      BY <2>1, <2>6 DEF LC!GiveUp, SetStatus, Watching
    <3> QED BY <2>1, <3>1 DEF LC!LifeNext
  <2>7. CASE /\ Retire
             /\ \E edge \in LC!Ends : status[mjob] = edge[1] /\ SetStatus(mjob, edge[2])
    <3>1. LC!End(mjob)
      BY <2>1, <2>7 DEF LC!End, SetStatus, Watching
    <3> QED BY <2>1, <3>1 DEF LC!LifeNext
  <2>8. /\ <<"BUILDING", "CANCELLED">> \in LC!Ends /\ <<"BUILDING", "FAILED">> \in LC!Ends
        /\ <<"DEPLOYING", "FAILED">> \in LC!Ends /\ <<"DEPLOYING", "RUNNING">> \in LC!Ends
    BY DEF LC!Ends
  <2>9. \/ UNCHANGED status /\ (Stays \/ Resubmit)
        \/ UNCHANGED status /\ Retire /\ status[mjob] \in {"BUILDING", "DEPLOYING", "FAILED"}
        \/ status[mjob] = "SUBMITTED" /\ SetStatus(mjob, "CONFIGURING") /\ Resubmit
        \/ status[mjob] = "BUILDING" /\ SetStatus(mjob, "DEPLOYING") /\ Resubmit
        \/ status[mjob] = "BUILDING" /\ SetStatus(mjob, "DEPLOYING") /\ Retire
        \/ /\ Retire
           /\ \E edge \in LC!Ends : status[mjob] = edge[1] /\ SetStatus(mjob, edge[2])
    BY <2>1, <2>8 DEF JobMoves
  <2> QED BY <2>2, <2>3, <2>4, <2>5, <2>6, <2>7, <2>9
<1> QED BY <1>2, <1>3

\* A configure task makes its job BUILDING or FAILED while a runner of the job
\* goes round: the job is CONFIGURING, and such a job is watched.
LEMMA WorkerRefines ==
  ASSUME LifeKept, PendingKept, NEW w \in Worker, WorkerStep(w)
  PROVE  [LC!LifeNext]_(LC!lifeVars)
<1>1. Typed /\ LifeInv /\ UNCHANGED <<queue, mjob>>
  BY TypeFacts DEF LifeKept, WorkerStep
<1>2. Watching' = Watching
  BY <1>1 DEF Watching, Live
<1>3. CASE UNCHANGED status
  BY <1>2, <1>3 DEF Watching
<1>4. ASSUME NEW s \in {"FAILED", "BUILDING"}, worker[w] # NoTask, SetStatus(worker[w].job, s)
      PROVE  [LC!LifeNext]_(LC!lifeVars)
  <2>1. PICK j \in Job : j = worker[w].job /\ status[j] = "CONFIGURING"
    BY <1>1, <1>4 DEF LifeInv, OnlyConfigures, Typed, Task
  <2>2. j \in Watching
    BY <2>1 DEF PendingKept, PendingIsMonitored, Watching
  <2>3. LC!Advance(j)
    BY <1>2, <1>4, <2>1, <2>2 DEF LC!Advance, LC!Advances, SetStatus, Watching
  <2> QED BY <2>1, <2>3 DEF LC!LifeNext
<1>5. ~DeleteResource(w) /\ ~FinishDelete(w)
  BY <1>1 DEF DeleteResource, FinishDelete, Running, LifeInv, OnlyConfigures, NoTask
<1>6. \/ UNCHANGED status
      \/ worker[w] # NoTask /\ \E s \in {"FAILED", "BUILDING"} : SetStatus(worker[w].job, s)
  BY <1>5 DEF WorkerStep, StartTask, CreateBuild, FinishConfigure, Running, NoTask
<1> QED BY <1>3, <1>4, <1>6

LEMMA ClientRefines ==
  ASSUME MaxDeletes = 0, LifeKept, NEW c \in Client, ClientStep(c)
  PROVE  [LC!LifeNext]_(LC!lifeVars)
<1>1. TypeInv /\ JobsExist /\ LifeInv /\ UNCHANGED mjob
  BY DEF LifeKept, ClientStep
<1>2. CASE PublishBegin(c)
  BY <1>1, <1>2 DEF PublishBegin, Live
<1>3. CASE PublishEnqueue(c)
  <2>1. PICK j \in Job :
            /\ status[j] = "NOTFOUND" /\ status' = [status EXCEPT ![j] = "SUBMITTED"]
            /\ \A k \in Job : Live(k)' <=> Live(k) \/ k = j
    BY <1>1, <1>3, Accepts
  <2>2. Watching' = Watching \union {j}
    BY <2>1 DEF Watching
  <2>3. LC!Accept(j)
    BY <2>1, <2>2 DEF LC!Accept, Watching
  <2> QED BY <2>1, <2>3 DEF LC!LifeNext
<1> QED BY <1>1, <1>2, <1>3, OnlyPublishes

LEMMA NextRefines ==
  ASSUME MaxDeletes = 0, LifeKept, PendingKept, [Next]_vars
  PROVE  [LC!LifeNext]_(LC!lifeVars)
<1>1. CASE UNCHANGED vars \/ Environment
  BY <1>1, EnvironmentFrame DEF vars, Live
<1>2. CASE Crash
  <2>1. Watching' = {}
    BY <1>2, EmptyRange DEF Crash, Watching, Live, Job
  <2>2. LC!Forget
    BY <1>2, <2>1 DEF Crash, LC!Forget, Watching
  <2> QED BY <2>2 DEF LC!LifeNext
<1> QED BY <1>1, <1>2, ClientRefines, MonitorRefines, WorkerRefines DEF Next

\* Without delete requests the threads, queues and cluster implement the life of
\* a publish request, for any number of each: a status moves in order and only
\* while its job is in the queue or in the monitor thread, a job is let go when
\* it has ended or a call failed and never before it is configured, and what is
\* let go never changes again.
THEOREM PublishingInOrder ==
  ASSUME MaxDeletes = 0
  PROVE  Spec => PublishesInOrder
<1>1. Init => LC!LifeInit
  BY EmptyRange DEF Init, LC!LifeInit, Live, Job
<1>2. LifeKept /\ PendingKept /\ [Next]_vars => [LC!LifeNext]_(LC!lifeVars)
  BY NextRefines
<1>3. Spec => []LifeKept
  BY LifeInvariant
<1>4. Init => PendingKept
  BY DEF Init, PendingKept, PendingIsMonitored
<1>5. LifeKept /\ PendingKept /\ [Next]_vars => PendingKept'
  BY NextKeepsPending DEF LifeKept
<1>6. Spec => []PendingKept
  BY <1>3, <1>4, <1>5, PTL DEF Spec
<1> QED BY <1>1, <1>2, <1>3, <1>6, PTL DEF Spec, PublishesInOrder, LC!Lifecycle
==============================================================================
