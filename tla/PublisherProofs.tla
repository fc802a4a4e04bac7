--------------------------- MODULE PublisherProofs ---------------------------
(***************************************************************************)
(* Theorems about Publisher, for any number of virtualizations, threads,   *)
(* jobs, faults, delete requests and restarts.                             *)
(***************************************************************************)
EXTENDS Publisher, SequenceTheorems, TLAPS

USE PublisherAssumption DEF
    jobVars, monitorVars, poolVars, threadVars, buildVars, clusterVars,
    syndesisVars, cloudVars, boundVars

-----------------------------------------------------------------------------
(* Sequences and the small sets.                                           *)

LEMMA AppendRange ==
  ASSUME NEW T, NEW s \in Seq(T), NEW x \in T
  PROVE  /\ Append(s, x) \in Seq(T)
         /\ Range(Append(s, x)) = Range(s) \union {x}
<1>1. Append(s, x) \in Seq(T)
  OBVIOUS
<1>2. /\ Range(s) = {s[i] : i \in 1..Len(s)}
      /\ Range(Append(s, x)) = {Append(s, x)[i] : i \in 1..Len(Append(s, x))}
  BY <1>1, RangeEquality
<1>3. /\ Len(Append(s, x)) = Len(s) + 1
      /\ \A i \in 1..Len(s) : Append(s, x)[i] = s[i]
      /\ Append(s, x)[Len(s) + 1] = x
      /\ Len(s) \in Nat
  OBVIOUS
<1>4. 1..Len(Append(s, x)) = (1..Len(s)) \union {Len(s) + 1}
  BY <1>3
<1> QED BY <1>1, <1>2, <1>3, <1>4

LEMMA TailRange ==
  ASSUME NEW T, NEW s \in Seq(T), s # <<>>
  PROVE  /\ Head(s) \in T
         /\ Tail(s) \in Seq(T)
         /\ Range(s) = {Head(s)} \union Range(Tail(s))
<1>1. /\ Tail(s) \in Seq(T)
      /\ Len(s) \in Nat \ {0}
      /\ Len(Tail(s)) = Len(s) - 1
      /\ \A i \in 1..Len(Tail(s)) : Tail(s)[i] = s[i + 1]
      /\ Head(s) = s[1]
  OBVIOUS
<1>2. /\ Range(s) = {s[i] : i \in 1..Len(s)}
      /\ Range(Tail(s)) = {Tail(s)[i] : i \in 1..Len(Tail(s))}
  BY <1>1, RangeEquality
<1>3. \A i \in 1..Len(s) : i = 1 \/ (i - 1 \in 1..Len(Tail(s)) /\ Tail(s)[i - 1] = s[i])
  BY <1>1
<1>4. \A i \in 1..Len(Tail(s)) : i + 1 \in 1..Len(s)
  BY <1>1
<1>5. Range(s) \subseteq {Head(s)} \union Range(Tail(s))
  BY <1>1, <1>2, <1>3
<1>6. Range(Tail(s)) \subseteq Range(s)
  BY <1>1, <1>2, <1>4
<1>7. Head(s) \in Range(s) /\ Head(s) \in T
  BY <1>1, <1>2
<1> QED BY <1>1, <1>5, <1>6, <1>7

LEMMA EmptyRange == Range(<<>>) = {}
BY DEF Range

LEMMA StepsOfDelete == Len(DeleteStep) = 4 /\ Len(DeleteStep) + 1 = 5
BY DEF DeleteStep

LEMMA TaskTypes ==
  ASSUME NEW j \in Job
  PROVE  /\ ConfigureTask(j, 1, 0) \in Task
         /\ \A b \in Build : ConfigureTask(j, 2, b) \in Task
         /\ \A i \in 1..(Len(DeleteStep) + 1) : DeleteTask(j, i) \in Task
BY StepsOfDelete DEF Task, ConfigureTask, DeleteTask

LEMMA ClientTypes ==
  /\ Idle \in ClientState
  /\ \A pc \in {"idle", "publish", "lookup", "submit", "mark"}, v \in Vdb,
        j \in Job \union {0}, q \in BOOLEAN : At(pc, v, j, q) \in ClientState
<1>1. SomeVdb \in Vdb
  BY DEF SomeVdb
<1> QED BY <1>1 DEF Idle, At, ClientState

-----------------------------------------------------------------------------
(* Type correctness. TypeOK alone is not inductive: whoever acts on a job  *)
(* has to have one.                                                        *)

ActorsHaveJobs ==
    /\ mjob = 0 <=> mpc = "idle"
    /\ \A c \in Client : client[c].pc \in {"submit", "mark"} => client[c].job # 0

TypeInv == TypeOK /\ ActorsHaveJobs

LEMMA InitTypeInv == Init => TypeInv
<1> SUFFICES ASSUME Init PROVE TypeInv
  OBVIOUS
<1> USE DEF Init
<1>1. SomeVdb \in Vdb
  BY DEF SomeVdb
<1>2. JobsOK
  BY <1>1 DEF JobsOK, Job, Build, Status
<1>3. ThreadsOK
  BY ClientTypes DEF ThreadsOK, MonitorPc
<1>4. ClusterOK
  BY DEF ClusterOK, Build, Phase, Deployment
<1>5. SyndesisOK /\ BoundsOK
  BY DEF SyndesisOK, BoundsOK
<1>6. ActorsHaveJobs
  BY DEF ActorsHaveJobs, Idle, At
<1> QED BY <1>2, <1>3, <1>4, <1>5, <1>6 DEF TypeInv, TypeOK

LEMMA VDBServiceType ==
  ASSUME TypeOK, NEW v \in Vdb, NEW s \in VDBService(v)
  PROVE  /\ s.status \in Status \ {"SUBMITTED", "CONFIGURING"}
         /\ s.name \in Build \union {0}
<1>1. CASE s = [status |-> "NOTFOUND", name |-> 0] \/ s = [status |-> "FAILED", name |-> 0]
  BY <1>1 DEF Status
<1>2. CASE \E b \in BuildsOf(v) : \E t \in BuildStatuses(v, b) :
              s = [status |-> t, name |-> b]
  <2>0. PICK b \in BuildsOf(v) : \E t \in BuildStatuses(v, b) :
               s = [status |-> t, name |-> b]
    BY <1>2
  <2>1. PICK t \in BuildStatuses(v, b) : s = [status |-> t, name |-> b]
    BY <2>0
  <2>2. t \in {"CANCELLED", "FAILED", "DEPLOYING", "RUNNING", "BUILDING"}
    BY <2>1 DEF BuildStatuses
  <2>3. b \in Build
    BY DEF BuildsOf, Build, TypeOK, ClusterOK
  <2> QED BY <2>1, <2>2, <2>3 DEF Status
<1> QED BY <1>1, <1>2 DEF VDBService

LEMMA ActiveJobType ==
  ASSUME TypeOK, NEW v \in Vdb
  PROVE  ActiveJob(v) \in Job \union {0}
BY DEF ActiveJob, TypeOK, ThreadsOK

LEMMA NewJobType ==
  ASSUME JobsOK, NEW v \in Vdb, NEW s \in Status, NEW b \in Build \union {0},
         NEW cfg \in BOOLEAN, NewJob(v, s, b, cfg)
  PROVE  JobsOK' /\ njobs + 1 \in Job
BY DEF NewJob, JobsOK, Job

\* What a REST thread leaves to show once its step is known.
LEMMA ClientTypeFrame ==
  ASSUME TypeInv, NEW c \in Client, ClientStep(c),
         JobsOK', NEW t \in ClientState, Goto(c, t),
         t.pc \in {"submit", "mark"} => t.job # 0,
         queue' \in Seq(Job), poolQueue' \in Seq(Task), deletes' \in 0..MaxDeletes
  PROVE  TypeInv'
<1> USE DEF TypeInv, TypeOK, ClientStep
<1>1. client' \in [Client -> ClientState] /\ client'[c] = t
          /\ \A d \in Client \ {c} : client'[d] = client[d]
  BY DEF Goto, ThreadsOK
<1>2. ThreadsOK'
  BY <1>1 DEF ThreadsOK
<1>3. ClusterOK' /\ SyndesisOK' /\ BoundsOK'
  BY DEF ClusterOK, SyndesisOK, BoundsOK
<1>4. ActorsHaveJobs'
  BY <1>1 DEF ActorsHaveJobs
<1> QED BY <1>2, <1>3, <1>4

LEMMA ClientKeepsTypes ==
  ASSUME TypeInv, NEW c \in Client, ClientStep(c)
  PROVE  TypeInv'
<1> DEFINE v == client[c].vdb
<1>0. /\ client[c] \in ClientState
      /\ v \in Vdb /\ client[c].job \in Job \union {0} /\ client[c].queue \in BOOLEAN
      /\ queue \in Seq(Job) /\ poolQueue \in Seq(Task) /\ deletes \in 0..MaxDeletes
      /\ JobsOK /\ TypeOK
      /\ client[c].pc \in {"submit", "mark"} => client[c].job # 0
  BY DEF TypeInv, TypeOK, ThreadsOK, BoundsOK, ClientState, ActorsHaveJobs
<1> HIDE DEF v
<1>1. CASE PublishBegin(c)
  <2>1. PICK u \in dvs : Goto(c, At("publish", u, 0, FALSE))
    BY <1>1 DEF PublishBegin
  <2>2. u \in Vdb
    BY <1>0 DEF TypeOK, SyndesisOK
  <2>3. JobsOK' /\ queue' = queue /\ poolQueue' = poolQueue /\ deletes' = deletes
    BY <1>0, <1>1 DEF PublishBegin, JobsOK
  <2> QED BY <1>0, <2>1, <2>2, <2>3, ClientTypes, ClientTypeFrame DEF At
<1>2. CASE PublishEnqueue(c)
  <2>1. JobsOK' /\ njobs + 1 \in Job
    BY <1>0, <1>2, NewJobType DEF PublishEnqueue, v, Status
  <2>2. queue' \in Seq(Job)
    BY <1>0, <1>2, <2>1, AppendRange DEF PublishEnqueue
  <2> QED BY <1>0, <1>2, <2>1, <2>2, ClientTypes, ClientTypeFrame DEF PublishEnqueue, Idle, At
<1>3. CASE DeleteBegin(c)
  <2>1. PICK u \in Vdb : Goto(c, At(IF ActiveJob(u) = 0 THEN "lookup" ELSE "submit",
                                    u, ActiveJob(u), FALSE))
    BY <1>3 DEF DeleteBegin
  <2>2. ActiveJob(u) \in Job \union {0}
    BY <1>0, ActiveJobType
  <2>3. JobsOK' /\ queue' = queue /\ poolQueue' = poolQueue /\ deletes' \in 0..MaxDeletes
    BY <1>0, <1>3 DEF DeleteBegin, JobsOK
  <2> QED BY <1>0, <2>1, <2>2, <2>3, ClientTypes, ClientTypeFrame DEF At
<1>4. CASE DeleteFindActive(c)
  <2>1. Goto(c, At("submit", v, ActiveJob(v), TRUE)) /\ ActiveJob(v) # 0
    BY <1>4 DEF DeleteFindActive, v
  <2>2. ActiveJob(v) \in Job \union {0}
    BY <1>0, ActiveJobType
  <2>3. JobsOK' /\ queue' = queue /\ poolQueue' = poolQueue /\ deletes' = deletes
    BY <1>0, <1>4 DEF DeleteFindActive, JobsOK
  <2> QED BY <1>0, <2>1, <2>2, <2>3, ClientTypes, ClientTypeFrame DEF At
<1>5. CASE DeleteFindService(c)
  <2>1. queue' = queue /\ poolQueue' = poolQueue /\ deletes' = deletes
    BY <1>5 DEF DeleteFindService
  <2>2. CASE Goto(c, Idle) /\ UNCHANGED <<jobVars, status, name>>
    <3>1. JobsOK'
      BY <1>0, <2>2 DEF JobsOK
    <3> QED BY <1>0, <2>1, <2>2, <3>1, ClientTypes, ClientTypeFrame DEF Idle, At
  <2>3. CASE /\ \E s \in VDBService(v) : NewJob(v, s.status, s.name, FALSE)
             /\ Goto(c, At("submit", v, njobs + 1, TRUE))
    <3>1. PICK s \in VDBService(v) : NewJob(v, s.status, s.name, FALSE)
      BY <2>3
    <3>2. s.status \in Status /\ s.name \in Build \union {0}
      BY <1>0, VDBServiceType
    <3>3. JobsOK' /\ njobs + 1 \in Job
      BY <1>0, <3>1, <3>2, NewJobType
    <3>4. njobs + 1 # 0
      BY <3>3 DEF Job
    <3> QED BY <1>0, <2>1, <2>3, <3>3, <3>4, ClientTypes, ClientTypeFrame DEF At
  <2> QED BY <1>5, <2>2, <2>3 DEF DeleteFindService, v
<1>6. CASE DeleteSubmit(c)
  <2>1. client[c].job \in Job /\ client[c].job # 0
    BY <1>0, <1>6 DEF DeleteSubmit
  <2>2. DeleteTask(client[c].job, 1) \in Task
    BY <2>1, TaskTypes, StepsOfDelete
  <2>3. poolQueue' \in Seq(Task)
    BY <1>0, <1>6, <2>2, AppendRange DEF DeleteSubmit
  <2>4. JobsOK' /\ queue' = queue /\ deletes' = deletes
    BY <1>0, <1>6 DEF DeleteSubmit, JobsOK
  <2>5. Goto(c, At("mark", v, client[c].job, client[c].queue))
    BY <1>6 DEF DeleteSubmit, v
  <2> QED BY <1>0, <2>1, <2>3, <2>4, <2>5, ClientTypes, ClientTypeFrame DEF At
<1>7. CASE DeleteMark(c)
  <2>1. client[c].job \in Job
    BY <1>0, <1>7 DEF DeleteMark
  <2>2. JobsOK' /\ poolQueue' = poolQueue /\ deletes' = deletes
    BY <1>0, <1>7, <2>1 DEF DeleteMark, JobsOK, Status
  <2>3. queue' \in Seq(Job)
    BY <1>0, <1>7, <2>1, AppendRange DEF DeleteMark
  <2> QED BY <1>0, <1>7, <2>2, <2>3, ClientTypes, ClientTypeFrame DEF DeleteMark, Idle, At
<1> QED BY <1>1, <1>2, <1>3, <1>4, <1>5, <1>6, <1>7 DEF ClientStep

\* The monitor thread's own variables, and those of the cloud it writes.
MonitorOK ==
    /\ queue \in Seq(Job)
    /\ mjob \in Job \union {0}
    /\ mpc \in MonitorPc
    /\ mjob = 0 <=> mpc = "idle"

CloudOK ==
    /\ dc \in [Vdb -> Deployment]
    /\ services \subseteq Vdb
    /\ sourceId \in [Vdb -> Conn \union {0}]
    /\ nconns \in 0..(MaxJobs + 1)
    /\ conns \subseteq Conn

LEMMA MonitorFrame ==
  ASSUME TypeInv, MonitorStep, MonitorOK', CloudOK',
         status' \in [Job -> Status], poolQueue' \in Seq(Task),
         faults' \in 0..MaxFaults
  PROVE  TypeInv'
<1> USE DEF TypeInv, TypeOK, MonitorStep
<1>1. JobsOK'
  BY DEF JobsOK
<1>2. ThreadsOK'
  BY DEF ThreadsOK, MonitorOK
<1>3. ClusterOK'
  BY DEF ClusterOK, CloudOK
<1>4. SyndesisOK'
  BY DEF SyndesisOK, CloudOK
<1>5. BoundsOK'
  BY DEF BoundsOK
<1>6. ActorsHaveJobs'
  BY DEF ActorsHaveJobs, MonitorOK
<1> QED BY <1>1, <1>2, <1>3, <1>4, <1>5, <1>6

\* The three ways a step of run() can end.
LEMMA Moves ==
  ASSUME TypeInv, mpc # "idle"
  PROVE  /\ mjob \in Job
         /\ Resubmit => MonitorOK'
         /\ Retire => MonitorOK'
         /\ \A pc \in MonitorPc \ {"idle"} : Continue(pc) => MonitorOK'
<1>1. mjob \in Job /\ queue \in Seq(Job)
  BY DEF TypeInv, TypeOK, ThreadsOK, ActorsHaveJobs
<1>2. Append(queue, mjob) \in Seq(Job)
  BY <1>1, AppendRange
<1>3. mjob # 0 /\ "idle" \in MonitorPc
  BY <1>1 DEF Job, MonitorPc
<1> QED BY <1>1, <1>2, <1>3 DEF Resubmit, Retire, Continue, MonitorOK

\* What is left unchanged stays as it was, and a status may become any other.
LEMMA Unchanged ==
  ASSUME TypeInv
  PROVE  /\ UNCHANGED cloudVars => CloudOK'
         /\ CloudOK
         /\ UNCHANGED status => status' \in [Job -> Status]
         /\ \A j \in Job, s \in Status : SetStatus(j, s) => status' \in [Job -> Status]
         /\ UNCHANGED poolQueue => poolQueue' \in Seq(Task)
         /\ NoFault => faults' \in 0..MaxFaults
         /\ Fault => faults' \in 0..MaxFaults
BY DEF TypeInv, TypeOK, JobsOK, ThreadsOK, ClusterOK, SyndesisOK, BoundsOK, CloudOK,
       SetStatus, NoFault, Fault

LEMMA MonitorKeepsTypes ==
  ASSUME TypeInv, MonitorStep
  PROVE  TypeInv'
<1>0. TestPc \subseteq MonitorPc \ {"idle"} /\ DOMAIN DeleteStep = 1..4
  BY DEF TestPc, MonitorPc, DeleteStep
<1>1. CASE Take
  <2>1. Head(queue) \in Job /\ Tail(queue) \in Seq(Job)
    BY <1>1, TailRange DEF Take, TypeInv, TypeOK, ThreadsOK
  <2>2. MonitorOK'
    BY <1>1, <2>1 DEF Take, MonitorOK, MonitorPc, TestPc, Job
  <2> QED BY <1>1, <2>2, Unchanged, MonitorFrame DEF Take, NoFault
<1>2. CASE TestStatus
  <2>1. mpc # "idle"
    BY <1>2 DEF TestStatus, Test
  <2>2. MonitorOK'
    BY <1>2, <2>1, Moves DEF TestStatus, Test, MonitorPc, TestPc
  <2> QED BY <1>2, <2>2, Unchanged, MonitorFrame DEF TestStatus, NoFault
<1>3. CASE Configure
  <2>1. mjob \in Job /\ MonitorOK'
    BY <1>3, Moves DEF Configure
  <2>2. poolQueue' \in Seq(Task)
    BY <1>3, <2>1, AppendRange, TaskTypes DEF Configure, TypeInv, TypeOK, ThreadsOK
  <2>3. status' \in [Job -> Status]
    BY <1>3, <2>1, Unchanged DEF Configure, Status
  <2> QED BY <1>3, <2>1, <2>2, <2>3, Unchanged, MonitorFrame DEF Configure, NoFault
<1>4. CASE Redelete
  <2>1. mjob \in Job /\ MonitorOK'
    BY <1>4, Moves DEF Redelete, MonitorPc
  <2>2. DeleteTask(mjob, 1) \in Task
    BY <2>1, TaskTypes, StepsOfDelete
  <2>3. poolQueue' \in Seq(Task)
    BY <1>4, <2>2, AppendRange DEF Redelete, TypeInv, TypeOK, ThreadsOK
  <2> QED BY <1>4, <2>1, <2>3, Unchanged, MonitorFrame DEF Redelete, NoFault
<1>5. CASE Remark
  <2>1. mjob \in Job /\ MonitorOK'
    BY <1>5, Moves DEF Remark
  <2>2. status' \in [Job -> Status]
    BY <1>5, <2>1, Unchanged DEF Remark, Status
  <2> QED BY <1>5, <2>1, <2>2, Unchanged, MonitorFrame DEF Remark, NoFault
<1>6. CASE Disconnect
  <2>1. MonitorOK'
    BY <1>6, Moves DEF Disconnect
  <2>2. CloudOK'
    BY <1>6, Unchanged DEF Disconnect, CloudOK
  <2> QED BY <1>6, <2>1, <2>2, Unchanged, MonitorFrame DEF Disconnect
<1>7. CASE GetBuild
  <2>1. mjob \in Job /\ MonitorOK'
    BY <1>7, Moves DEF GetBuild, MonitorPc, TestPc
  <2>2. status' \in [Job -> Status]
    BY <1>7, <2>1, Unchanged DEF GetBuild, Status
  <2> QED BY <1>7, <2>1, <2>2, Unchanged, MonitorFrame DEF GetBuild
<1>8. CASE Deploy
  <2>1. mjob \in Job /\ MonitorOK'
    BY <1>8, Moves DEF Deploy, MonitorPc
  <2>2. vdbOf[mjob] \in Vdb
    BY <2>1 DEF TypeInv, TypeOK, JobsOK
  <2>3. CloudOK'
    BY <1>8, <2>2, Unchanged DEF Deploy, CloudOK, Deployment
  <2> QED BY <1>8, <2>1, <2>3, Unchanged, MonitorFrame DEF Deploy
<1>9. CASE MarkDeploying
  <2>1. mjob \in Job /\ MonitorOK'
    BY <1>9, Moves DEF MarkDeploying
  <2>2. status' \in [Job -> Status]
    BY <1>9, <2>1, Unchanged DEF MarkDeploying, Status
  <2> QED BY <1>9, <2>1, <2>2, Unchanged, MonitorFrame DEF MarkDeploying
<1>10. CASE CheckDeployment
  <2>1. mjob \in Job /\ MonitorOK'
    BY <1>10, Moves DEF CheckDeployment, MonitorPc
  <2>2. status' \in [Job -> Status]
    BY <1>10, <2>1, Unchanged DEF CheckDeployment, Status
  <2> QED BY <1>10, <2>1, <2>2, Unchanged, MonitorFrame DEF CheckDeployment
<1>11. CASE CreateServices
  <2>1. mjob \in Job /\ MonitorOK'
    BY <1>11, Moves DEF CreateServices, MonitorPc
  <2>2. vdbOf[mjob] \in Vdb
    BY <2>1 DEF TypeInv, TypeOK, JobsOK
  <2>3. CloudOK'
    BY <1>11, <2>2, Unchanged DEF CreateServices, CloudOK
  <2> QED BY <1>11, <2>1, <2>3, Unchanged, MonitorFrame DEF CreateServices
<1>12. CASE Connect
  <2>1. mjob \in Job /\ MonitorOK'
    BY <1>12, Moves DEF Connect, MonitorPc
  <2>2. nconns + 1 \in Conn \/ UNCHANGED <<nconns, conns>>
    BY <1>12 DEF Connect, Conn, TypeInv, TypeOK, SyndesisOK
  <2>3. CloudOK'
    BY <1>12, <2>2, Unchanged DEF Connect, CloudOK, Conn
  <2> QED BY <1>12, <2>1, <2>3, Unchanged, MonitorFrame DEF Connect
<1>13. CASE SaveSource
  <2>1. mjob \in Job /\ MonitorOK'
    BY <1>13, Moves DEF SaveSource, MonitorPc
  <2>2. nconns \in Conn \union {0} /\ vdbOf[mjob] \in Vdb
    BY <2>1 DEF TypeInv, TypeOK, JobsOK, SyndesisOK, Conn
  <2>3. CloudOK'
    BY <1>13, <2>2, Unchanged DEF SaveSource, CloudOK
  <2> QED BY <1>13, <2>1, <2>3, Unchanged, MonitorFrame DEF SaveSource
<1>14. CASE MarkRunning
  <2>1. mjob \in Job /\ MonitorOK'
    BY <1>14, Moves DEF MarkRunning
  <2>2. status' \in [Job -> Status]
    BY <1>14, <2>1, Unchanged DEF MarkRunning, Status
  <2> QED BY <1>14, <2>1, <2>2, Unchanged, MonitorFrame DEF MarkRunning, NoFault
<1> QED BY <1>1, <1>2, <1>3, <1>4, <1>5, <1>6, <1>7, <1>8, <1>9, <1>10, <1>11, <1>12,
           <1>13, <1>14 DEF MonitorStep

LEMMA WorkerFrame ==
  ASSUME TypeInv, NEW w \in Worker, WorkerStep(w), ClusterOK',
         status' \in [Job -> Status], name' \in [Job -> Build \union {0}],
         poolQueue' \in Seq(Task), NEW t \in Task \union {NoTask},
         worker' = [worker EXCEPT ![w] = t], faults' \in 0..MaxFaults
  PROVE  TypeInv'
<1> USE DEF TypeInv, TypeOK, WorkerStep
<1>1. JobsOK' /\ SyndesisOK'
  BY DEF JobsOK, SyndesisOK
<1>2. ThreadsOK'
  BY DEF ThreadsOK
<1>3. BoundsOK' /\ ActorsHaveJobs'
  BY DEF BoundsOK, ActorsHaveJobs
<1> QED BY <1>1, <1>2, <1>3

LEMMA TaskOfWorker ==
  ASSUME TypeInv, NEW w \in Worker, worker[w].kind \in {"configure", "delete"}
  PROVE  /\ worker[w] \in Task
         /\ worker[w].job \in Job
         /\ worker[w].step \in 1..(Len(DeleteStep) + 1)
         /\ worker[w].build \in Build \union {0}
BY DEF TypeInv, TypeOK, ThreadsOK, Task, NoTask

LEMMA WorkerKeepsTypes ==
  ASSUME TypeInv, NEW w \in Worker, WorkerStep(w)
  PROVE  TypeInv'
<1>0. /\ ClusterOK /\ (UNCHANGED clusterVars => ClusterOK')
      /\ UNCHANGED name => name' \in [Job -> Build \union {0}]
  BY DEF TypeInv, TypeOK, ClusterOK, JobsOK
<1>1. CASE StartTask(w)
  <2>1. Head(poolQueue) \in Task /\ Tail(poolQueue) \in Seq(Task)
    BY <1>1, TailRange DEF StartTask, TypeInv, TypeOK, ThreadsOK
  <2> QED BY <1>0, <1>1, <2>1, Unchanged, WorkerFrame DEF StartTask, NoFault
<1>2. CASE CreateBuild(w)
  <2>1. worker[w].job \in Job
    BY <1>2, TaskOfWorker DEF CreateBuild, Running
  <2>2. CASE /\ NoFault
             /\ nbuilds < MaxJobs + 1
             /\ nbuilds' = nbuilds + 1
             /\ phase' = [phase EXCEPT ![nbuilds + 1] = "Running"]
             /\ buildOf' = [buildOf EXCEPT ![nbuilds + 1] = worker[w].job]
             /\ worker' = [worker EXCEPT ![w] = ConfigureTask(worker[w].job, 2, nbuilds + 1)]
             /\ UNCHANGED status
    <3>1. nbuilds + 1 \in Build /\ nbuilds' \in 0..(MaxJobs + 1)
      BY <1>0, <2>2 DEF ClusterOK, Build
    <3>2. phase' \in [Build -> Phase] /\ buildOf' \in [Build -> Job \union {0}]
      BY <1>0, <2>1, <2>2, <3>1 DEF ClusterOK, Phase
    <3>3. ClusterOK'
      BY <1>0, <1>2, <3>1, <3>2 DEF CreateBuild, ClusterOK
    <3>4. ConfigureTask(worker[w].job, 2, nbuilds + 1) \in Task
      BY <2>1, <3>1, TaskTypes
    <3> QED BY <1>0, <1>2, <2>2, <3>3, <3>4, Unchanged, WorkerFrame DEF CreateBuild
  <2>3. CASE Fault /\ SetStatus(worker[w].job, "FAILED") /\ EndTask(w) /\ UNCHANGED buildVars
    <3>1. ClusterOK' /\ status' \in [Job -> Status]
      BY <1>0, <1>2, <2>1, <2>3, Unchanged DEF CreateBuild, ClusterOK, Status
    <3> QED BY <1>0, <1>2, <2>3, <3>1, Unchanged, WorkerFrame DEF CreateBuild, EndTask
  <2> QED BY <1>2, <2>2, <2>3 DEF CreateBuild
<1>3. CASE FinishConfigure(w)
  <2>1. worker[w].job \in Job /\ worker[w].build \in Build \union {0}
    BY <1>3, TaskOfWorker DEF FinishConfigure, Running
  <2>2. status' \in [Job -> Status] /\ name' \in [Job -> Build \union {0}]
    BY <1>0, <1>3, <2>1, Unchanged
       DEF FinishConfigure, Status, TypeInv, TypeOK, JobsOK
  <2> QED BY <1>0, <1>3, <2>2, Unchanged, WorkerFrame DEF FinishConfigure, EndTask
<1>4. CASE DeleteResource(w)
  <2>1. /\ worker[w].job \in Job
        /\ worker[w].step + 1 \in 1..(Len(DeleteStep) + 1)
    BY <1>4, TaskOfWorker, StepsOfDelete DEF DeleteResource
  <2>2. DeleteTask(worker[w].job, worker[w].step + 1) \in Task
    BY <2>1, TaskTypes
  <2>3. status' \in [Job -> Status]
    BY <1>4, <2>1, Unchanged DEF DeleteResource, Status
  <2>4. vdbOf[worker[w].job] \in Vdb
    BY <2>1 DEF TypeInv, TypeOK, JobsOK
  <2>5. ClusterOK'
    BY <1>0, <1>4, <2>4 DEF DeleteResource, Removed, ClusterOK, Phase, Deployment
  <2> QED BY <1>0, <1>4, <2>2, <2>3, <2>5, Unchanged, WorkerFrame DEF DeleteResource
<1>5. CASE FinishDelete(w)
  <2>1. worker[w].job \in Job
    BY <1>5, TaskOfWorker DEF FinishDelete, Running
  <2>2. status' \in [Job -> Status]
    BY <1>5, <2>1, Unchanged DEF FinishDelete, Status
  <2> QED BY <1>0, <1>5, <2>2, Unchanged, WorkerFrame DEF FinishDelete, EndTask, NoFault
<1> QED BY <1>1, <1>2, <1>3, <1>4, <1>5 DEF WorkerStep

LEMMA EnvironmentKeepsTypes ==
  ASSUME TypeInv, Environment
  PROVE  TypeInv'
<1> USE DEF TypeInv, TypeOK
<1>1. ASSUME NEW b \in Build, BuildEnds(b) PROVE TypeInv'
  <2>1. ClusterOK'
    BY <1>1 DEF BuildEnds, ClusterOK, Phase
  <2> QED BY <1>1, <2>1 DEF BuildEnds, JobsOK, ThreadsOK, SyndesisOK, BoundsOK, ActorsHaveJobs
<1>2. ASSUME NEW v \in Vdb, Rollout(v) PROVE TypeInv'
  <2>1. ClusterOK'
    BY <1>2 DEF Rollout, ClusterOK, Deployment
  <2> QED BY <1>2, <2>1 DEF Rollout, JobsOK, ThreadsOK, SyndesisOK, BoundsOK, ActorsHaveJobs
<1>3. ASSUME NEW v \in Vdb, DropDataVirtualization(v) PROVE TypeInv'
  <2>1. SyndesisOK'
    BY <1>3 DEF DropDataVirtualization, SyndesisOK
  <2> QED BY <1>3, <2>1
          DEF DropDataVirtualization, JobsOK, ThreadsOK, ClusterOK, BoundsOK, ActorsHaveJobs
<1>4. ASSUME NEW id \in Conn, UseConnection(id) PROVE TypeInv'
  <2>1. SyndesisOK'
    BY <1>4 DEF UseConnection, SyndesisOK
  <2> QED BY <1>4, <2>1
          DEF UseConnection, JobsOK, ThreadsOK, ClusterOK, BoundsOK, ActorsHaveJobs
<1> QED BY <1>1, <1>2, <1>3, <1>4 DEF Environment

LEMMA CrashKeepsTypes ==
  ASSUME TypeInv, Crash
  PROVE  TypeInv'
<1> USE DEF TypeInv, TypeOK, Crash
<1>1. JobsOK' /\ ClusterOK' /\ SyndesisOK' /\ BoundsOK'
  BY DEF JobsOK, ClusterOK, SyndesisOK, BoundsOK, Status
<1>2. ThreadsOK'
  BY ClientTypes DEF ThreadsOK, MonitorPc
<1>3. ActorsHaveJobs'
  BY DEF ActorsHaveJobs, Idle, At
<1> QED BY <1>1, <1>2, <1>3

LEMMA NextKeepsTypes == TypeInv /\ [Next]_vars => TypeInv'
<1> SUFFICES ASSUME TypeInv, [Next]_vars PROVE TypeInv'
  OBVIOUS
<1>1. CASE UNCHANGED vars
  BY <1>1 DEF vars, TypeInv, TypeOK, JobsOK, ThreadsOK, ClusterOK, SyndesisOK, BoundsOK,
              ActorsHaveJobs
<1> QED BY <1>1, ClientKeepsTypes, MonitorKeepsTypes, WorkerKeepsTypes,
           EnvironmentKeepsTypes, CrashKeepsTypes DEF Next

\* Every variable keeps its shape: no thread of the server acts on a job that
\* does not exist, and every task configureService is given has a job.
THEOREM TypeCorrect == Spec => []TypeOK
<1>1. Spec => []TypeInv
  BY InitTypeInv, NextKeepsTypes, PTL DEF Spec
<1>2. TypeInv => TypeOK
  BY DEF TypeInv
<1> QED BY <1>1, <1>2, PTL
=============================================================================
