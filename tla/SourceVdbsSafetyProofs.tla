----------------------- MODULE SourceVdbsSafetyProofs -----------------------
(***************************************************************************)
(* The safety properties of SourceVdbs, proved for any number of           *)
(* connections, names, threads, load VDBs, virtualizations, changes,       *)
(* faults and restarts.                                                    *)
(***************************************************************************)
EXTENDS SourceVdbsProofs

USE SourceVdbsAssumption DEF worldVars, vdbVars, refreshVars, serverVars, bounds

-----------------------------------------------------------------------------
(* What waits in connectionExecutor.                                       *)

Waiting(s) == {s[i] : i \in 1..Len(s)}

LEMMA AppendWaiting ==
  ASSUME NEW s \in Seq(Task), NEW m \in Task
  PROVE  Waiting(Append(s, m)) = Waiting(s) \union {m}
<1>1. /\ Len(Append(s, m)) = Len(s) + 1
      /\ \A i \in 1..Len(s) : Append(s, m)[i] = s[i]
      /\ Append(s, m)[Len(s) + 1] = m
      /\ Len(s) \in Nat
  OBVIOUS
<1>2. 1..Len(Append(s, m)) = (1..Len(s)) \union {Len(s) + 1}
  BY <1>1
<1> QED BY <1>1, <1>2 DEF Waiting

LEMMA TailWaiting ==
  ASSUME NEW s \in Seq(Task), s # <<>>
  PROVE  Waiting(s) = {Head(s)} \union Waiting(Tail(s))
<1>1. /\ Len(s) \in Nat \ {0}
      /\ Len(Tail(s)) = Len(s) - 1
      /\ \A i \in 1..Len(Tail(s)) : Tail(s)[i] = s[i + 1]
      /\ Head(s) = s[1]
  OBVIOUS
<1>2. \A i \in 1..Len(s) : i = 1 \/ (i - 1 \in 1..Len(Tail(s)) /\ Tail(s)[i - 1] = s[i])
  BY <1>1
<1>3. \A i \in 1..Len(Tail(s)) : i + 1 \in 1..Len(s)
  BY <1>1
<1>4. Waiting(s) \subseteq {Head(s)} \union Waiting(Tail(s))
  BY <1>1, <1>2 DEF Waiting
<1>5. Waiting(Tail(s)) \subseteq Waiting(s)
  BY <1>1, <1>3 DEF Waiting
<1>6. Head(s) \in Waiting(s)
  BY <1>1 DEF Waiting
<1> QED BY <1>4, <1>5, <1>6

\* Whoever queues a task leaves those that wait.
LEMMA EnqueueWaiting ==
  ASSUME TypeInv, NEW kind, NEW c, Enqueue(kind, c),
         \/ kind \in {"add", "update", "delete", "remove", "replace"} /\ c \in Conn
         \/ kind = "refresh" /\ c = Null
  PROVE  Waiting(queue') = Waiting(queue) \union {[kind |-> kind, conn |-> c]}
<1>1. [kind |-> kind, conn |-> c] \in Task
  BY TaskTypes
<1> QED BY <1>1, AppendWaiting DEF Enqueue, TypeInv

LEMMA TakeWaiting ==
  ASSUME TypeInv, NEW kind, Take(kind)
  PROVE  /\ Waiting(queue) = {Head(queue)} \union Waiting(Tail(queue))
         /\ Head(queue).kind = kind
BY TailWaiting DEF Take, TypeInv

LEMMA TakeDeleteWaiting ==
  ASSUME TypeInv, TakeDelete
  PROVE  /\ Waiting(Tail(queue)) \subseteq Waiting(queue')
         /\ LET remove == [kind |-> "remove", conn |-> Head(queue).conn]
            IN  /\ Waiting(queue') \subseteq Waiting(Tail(queue)) \union {remove}
                /\ ddl'[Head(queue).conn] = NoRow /\ ddl[Head(queue).conn] # NoRow
                     => remove \in Waiting(queue')
<1> DEFINE remove == [kind |-> "remove", conn |-> Head(queue).conn]
<1>1. remove \in Task /\ Tail(queue) \in Seq(Task)
  BY TakeTypes, TaskTypes DEF TakeDelete
<1>2. Waiting(Append(Tail(queue), remove)) = Waiting(Tail(queue)) \union {remove}
  BY <1>1, AppendWaiting
<1>3. queue' = Tail(queue) \/ queue' = Append(Tail(queue), remove)
  BY DEF TakeDelete
<1>4. ddl'[Head(queue).conn] = NoRow /\ ddl[Head(queue).conn] # NoRow
        => queue' = Append(Tail(queue), remove)
  BY DEF TakeDelete
<1> QED BY <1>2, <1>3, <1>4

-----------------------------------------------------------------------------
(* A name whose VDB is being deployed has none, and one thread at it; only *)
(* the executor replaces VDBs.                                             *)

DeployInv ==
    /\ \A n \in Name : ds[n] # Null => TeiidName[ds[n]] = n
    /\ \A a \in Rest : call[a].mode # "replace"
    /\ call[Executor].mode = "replace" => ds[NameOf(Executor)] # Null
    /\ \A a \in Actor : At(a, "deploy") => conn[NameOf(a)] = NoVdb
    /\ \A a, b \in Actor : At(a, "deploy") /\ At(b, "deploy") /\ a # b =>
                                NameOf(a) # NameOf(b)

\* The step of a thread in doDeploySourceVdb.
LEMMA DeployingFacts ==
  ASSUME TypeInv, NEW a \in Actor, Deploying(a)
  PROVE  /\ \A b \in Actor \ {a} : call'[b] = call[b]
         /\ At(a, "row") \/ At(a, "check") \/ At(a, "deploy")
         /\ NameOf(a) \in Name
         /\ \/ conn' = conn /\ call'[a] = Idle
            \/ /\ conn' = conn
               /\ call'[a].pc = "check"
               /\ call'[a].conn = call[a].conn /\ call'[a].mode = call[a].mode
            \/ /\ call'[a] = Idle
               /\ At(a, "check") /\ ~ForLoad(a) /\ ~Deployed(a) /\ ~Locked(a)
               /\ conn' = [conn EXCEPT ![NameOf(a)] = NoVdb]
               /\ Enqueue("refresh", Null) \/ ds[NameOf(a)] = Null
            \/ /\ call'[a] = [call[a] EXCEPT !.pc = "deploy"]
               /\ At(a, "check") /\ ~ForLoad(a) /\ ~Deployed(a) /\ ~Locked(a)
               /\ conn' = [conn EXCEPT ![NameOf(a)] = NoVdb]
            \/ /\ call'[a] = Idle
               /\ At(a, "deploy")
               /\ conn' \in {conn, [conn EXCEPT ![NameOf(a)] = Served(call[a].conn)]}
               /\ Enqueue("refresh", Null)
<1>1. CASE ReadRow(a)
  <2>1. call[a] \in Call /\ NameOf(a) \in Name
    BY <1>1, CallHasConn DEF ReadRow
  <2>2. CASE Return(a)
    BY <1>1, <2>1, <2>2 DEF ReadRow, Deploying, TypeInv, Return
  <2>3. CASE ~Return(a)
    BY <1>1, <2>1, <2>3 DEF ReadRow, Deploying, TypeInv, Call
  <2> QED BY <2>2, <2>3
<1>2. CASE CheckVdb(a)
  BY <1>2, CallHasConn DEF CheckVdb, TypeInv, Return
<1>3. CASE DeployLoadVdb(a)
  BY <1>3, CallHasConn DEF DeployLoadVdb, TypeInv, Return
<1>4. CASE UndeployFailed(a)
  <2>1. ~ForLoad(a)
    BY <1>4 DEF UndeployFailed, Failed, ForLoad
  <2> QED BY <1>4, <2>1, CallHasConn DEF UndeployFailed, TypeInv, Return
<1>5. CASE UndeployConnVdb(a)
  BY <1>5, CallHasConn DEF UndeployConnVdb, TypeInv, Return, Go
<1>6. CASE DeployConnVdb(a)
  BY <1>6, CallHasConn DEF DeployConnVdb, TypeInv, Return
<1> QED BY <1>1, <1>2, <1>3, <1>4, <1>5, <1>6 DEF Deploying, DeployStep

LEMMA CreateFacts ==
  ASSUME TypeInv, NEW c \in Conn, NEW mode \in Mode \ {"replace"}, Create(c, mode)
  PROVE  /\ \A a \in Actor \ {Executor} : call'[a] = call[a]
         /\ call'[Executor].mode # "replace" /\ call'[Executor].pc \in {"idle", "row"}
         /\ \A n \in Name : ds'[n] = ds[n] \/ (ds'[n] = c /\ n = TeiidName[c])
<1>1. CASE Fault /\ Return(Executor) /\ UNCHANGED ds
  BY <1>1 DEF Return, TypeInv, Actor, Idle
<1>2. CASE /\ ds' = [ds EXCEPT ![TeiidName[c]] = IF @ = Null THEN c ELSE @]
           /\ Become(Deploy(ds'[TeiidName[c]], mode))
  <2>1. call'[Executor] = Deploy(ds'[TeiidName[c]], mode)
    BY <1>2 DEF Become, TypeInv, Actor
  <2>2. \A a \in Actor \ {Executor} : call'[a] = call[a]
    BY <1>2 DEF Become, TypeInv
  <2>3. \A n \in Name : ds'[n] = ds[n] \/ (ds'[n] = c /\ n = TeiidName[c])
    BY <1>2 DEF TypeInv
  <2> QED BY <2>1, <2>2, <2>3 DEF Deploy
<1> QED BY <1>1, <1>2 DEF Create

\* The executor's step in a task.
LEMMA TasksFacts ==
  ASSUME TypeInv, Tasks
  PROVE  /\ \A a \in Actor \ {Executor} : call'[a] = call[a]
         /\ call[Executor].pc \in {"idle", "create", "drop", "snapshot"}
         /\ call'[Executor].pc \in {"idle", "row", "create", "drop", "snapshot", "previews"}
         /\ \A n \in Name :
               \/ ds'[n] \in {ds[n], Null}
               \/ ds'[n] \in Conn /\ TeiidName[ds'[n]] = n
         /\ \/ call'[Executor].mode # "replace"
            \/ /\ TakeReplace /\ ds[ThisName] # Null /\ ThisName \in Name
               /\ call'[Executor] = Deploy(ds[ThisName], "replace")
               /\ UNCHANGED ds
         /\ conn' = conn \/ TakeRemove
<1>1. CASE TakeAdd
  <2>1. Head(queue).conn \in Conn
    BY <1>1, TakeTypes DEF TakeAdd
  <2> QED BY <1>1, <2>1, CreateFacts DEF TakeAdd, Take, At, Mode
<1>2. CASE CreateAgain
  <2>1. call[Executor].conn \in Conn
    BY <1>2, CallHasConn DEF CreateAgain, Actor
  <2> QED BY <1>2, <2>1, CreateFacts DEF CreateAgain, At, Mode
<1>3. CASE TakeUpdate
  BY <1>3 DEF TakeUpdate, Take, At, Become, Deploy, TypeInv, Actor
<1>4. CASE TakeDelete
  BY <1>4 DEF TakeDelete, Take, At, Become, Deploy, TypeInv, Actor
<1>5. CASE DeleteDataSource
  BY <1>5 DEF DeleteDataSource, At, Return, Idle, TypeInv, Actor
<1>6. CASE TakeRemove
  BY <1>6 DEF TakeRemove, Take, At, Become, Refreshing, Idle, TypeInv, Actor
<1>7. CASE TakeReplace
  <2>1. ThisName \in Name
    BY <1>7, TakeTypes DEF TakeReplace
  <2> QED BY <1>7, <2>1 DEF TakeReplace, Take, At, Become, Deploy, Idle, TypeInv, Actor
<1>8. CASE Snapshot
  BY <1>8 DEF Snapshot, Take, At, Become, Refreshing, Idle, TypeInv, Actor
<1> QED BY <1>1, <1>2, <1>3, <1>4, <1>5, <1>6, <1>7, <1>8 DEF Tasks

LEMMA InitDeploy == Init => DeployInv
<1> SUFFICES ASSUME Init PROVE DeployInv
  OBVIOUS
<1>1. \A a \in Actor : call[a] = Idle
  BY DEF Init
<1>2. Executor \in Actor
  BY DEF Actor
<1> QED BY <1>1, <1>2 DEF Init, DeployInv, Idle, At, Actor

LEMMA DeployingKeepsInv ==
  ASSUME TypeInv, DeployInv, NEW a \in Actor, Deploying(a)
  PROVE  DeployInv'
<1> USE DeployingFacts
<1>1. UNCHANGED ds
  BY DEF Deploying
<1>2. \A b \in Actor : call'[b].mode = "replace" =>
          call[b].mode = "replace" /\ call'[b].conn = call[b].conn
  <2>1. call[a] \in AnyCall
    BY DEF TypeInv
  <2>2. At(a, "check") => call[a] \in Call
    BY CallHasConn
  <2>3. CASE call'[a] = [call[a] EXCEPT !.pc = "deploy"] /\ At(a, "check")
    BY <2>2, <2>3 DEF Call
  <2> QED BY <2>3 DEF Idle
<1>3. \A b \in Actor : At(b, "deploy")' => conn'[NameOf(b)'] = NoVdb
  <2> SUFFICES ASSUME NEW b \in Actor, At(b, "deploy")'
               PROVE  conn'[NameOf(b)'] = NoVdb
    OBVIOUS
  <2>1. CASE b = a
    <3>1. /\ call'[a] = [call[a] EXCEPT !.pc = "deploy"]
          /\ At(a, "check")
          /\ conn' = [conn EXCEPT ![NameOf(a)] = NoVdb]
      BY <2>1 DEF At, Idle
    <3>2. call[a] \in Call /\ NameOf(a) \in Name
      BY <3>1, CallHasConn
    <3>3. NameOf(a)' = NameOf(a)
      BY <3>1, <3>2 DEF NameOf, Call
    <3> QED BY <2>1, <3>1, <3>2, <3>3 DEF TypeInv
  <2>2. CASE b # a
    <3>1. At(b, "deploy") /\ NameOf(b)' = NameOf(b) /\ NameOf(b) \in Name
      BY <2>2, CallHasConn DEF At, NameOf
    <3>2. conn[NameOf(b)] = NoVdb
      BY <3>1 DEF DeployInv
    <3>3. At(a, "deploy") => NameOf(a) # NameOf(b)
      BY <2>2, <3>1 DEF DeployInv
    <3>4. \/ conn' = conn \/ conn' = [conn EXCEPT ![NameOf(a)] = NoVdb]
          \/ /\ At(a, "deploy")
             /\ conn' \in {conn, [conn EXCEPT ![NameOf(a)] = Served(call[a].conn)]}
      OBVIOUS
    <3>5. conn'[NameOf(b)] = NoVdb
      BY <3>1, <3>2, <3>3, <3>4 DEF TypeInv
    <3> QED BY <3>1, <3>5
  <2> QED BY <2>1, <2>2
<1>4. \A b, c \in Actor : At(b, "deploy")' /\ At(c, "deploy")' /\ b # c =>
                               NameOf(b)' # NameOf(c)'
  <2>1. \A b \in Actor : At(b, "deploy")' =>
           /\ NameOf(b)' = NameOf(b)
           /\ At(b, "deploy") \/ (b = a /\ ~Locked(a))
    <3> SUFFICES ASSUME NEW b \in Actor, At(b, "deploy")'
                 PROVE  /\ NameOf(b)' = NameOf(b)
                        /\ At(b, "deploy") \/ (b = a /\ ~Locked(a))
      OBVIOUS
    <3>1. CASE b # a
      BY <3>1 DEF At, NameOf
    <3>2. CASE b = a
      <4>1. call'[a] = [call[a] EXCEPT !.pc = "deploy"] /\ At(a, "check") /\ ~Locked(a)
        BY <3>2 DEF At, Idle
      <4>2. call[a] \in Call
        BY <4>1, CallHasConn
      <4> QED BY <3>2, <4>1, <4>2 DEF NameOf, Call
    <3> QED BY <3>1, <3>2
  <2> QED BY <2>1 DEF DeployInv, Locked
<1>5. call'[Executor].mode = "replace" => ds'[NameOf(Executor)'] # Null
  BY <1>1, <1>2 DEF DeployInv, Actor, NameOf
<1>6. \A b \in Rest : call'[b].mode # "replace"
  BY <1>2 DEF DeployInv, Actor
<1> QED BY <1>1, <1>3, <1>4, <1>5, <1>6 DEF DeployInv

LEMMA TasksKeepInv ==
  ASSUME TypeInv, DeployInv, Tasks
  PROVE  DeployInv'
<1>0. \A b \in Actor \ {Executor} : call'[b] = call[b]
  BY TasksFacts
<1>1. \A b \in Rest : call'[b] = call[b]
  BY <1>0 DEF Actor
<1> USE TasksFacts
<1>2. \A b \in Actor : At(b, "deploy")' =>
         b # Executor /\ At(b, "deploy") /\ NameOf(b)' = NameOf(b) /\ NameOf(b) \in Name
  <2> SUFFICES ASSUME NEW b \in Actor, At(b, "deploy")'
               PROVE  /\ b # Executor /\ At(b, "deploy")
                      /\ NameOf(b)' = NameOf(b) /\ NameOf(b) \in Name
    OBVIOUS
  <2>1. b # Executor /\ call'[b] = call[b]
    BY DEF At
  <2> QED BY <2>1, CallHasConn DEF At, NameOf
<1>3. \A n \in Name : conn[n] = NoVdb => conn'[n] = NoVdb
  BY DEF TakeRemove, TypeInv
<1>4. \A n \in Name : ds'[n] # Null => TeiidName[ds'[n]] = n
  BY DEF DeployInv
<1>5. call'[Executor].mode = "replace" => ds'[NameOf(Executor)'] # Null
  BY DEF DeployInv, NameOf, Deploy
<1>6. \A b \in Rest : call'[b].mode # "replace"
  BY <1>1 DEF DeployInv
<1> QED BY <1>2, <1>3, <1>4, <1>5, <1>6 DEF DeployInv

LEMMA NextDeploy == TypeInv /\ DeployInv /\ [Next]_vars => DeployInv'
<1> SUFFICES ASSUME TypeInv, DeployInv, [Next]_vars PROVE DeployInv'
  OBVIOUS
<1>1. CASE UNCHANGED <<call, conn, ds>>
  BY <1>1 DEF DeployInv, At, NameOf
<1>2. CASE Requests
  <2>1. UNCHANGED <<conn, ds>>
    BY <1>2 DEF Requests
  <2>2. CASE UNCHANGED call
    BY <1>1, <2>1, <2>2
  <2>3. ASSUME NEW a \in Rest, NEW n \in Name, RefreshSchema(a, n) \/ FindSchemaModel(a, n)
        PROVE  DeployInv'
    <3>1. /\ call'[a].mode # "replace" /\ call'[a].pc = "row"
          /\ \A b \in Actor \ {a} : call'[b] = call[b]
      BY <2>3 DEF RefreshSchema, FindSchemaModel, Deploy, TypeInv, Actor
    <3> QED BY <2>1, <3>1 DEF DeployInv, At, NameOf, Actor
  <2> QED BY <1>2, <2>2, <2>3 DEF Requests, UpdatePreviewVdb
<1>3. CASE Refresh
  <2>1. UNCHANGED <<conn, ds>>
    BY <1>3 DEF Refresh
  <2>2. UNCHANGED call \/ call' = [call EXCEPT ![Executor] = Idle]
    BY <1>3 DEF Refresh, DeployMaster, UndeployPreview, Return
  <2>3. CASE call' = [call EXCEPT ![Executor] = Idle]
    <3>1. /\ call'[Executor] = Idle
          /\ \A b \in Actor \ {Executor} : call'[b] = call[b]
      BY <2>3 DEF TypeInv, Actor
    <3>2. \A b \in Rest : call'[b] = call[b]
      BY <3>1 DEF Actor
    <3>3. \A b \in Actor : At(b, "deploy")' => call'[b] = call[b] /\ At(b, "deploy")
      BY <3>1 DEF At, Idle
    <3> QED BY <2>1, <3>1, <3>2, <3>3 DEF DeployInv, NameOf, Idle
  <2> QED BY <1>1, <2>1, <2>2, <2>3
<1>4. CASE Restart
  BY <1>4 DEF Restart, DeployInv, At, Actor, Idle
<1>5. CASE World
  BY <1>1, <1>5 DEF World
<1>6. ASSUME NEW c \in Conn, Synchronize(c) PROVE DeployInv'
  BY <1>1, <1>6 DEF Synchronize
<1>7. ASSUME NEW l \in Load, Loading(l) PROVE DeployInv'
  BY <1>1, <1>7 DEF Loading
<1>8. CASE UNCHANGED vars
  BY <1>1, <1>8 DEF vars
<1> QED BY <1>2, <1>3, <1>4, <1>5, <1>6, <1>7, <1>8, DeployingKeepsInv, TasksKeepInv DEF Next

-----------------------------------------------------------------------------
(* Who takes a VDB away that is there.                                     *)

LEMMA ConnTaken ==
  ASSUME TypeInv, DeployInv, [Next]_vars, NEW n \in Name,
         conn[n] # NoVdb, conn'[n] # conn[n]
  PROVE  \/ Deploying(Executor) /\ At(Executor, "check") /\ call'[Executor] # call[Executor]
         \/ TakeRemove \/ Restart
<1>1. ASSUME NEW a \in Actor, Deploying(a)
      PROVE  a = Executor /\ At(a, "check") /\ call'[a] # call[a]
  <2>1. At(a, "check") \/ At(a, "deploy")
    BY <1>1, DeployingFacts
  <2>2. NameOf(a) = n
    <3>1. \/ conn' = conn
          \/ conn' = [conn EXCEPT ![NameOf(a)] = NoVdb]
          \/ conn' = [conn EXCEPT ![NameOf(a)] = Served(call[a].conn)]
      BY <1>1, DeployingFacts
    <3> QED BY <3>1 DEF TypeInv
  <2>3. ~At(a, "deploy")
    BY <2>2 DEF DeployInv
  <2>4. /\ ~Deployed(a) /\ ~ForLoad(a)
        /\ call'[a] = Idle \/ call'[a] = [call[a] EXCEPT !.pc = "deploy"]
    BY <1>1, <2>3, DeployingFacts
  <2>6. call'[a].pc # "check"
    <3>1. call[a] \in Call
      BY <2>1, <2>3, CallHasConn
    <3> QED BY <2>4, <3>1 DEF Idle, Call
  <2>5. call[a].mode = "replace"
    BY <2>2, <2>4 DEF Deployed
  <2> QED BY <2>1, <2>3, <2>5, <2>6 DEF DeployInv, Actor, At
<1>2. CASE Tasks
  BY <1>2, TasksFacts
<1>3. CASE UNCHANGED conn
  BY <1>3
<1>4. \/ UNCHANGED conn \/ Tasks \/ Restart
      \/ \E a \in Actor : Deploying(a)
  BY DEF Next, vars, World, Synchronize, Requests, Refresh, Loading
<1> QED BY <1>1, <1>2, <1>3, <1>4

Undeploys ==
    \A n \in Name : conn[n] # NoVdb /\ conn'[n] # conn[n] =>
        call'[Executor] # call[Executor] \/ restarts' # restarts

LEMMA NextUndeploys == TypeInv /\ DeployInv /\ [Next]_vars => Undeploys
<1> SUFFICES ASSUME TypeInv, DeployInv, [Next]_vars, NEW n \in Name,
                    conn[n] # NoVdb, conn'[n] # conn[n]
             PROVE  call'[Executor] # call[Executor] \/ restarts' # restarts
  BY DEF Undeploys
<1>1. CASE TakeRemove
  BY <1>1 DEF TakeRemove, Take, At, Become, Refreshing, Idle, TypeInv, Actor
<1>2. CASE Restart
  BY <1>2 DEF Restart, TypeInv
<1> QED BY <1>1, <1>2, ConnTaken

\* What the comment on the modes of a deployment promises: an active VDB is only
\* taken away on connectionExecutor, though requests deploy VDBs as well.
THEOREM ExecutorUndeploys == Spec => OnlyExecutorUndeploys
<1>1. TypeInv /\ DeployInv /\ [Next]_vars => [Undeploys]_vars
  BY NextUndeploys
<1>2. TypeInv /\ DeployInv /\ [Next]_vars => (TypeInv /\ DeployInv)'
  BY NextTypes, NextDeploy
<1> QED BY <1>1, <1>2, InitTypes, InitDeploy, PTL DEF Spec, OnlyExecutorUndeploys, Undeploys

-----------------------------------------------------------------------------
(* What waits is not forgotten.                                            *)

LEMMA EnqueueKeeps ==
  ASSUME TypeInv, NEW kind, NEW c, Enqueue(kind, c),
         \/ kind \in {"add", "update", "delete", "remove", "replace"} /\ c \in Conn
         \/ kind = "refresh" /\ c = Null
  PROVE  /\ Waiting(queue) \subseteq Waiting(queue')
         /\ [kind |-> kind, conn |-> c] \in Waiting(queue')
BY EnqueueWaiting

LEMMA DeployingKeepsWaiting ==
  ASSUME TypeInv, NEW a \in Actor, Deploying(a)
  PROVE  Waiting(queue) \subseteq Waiting(queue')
<1>1. queue' = queue \/ Enqueue("refresh", Null)
  BY DEF Deploying, DeployStep, ReadRow, CheckVdb, DeployLoadVdb, UndeployFailed,
         UndeployConnVdb, DeployConnVdb
<1> QED BY <1>1, EnqueueKeeps

LEMMA LoadingKeepsWaiting ==
  ASSUME TypeInv, NEW l \in Load, Loading(l)
  PROVE  Waiting(queue) \subseteq Waiting(queue')
<1>1. queue' = queue \/ (JobAt(l, "commit") /\ Enqueue("replace", job[l].conn))
  BY DEF Loading, LoadStep, FinishLoad, AbandonLoad, ExportSchema, FailToExport,
         ReadForStore, CommitStore, ConflictAtStore, FailAtStore, RowOf
<1>2. JobAt(l, "commit") => job[l].conn \in Conn
  BY JobHasConn
<1> QED BY <1>1, <1>2, EnqueueKeeps

LEMMA TasksKeepWaiting ==
  ASSUME TypeInv, Tasks
  PROVE  \/ Waiting(queue) \subseteq Waiting(queue')
         \/ \E kind \in {"add", "update", "delete", "remove", "replace", "refresh"} :
               /\ Take(kind)
               /\ Waiting(queue) \subseteq {Head(queue)} \union Waiting(queue')
<1>1. CASE CreateAgain \/ DeleteDataSource \/ (Snapshot /\ UNCHANGED queue)
  BY <1>1 DEF CreateAgain, DeleteDataSource
<1>2. CASE TakeDelete
  <2>1. Waiting(queue) = {Head(queue)} \union Waiting(Tail(queue))
    BY <1>2, TakeWaiting DEF TakeDelete
  <2> QED BY <1>2, <2>1, TakeDeleteWaiting DEF TakeDelete
<1>3. ASSUME NEW kind \in {"add", "update", "remove", "replace", "refresh"},
             Take(kind), queue' = Tail(queue)
      PROVE  Waiting(queue) \subseteq {Head(queue)} \union Waiting(queue')
  BY <1>3, TakeWaiting
<1>4. CASE Tasks /\ ~TakeDelete /\ ~CreateAgain /\ ~DeleteDataSource /\ ~UNCHANGED queue
  <2>1. \E kind \in {"add", "update", "remove", "replace", "refresh"} :
            Take(kind) /\ queue' = Tail(queue)
    BY <1>4 DEF Tasks, TakeAdd, TakeUpdate, TakeRemove, TakeReplace, Snapshot
  <2> QED BY <1>3, <2>1
<1> QED BY <1>1, <1>2, <1>4

\* A task leaves the queue when it is taken, or with the server.
LEMMA WaitingStays ==
  ASSUME TypeInv, [Next]_vars, NEW m \in Waiting(queue)
  PROVE  m \in Waiting(queue') \/ Restart \/ (Tasks /\ m = Head(queue) /\ Take(m.kind))
<1>1. CASE UNCHANGED queue
  BY <1>1
<1>2. CASE Tasks
  BY <1>2, TasksKeepWaiting DEF Take
<1>3. ASSUME NEW c \in Conn,
             ChangeSource(c) \/ Connect(c) \/ Update(c) \/ Disconnect(c) \/ Synchronize(c)
      PROVE  m \in Waiting(queue')
  BY <1>3, EnqueueKeeps DEF ChangeSource, Connect, Update, Disconnect, Synchronize
<1> QED BY <1>1, <1>2, <1>3, DeployingKeepsWaiting, LoadingKeepsWaiting
        DEF Next, vars, World, Requests, Refresh

LEMMA TakenRefresh ==
  ASSUME Tasks, Take("refresh") \/ Take("remove")
  PROVE  Snapshot \/ TakeRemove
BY DEF Tasks, Take, At, TakeAdd, TakeUpdate, CreateAgain, TakeDelete, DeleteDataSource,
       TakeReplace

-----------------------------------------------------------------------------
(* While refreshPreviewVdb runs, what it found active stays active.        *)

LEMMA TasksBecome ==
  ASSUME TypeInv, Tasks
  PROVE  /\ Snapshot => call'[Executor].pc = "previews"
         /\ TakeRemove => call'[Executor].pc = "snapshot"
         /\ Snapshot \/ (call'[Executor].pc # "previews" /\ UNCHANGED refreshVars)
<1>1. CASE TakeAdd
  <2>1. Head(queue).conn \in Conn
    BY <1>1, TakeTypes DEF TakeAdd
  <2> QED BY <1>1, <2>1, CreateFacts DEF TakeAdd, Mode, Take, At, Snapshot, TakeRemove
<1>2. CASE CreateAgain
  <2>1. call[Executor].conn \in Conn
    BY <1>2, CallHasConn DEF CreateAgain, Actor
  <2> QED BY <1>2, <2>1, CreateFacts DEF CreateAgain, Mode, Take, At, Snapshot, TakeRemove
<1>3. CASE TakeUpdate \/ TakeDelete \/ TakeReplace
  BY <1>3 DEF TakeUpdate, TakeDelete, TakeReplace, Become, Deploy, Idle, TypeInv, Actor,
              Take, At, Snapshot, TakeRemove
<1>4. CASE DeleteDataSource
  BY <1>4 DEF DeleteDataSource, Return, Idle, TypeInv, Actor, Take, At, Snapshot, TakeRemove
<1>5. CASE TakeRemove
  BY <1>5 DEF TakeRemove, Become, Refreshing, Idle, TypeInv, Actor, Take, At, Snapshot
<1>6. CASE Snapshot
  BY <1>6 DEF Snapshot, Become, Refreshing, Idle, TypeInv, Actor, Take, At, TakeRemove
<1> QED BY <1>1, <1>2, <1>3, <1>4, <1>5, <1>6 DEF Tasks

\* Where the executor is after a step of a deployment.
LEMMA DeployingPc ==
  ASSUME TypeInv, NEW a \in Actor, Deploying(a)
  PROVE  \/ call'[Executor] = call[Executor] /\ a # Executor
         \/ /\ a = Executor
            /\ call[Executor].pc \in {"row", "check", "deploy"}
            /\ call'[Executor].pc \in {"idle", "check", "deploy"}
<1>1. /\ \A b \in Actor \ {a} : call'[b] = call[b]
      /\ At(a, "row") \/ At(a, "check") \/ At(a, "deploy")
      /\ \/ call'[a] = Idle \/ call'[a].pc = "check"
         \/ At(a, "check") /\ call'[a] = [call[a] EXCEPT !.pc = "deploy"]
  BY DeployingFacts
<1>2. At(a, "check") => call[a] \in Call
  BY CallHasConn
<1>3. call'[a].pc \in {"idle", "check", "deploy"}
  BY <1>1, <1>2 DEF Idle, Call
<1> QED BY <1>1, <1>3 DEF Actor, At

LEMMA PreviewsStep ==
  ASSUME TypeInv, [Next]_vars, At(Executor, "previews")'
  PROVE  \/ Tasks /\ Snapshot
         \/ /\ At(Executor, "previews") /\ ~Tasks /\ ~DeployMaster /\ ~Restart
            /\ UNCHANGED imports
            /\ UNCHANGED doomed \/ \E d \in Dv : UndeployPreview(d)
<1>1. CASE Tasks
  BY <1>1, TasksBecome DEF At
<1>2. ~Restart
  BY DEF Restart, At, Idle, Actor
<1>3. ~DeployMaster
  <2>1. DeployMaster => Return(Executor)
    BY DEF DeployMaster
  <2>2. ~Return(Executor)
    BY DEF Return, At, Idle, Actor, TypeInv
  <2> QED BY <2>1, <2>2
<1>4. ~Tasks => /\ UNCHANGED imports
                /\ UNCHANGED doomed \/ \E d \in Dv : UndeployPreview(d)
  BY <1>2, <1>3 DEF Next, vars, World, Synchronize, Requests, Refresh, UndeployPreview,
                    Deploying, Loading
<1>5. ~Tasks => At(Executor, "previews")
  <2>1. CASE UNCHANGED call
    BY <2>1 DEF At
  <2>2. CASE Requests
    <3>1. call'[Executor] = call[Executor]
      BY <2>2 DEF Requests, RefreshSchema, FindSchemaModel, UpdatePreviewVdb, TypeInv, Actor
    <3> QED BY <3>1 DEF At
  <2>3. ASSUME NEW a \in Actor, Deploying(a) PROVE At(Executor, "previews")
    BY <2>3, DeployingPc DEF At
  <2>4. CASE Refresh
    BY <1>3, <2>4 DEF Refresh, UndeployPreview
  <2> QED BY <1>2, <2>1, <2>2, <2>3, <2>4 DEF Next, vars, World, Synchronize, Loading
<1> QED BY <1>1, <1>2, <1>3, <1>4, <1>5

MasterInv ==
    masterUp /\ (At(Executor, "previews") => \A n \in imports : conn[n] # NoVdb)

LEMMA InitMaster == Init => MasterInv
BY DEF Init, MasterInv, At, Idle, Actor

LEMMA NextMaster == TypeInv /\ DeployInv /\ MasterInv /\ [Next]_vars => MasterInv'
<1> SUFFICES ASSUME TypeInv, DeployInv, MasterInv, [Next]_vars PROVE MasterInv'
  OBVIOUS
<1>1. masterUp'
  <2>1. CASE DeployMaster
    BY <2>1 DEF DeployMaster, MasterInv
  <2>2. CASE Restart
    BY <2>2 DEF Restart
  <2>3. CASE UNCHANGED masterUp
    BY <2>3 DEF MasterInv
  <2> QED BY <2>1, <2>2, <2>3 DEF Next, vars, World, Synchronize, Requests, Tasks, Refresh,
                                  UndeployPreview, Deploying, Loading
<1>2. ASSUME At(Executor, "previews")', NEW n \in imports'
      PROVE  conn'[n] # NoVdb
  <2>1. CASE Tasks /\ Snapshot
    BY <1>2, <2>1 DEF Snapshot
  <2>2. CASE /\ At(Executor, "previews") /\ ~Tasks /\ ~Restart
             /\ UNCHANGED imports
    <3>1. n \in Name /\ conn[n] # NoVdb
      BY <1>2, <2>2 DEF MasterInv, TypeInv
    <3>2. ~At(Executor, "check")
      BY <2>2 DEF At
    <3>3. ~TakeRemove
      BY <2>2 DEF TakeRemove, Take, At
    <3> QED BY <2>2, <3>1, <3>2, <3>3, ConnTaken
  <2> QED BY <1>2, <2>1, <2>2, PreviewsStep
<1> QED BY <1>1, <1>2 DEF MasterInv

\* Preview is never left undeployed: only the executor undeploys what is active,
\* and it does nothing else between finding the VDBs and importing them.
THEOREM MasterStaysDeployed == Spec => []MasterIsDeployed
<1>1. MasterInv => MasterIsDeployed
  BY DEF MasterInv, MasterIsDeployed
<1> QED BY <1>1, InitTypes, InitDeploy, InitMaster, NextTypes, NextDeploy, NextMaster, PTL
        DEF Spec

-----------------------------------------------------------------------------
(* Preview VDBs survive one refresh at most.                               *)

PreviewInv ==
    /\ PreviewsAtMostOneBehind
    /\ At(Executor, "previews") => \A d \in Dv : preview[d] = 1 => d \in doomed

LEMMA InitPreview == Init => PreviewInv
BY DEF Init, PreviewInv, PreviewsAtMostOneBehind, At, Idle, Actor

LEMMA NextPreview == TypeInv /\ PreviewInv /\ [Next]_vars => PreviewInv'
<1> SUFFICES ASSUME TypeInv, PreviewInv, [Next]_vars PROVE PreviewInv'
  OBVIOUS
<1>1. \A d \in Dv : preview[d] \in 0..2 \union {Null} /\ preview[d] # 2
  BY DEF TypeInv, PreviewInv, PreviewsAtMostOneBehind
<1>2. \/ UNCHANGED preview
      \/ preview' = [d \in Dv |-> Null]
      \/ DeployMaster
      \/ \E e \in Dv : preview' = [preview EXCEPT ![e] = 0]
      \/ \E e \in Dv : UndeployPreview(e)
  BY DEF Next, vars, World, Synchronize, Requests, RefreshSchema, FindSchemaModel,
         UpdatePreviewVdb, Tasks, Refresh, Restart, Deploying, Loading
<1>3. \A d \in Dv : preview'[d] # 2
  <2>1. CASE DeployMaster
    <3>1. \A d \in Dv : preview[d] # 1
      BY <2>1 DEF DeployMaster, PreviewInv
    <3>2. preview' = [d \in Dv |-> IF preview[d] \in 0..1 THEN preview[d] + 1 ELSE preview[d]]
      BY <2>1 DEF DeployMaster
    <3> QED BY <1>1, <3>1, <3>2
  <2>2. CASE \E e \in Dv : UndeployPreview(e)
    BY <1>1, <2>2 DEF UndeployPreview, TypeInv
  <2> QED BY <1>1, <1>2, <2>1, <2>2 DEF TypeInv
<1>4. ASSUME At(Executor, "previews")', NEW d \in Dv, preview'[d] = 1
      PROVE  d \in doomed'
  <2>1. CASE Tasks /\ Snapshot
    BY <1>4, <2>1 DEF Tasks, Snapshot
  <2>2. CASE At(Executor, "previews") /\ ~DeployMaster
    <3>1. preview[d] = 1 /\ \A e \in Dv : UndeployPreview(e) => e # d
      BY <1>2, <1>4, <2>2 DEF UndeployPreview, TypeInv
    <3>2. d \in doomed
      BY <2>2, <3>1 DEF PreviewInv
    <3>3. UNCHANGED doomed \/ \E e \in Dv : UndeployPreview(e)
      BY <1>4, <2>2, PreviewsStep DEF Tasks, Snapshot, Take, At
    <3> QED BY <3>1, <3>2, <3>3 DEF UndeployPreview
  <2> QED BY <1>4, <2>1, <2>2, PreviewsStep
<1> QED BY <1>3, <1>4 DEF PreviewInv, PreviewsAtMostOneBehind

\* A preview VDB that slips in while refreshPreviewVdb runs is gone after the
\* next refresh: none serves what Preview was two deployments ago.
THEOREM PreviewsFollow == Spec => []PreviewsAtMostOneBehind
<1>1. PreviewInv => PreviewsAtMostOneBehind
  BY DEF PreviewInv
<1> QED BY <1>1, InitTypes, InitPreview, NextTypes, NextPreview, PTL DEF Spec

-----------------------------------------------------------------------------
(* Every change of a VDB <name>conn is followed by a refresh of Preview.   *)

Announced == \E m \in Waiting(queue) : m.kind \in {"refresh", "remove"}
Complete  == \A n \in Name : conn[n] # NoVdb => n \in imports
Busy      == call[Executor].pc \in {"snapshot", "previews", "deploy"}

CatchInv ==
    /\ master = conn \/ Busy \/ Announced
    /\ At(Executor, "previews") => Complete \/ Announced

LEMMA InitCatch == Init => CatchInv
<1> SUFFICES ASSUME Init PROVE CatchInv
  OBVIOUS
<1>1. master = conn /\ call[Executor] = Idle
  BY DEF Init, Actor
<1> QED BY <1>1 DEF CatchInv, At, Idle

LEMMA AnnouncedStays ==
  ASSUME TypeInv, [Next]_vars, Announced
  PROVE  Announced' \/ Restart \/ (Tasks /\ (Snapshot \/ TakeRemove))
<1>1. PICK m \in Waiting(queue) : m.kind \in {"refresh", "remove"}
  BY DEF Announced
<1>2. m \in Waiting(queue') => Announced'
  BY <1>1 DEF Announced, Waiting
<1> QED BY <1>1, <1>2, WaitingStays, TakenRefresh

LEMMA EnqueueAnnounces ==
  ASSUME TypeInv, Enqueue("refresh", Null)
  PROVE  Announced'
<1> DEFINE m == [kind |-> "refresh", conn |-> Null]
<1>1. m \in Waiting(queue') /\ m.kind = "refresh"
  BY EnqueueKeeps
<1> QED BY <1>1 DEF Announced, Waiting

LEMMA ConnChanged ==
  ASSUME TypeInv, DeployInv, [Next]_vars, conn' # conn
  PROVE  \/ Announced' \/ Restart
         \/ Tasks /\ TakeRemove
         \/ ~At(Executor, "previews") /\ At(Executor, "deploy")'
<1>1. CASE Tasks
  BY <1>1, TasksFacts
<1>2. ASSUME NEW a \in Actor, Deploying(a)
      PROVE  \/ Announced'
             \/ ~At(Executor, "previews") /\ At(Executor, "deploy")'
  <2>1. CASE Enqueue("refresh", Null)
    BY <2>1, EnqueueAnnounces
  <2>2. CASE ~Enqueue("refresh", Null)
    <3>1. /\ At(a, "check") /\ ~ForLoad(a) /\ ~Deployed(a)
          /\ NameOf(a) \in Name
          /\ conn' = [conn EXCEPT ![NameOf(a)] = NoVdb]
          /\ \/ call'[a] = [call[a] EXCEPT !.pc = "deploy"]
             \/ call'[a] = Idle /\ ds[NameOf(a)] = Null
      BY <1>2, <2>2, DeployingFacts
    <3>2. conn[NameOf(a)] # NoVdb
      BY <3>1 DEF TypeInv
    <3>3. call[a].mode = "replace"
      BY <3>1, <3>2 DEF Deployed
    <3>4. a = Executor
      BY <3>3 DEF DeployInv, Actor
    <3>5. ds[NameOf(a)] # Null
      BY <3>3, <3>4 DEF DeployInv
    <3>6. call[a] \in Call
      BY <3>1, CallHasConn
    <3> QED BY <3>1, <3>4, <3>5, <3>6 DEF At, Call
  <2> QED BY <2>1, <2>2
<1> QED BY <1>1, <1>2 DEF Next, vars, World, Synchronize, Requests, Refresh, Loading

\* The executor leaves a method that has a refresh of Preview before it only by
\* that refresh, or by queueing one.
LEMMA BusyStays ==
  ASSUME TypeInv, [Next]_vars, Busy
  PROVE  Busy' \/ Announced' \/ Restart \/ (Refresh /\ DeployMaster)
<1>1. CASE Tasks
  BY <1>1, TasksFacts, TasksBecome DEF Busy, Tasks, TakeAdd, TakeUpdate, CreateAgain, TakeDelete,
        DeleteDataSource, TakeRemove, TakeReplace, Take, At
<1>2. CASE Requests
  BY <1>2 DEF Requests, RefreshSchema, FindSchemaModel, UpdatePreviewVdb, TypeInv, Actor, Busy
<1>3. ASSUME NEW a \in Actor, Deploying(a) PROVE Busy' \/ Announced'
  <2>1. CASE a = Executor /\ At(a, "deploy")
    <3>1. Enqueue("refresh", Null)
      BY <1>3, <2>1 DEF At, Deploying, DeployStep, ReadRow, CheckVdb, DeployLoadVdb,
                        UndeployFailed, UndeployConnVdb, DeployConnVdb
    <3> QED BY <3>1, EnqueueAnnounces
  <2>2. CASE ~(a = Executor /\ At(a, "deploy"))
    BY <1>3, <2>2, DeployingPc DEF Busy, At
  <2> QED BY <2>1, <2>2
<1>4. CASE UNCHANGED call
  BY <1>4 DEF Busy
<1> QED BY <1>1, <1>2, <1>3, <1>4 DEF Next, vars, World, Synchronize, Refresh, UndeployPreview,
                                      Loading

LEMMA NextCatch == TypeInv /\ DeployInv /\ MasterInv /\ CatchInv /\ [Next]_vars => CatchInv'
<1> SUFFICES ASSUME TypeInv, DeployInv, MasterInv, CatchInv, [Next]_vars PROVE CatchInv'
  OBVIOUS
<1>1. CASE Restart
  BY <1>1 DEF Restart, CatchInv, At, Idle, Actor
<1>2. CASE Refresh /\ DeployMaster
  <2>1. At(Executor, "previews") /\ UNCHANGED <<conn, queue>>
    BY <1>2 DEF DeployMaster, Refresh
  <2>2. ~At(Executor, "previews")'
    <3>1. Return(Executor)
      BY <1>2 DEF DeployMaster
    <3> QED BY <3>1 DEF Return, At, Idle, Actor, TypeInv
  <2>3. Announced => Announced'
    BY <2>1 DEF Announced
  <2>4. CASE Complete
    <3>1. \A n \in Name : n \in imports <=> conn[n] # NoVdb
      BY <2>1, <2>4 DEF Complete, MasterInv, TypeInv
    <3>2. masterUp'
      BY <1>2, <2>1 DEF DeployMaster, MasterInv
    <3>3. master' = [n \in Name |-> IF masterUp' /\ n \in imports THEN conn[n] ELSE NoVdb]
      BY <1>2 DEF DeployMaster
    <3>4. master' = [n \in Name |-> conn[n]]
      BY <3>1, <3>2, <3>3
    <3>5. master' = conn'
      BY <2>1, <3>4 DEF TypeInv
    <3> QED BY <2>2, <3>5 DEF CatchInv
  <2> QED BY <2>1, <2>2, <2>3, <2>4 DEF CatchInv
<1>3. CASE ~(Refresh /\ DeployMaster) /\ ~Restart
  <2>1. UNCHANGED master
    BY <1>3 DEF Next, vars, World, Synchronize, Requests, Tasks, Refresh, UndeployPreview,
                Deploying, Loading
  <2>2. Tasks /\ (Snapshot \/ TakeRemove) => Busy'
    BY TasksBecome DEF Busy
  <2>3. At(Executor, "deploy")' => Busy'
    BY DEF At, Busy
  <2>4. master' = conn' \/ Busy' \/ Announced'
    BY <1>3, <2>1, <2>2, <2>3, AnnouncedStays, BusyStays, ConnChanged DEF CatchInv
  <2>5. ASSUME At(Executor, "previews")' PROVE Complete' \/ Announced'
    <3>1. CASE Tasks /\ Snapshot
      BY <3>1 DEF Snapshot, Complete
    <3>2. CASE At(Executor, "previews") /\ ~Tasks /\ UNCHANGED imports
      <4>1. Complete \/ Announced
        BY <3>2 DEF CatchInv
      <4>2. conn' = conn \/ Announced'
        BY <1>3, <3>2, ConnChanged
      <4>3. Complete /\ conn' = conn => Complete'
        BY <3>2 DEF Complete
      <4> QED BY <1>3, <3>2, <4>1, <4>2, <4>3, AnnouncedStays
    <3> QED BY <2>5, <3>1, <3>2, PreviewsStep
  <2> QED BY <2>4, <2>5 DEF CatchInv
<1> QED BY <1>1, <1>2, <1>3

\* However deployments and refreshes of Preview overlap, one that imports what
\* is there now is running or queued whenever Preview does not.
THEOREM MasterFollows == Spec => []MasterCatchesUp
<1>1. CatchInv => MasterCatchesUp
  BY DEF CatchInv, MasterCatchesUp, Announced, Busy, Waiting
<1> QED BY <1>1, InitTypes, InitDeploy, InitMaster, InitCatch,
           NextTypes, NextDeploy, NextMaster, NextCatch, PTL DEF Spec

-----------------------------------------------------------------------------
(* Metadata that is loaded and not yet stored.                             *)

Keeps ==
    \A n \in Name : load[n] # Null /\ load'[n] # load[n] =>
        call' = call \/ ~Active(load[n]) \/ restarts' # restarts

LEMMA LoadChanged ==
  ASSUME TypeInv, NEW a \in Actor, Deploying(a), NEW n \in Name, load'[n] # load[n]
  PROVE  ForLoad(a) /\ ~Deployed(a) /\ NameOf(a) = n
<1>1. DeployLoadVdb(a)
  BY DEF Deploying, DeployStep, ReadRow, CheckVdb, UndeployFailed, UndeployConnVdb, DeployConnVdb
<1>2. \E x : load' = [load EXCEPT ![NameOf(a)] = x]
  BY <1>1 DEF DeployLoadVdb
<1> QED BY <1>1, <1>2 DEF DeployLoadVdb, TypeInv

LEMMA NextKeeps == TypeInv /\ [Next]_vars => Keeps
<1> SUFFICES ASSUME TypeInv, [Next]_vars, NEW n \in Name,
                    load[n] # Null, load'[n] # load[n], call' # call
             PROVE  ~Active(load[n]) \/ restarts' # restarts
  BY DEF Keeps
<1>1. Restart \/ \E a \in Actor : Deploying(a)
  BY DEF Next, vars, World, Synchronize, Requests, Tasks, Refresh, Loading
<1>2. Restart => restarts' # restarts
  BY DEF Restart, TypeInv
<1>3. ASSUME NEW a \in Actor, Deploying(a)
      PROVE  ~Active(load[n])
  BY <1>3, LoadChanged DEF Deployed
<1> QED BY <1>1, <1>2, <1>3

\* No deployment, of a request or of the executor, throws metadata away that is
\* loaded and waits to be stored.
THEOREM LoadedStays == Spec => LoadedIsKept
<1>1. TypeInv /\ [Next]_vars => [Keeps]_vars
  BY NextKeeps
<1> QED BY <1>1, InitTypes, NextTypes, PTL DEF Spec, LoadedIsKept, Keeps

-----------------------------------------------------------------------------
(* The VDB of a source that is deleted.                                    *)

Removal(n) == \E m \in Waiting(queue) : m.kind = "remove" /\ TeiidName[m.conn] = n

DropInv ==
    \A n \in Name : conn[n] # NoVdb =>
        /\ conn[n] \in Vdb /\ TeiidName[conn[n].of] = n
        /\ conn[n].version > 0 /\ ddl[conn[n].of] = NoRow => Removal(n)

LEMMA InitDrop == Init => DropInv
BY DEF Init, DropInv

LEMMA RemovalStays ==
  ASSUME TypeInv, [Next]_vars, NEW n \in Name, Removal(n)
  PROVE  Removal(n)' \/ Restart \/ (Tasks /\ TakeRemove /\ ThisName = n)
<1>1. PICK m \in Waiting(queue) : m.kind = "remove" /\ TeiidName[m.conn] = n
  BY DEF Removal
<1>2. m \in Waiting(queue') => Removal(n)'
  BY <1>1 DEF Removal, Waiting
<1>3. Tasks /\ Take("remove") => TakeRemove
  BY DEF Tasks, Take, At, TakeAdd, TakeUpdate, CreateAgain, TakeDelete, DeleteDataSource,
         TakeReplace, Snapshot
<1> QED BY <1>1, <1>2, <1>3, WaitingStays DEF ThisName

\* Only deleteSchema takes a row away, and it queues the removal of the VDB.
LEMMA RowGone ==
  ASSUME TypeInv, [Next]_vars, NEW c \in Conn, ddl'[c] = NoRow, ddl[c] # NoRow
  PROVE  Removal(TeiidName[c])' /\ conn' = conn
<1>1. CASE Tasks /\ TakeDelete
  <2> DEFINE d    == Head(queue).conn
             task == [kind |-> "remove", conn |-> d]
  <2>1. d \in Conn
    BY <1>1, TakeTypes DEF TakeDelete
  <2>2. d = c
    BY <1>1, <2>1 DEF TakeDelete, TypeInv
  <2>3. task \in Waiting(queue')
    BY <1>1, <2>2, TakeDeleteWaiting
  <2>4. task.kind = "remove" /\ task.conn = c
    BY <2>2
  <2> HIDE DEF task
  <2>5. Removal(TeiidName[c])'
    BY <2>3, <2>4 DEF Removal, Waiting
  <2> QED BY <1>1, <2>5 DEF TakeDelete
<1>2. CASE Tasks /\ ~TakeDelete
  <2>1. ddl' = ddl \/ \E d : ddl' = CreateRow(d)
    BY <1>2 DEF Tasks, TakeAdd, TakeUpdate, CreateAgain, DeleteDataSource, TakeRemove,
                TakeReplace, Snapshot, Create
  <2> QED BY <2>1 DEF CreateRow, TypeInv, NoRow, Unloaded
<1>3. ASSUME NEW l \in Load, Loading(l) PROVE FALSE
  <2>1. CommitStore(l)
    BY <1>3 DEF Loading, LoadStep, FinishLoad, AbandonLoad, ExportSchema, FailToExport,
                ReadForStore, ConflictAtStore, FailAtStore
  <2>2. job[l].ddl \in RowTexts
    BY ExportedType
  <2>3. ddl'[c] = ddl[c] \/ ddl'[c] = job[l].ddl
    BY <2>1 DEF CommitStore, TypeInv
  <2> QED BY <2>2, <2>3, RowTextTypes
<1>4. CASE UNCHANGED ddl
  BY <1>4
<1> QED BY <1>1, <1>2, <1>3, <1>4 DEF Next, vars, World, Synchronize, Requests, Refresh,
                                      Restart, Deploying

\* What a step may leave in the place of a VDB <name>conn.
LEMMA ConnBecomes ==
  ASSUME TypeInv, [Next]_vars, NEW n \in Name, conn'[n] # conn[n]
  PROVE  \/ conn'[n] = NoVdb
         \/ \E c \in Conn :
              TeiidName[c] = n /\ conn'[n] = Served(c) /\ UNCHANGED ddl
<1>1. CASE Tasks
  <2>1. conn' = [conn EXCEPT ![ThisName] = NoVdb]
    BY <1>1, TasksFacts DEF TakeRemove
  <2> QED BY <2>1 DEF TypeInv
<1>2. ASSUME NEW a \in Actor, Deploying(a)
      PROVE  \/ conn'[n] = NoVdb
             \/ \E c \in Conn : TeiidName[c] = n /\ conn'[n] = Served(c) /\ UNCHANGED ddl
  <2>1. NameOf(a) \in Name /\ UNCHANGED ddl
    BY <1>2, DeployingFacts DEF Deploying
  <2>2. \/ conn' = [conn EXCEPT ![NameOf(a)] = NoVdb]
        \/ /\ conn' = [conn EXCEPT ![NameOf(a)] = Served(call[a].conn)]
           /\ At(a, "deploy")
    BY <1>2, DeployingFacts
  <2>3. At(a, "deploy") => call[a].conn \in Conn
    BY CallHasConn
  <2> QED BY <2>1, <2>2, <2>3 DEF NameOf, TypeInv
<1>3. CASE Restart
  BY <1>3 DEF Restart
<1> QED BY <1>1, <1>2, <1>3 DEF Next, vars, World, Synchronize, Requests, Refresh, Loading

LEMMA NextDrop == TypeInv /\ DropInv /\ [Next]_vars => DropInv'
<1> SUFFICES ASSUME TypeInv, DropInv, [Next]_vars, NEW n \in Name, conn'[n] # NoVdb
             PROVE  /\ conn'[n] \in Vdb /\ TeiidName[conn'[n].of] = n
                    /\ conn'[n].version > 0 /\ ddl'[conn'[n].of] = NoRow => Removal(n)'
  BY DEF DropInv
<1>1. CASE conn'[n] # conn[n]
  <2>1. PICK c \in Conn : TeiidName[c] = n /\ conn'[n] = Served(c) /\ UNCHANGED ddl
    BY <1>1, ConnBecomes
  <2>2. Served(c) \in Vdb /\ Served(c).of = c
    BY ServedType
  <2>3. ddl[c] = NoRow => Served(c).version = 0
    BY DEF Served
  <2> QED BY <2>1, <2>2, <2>3
<1>2. CASE conn'[n] = conn[n]
  <2> DEFINE c == conn[n].of
  <2>1. conn[n] \in Vdb /\ c \in Conn /\ TeiidName[c] = n
    BY <1>2 DEF DropInv, Vdb
  <2>2. ASSUME conn[n].version > 0, ddl'[c] = NoRow
        PROVE  Removal(n)'
    <3>1. CASE ddl[c] # NoRow
      BY <2>1, <2>2, <3>1, RowGone
    <3>2. CASE ddl[c] = NoRow
      <4>1. Removal(n)
        BY <1>2, <2>2, <3>2 DEF DropInv
      <4>2. ~Restart
        BY <1>2 DEF Restart
      <4>3. TakeRemove => ThisName # n
        BY <1>2 DEF TakeRemove, TypeInv
      <4> QED BY <4>1, <4>2, <4>3, RemovalStays
    <3> QED BY <3>1, <3>2
  <2> QED BY <1>2, <2>1, <2>2
<1> QED BY <1>1, <1>2

\* A deleted source does not go on serving its tables: whoever deploys its VDB
\* late, or whenever the server restarts, its removal is still to come.
THEOREM DeletedIsRemoved == Spec => []DeletedSourceServesNothing
<1>1. TypeInv /\ DropInv => DeletedSourceServesNothing
  <2> SUFFICES ASSUME TypeInv, DropInv, NEW n \in Name,
                      conn[n] # NoVdb, conn[n].version > 0, ddl[conn[n].of] = NoRow
               PROVE  \E i \in 1..Len(queue) :
                          queue[i].kind = "remove" /\ TeiidName[queue[i].conn] = n
    BY DEF DeletedSourceServesNothing
  <2> QED BY DEF DropInv, Removal, Waiting
<1> QED BY <1>1, InitTypes, InitDrop, NextTypes, NextDrop, PTL DEF Spec

-----------------------------------------------------------------------------
(* Whose metadata a row holds, as long as no load fails.  All that the     *)
(* server works on are connections Syndesis has announced; so a load that  *)
(* is over has not failed, its load VDB stays, and what is exported is its *)
(* own.                                                                    *)

MadeInv ==
    /\ \A n \in Name : ds[n] # Null => ds[n] \in made
    /\ \A m \in Waiting(queue) : m.kind # "refresh" => m.conn \in made
    /\ \A a \in Actor : call[a].conn \in made \union {Null}
    /\ \A l \in Load : job[l].conn \in made \union {Null}

AllReport == \A c \in made : reports[c] > 0
Own       == \A c \in Conn : ddl[c] \in Ddl => ddl[c].of = c

OwnInv ==
    /\ Own
    /\ \A l \in Load : job[l].pc \in {"finished", "read", "commit", "stuck"} =>
           job[l].ddl \in Ddl /\ job[l].ddl.of = job[l].conn /\ job[l].ddl.version > 0
    /\ \A l \in Load : JobAt(l, "finished") => load[JobName(l)] = l

LEMMA InitMade == Init => MadeInv
<1> SUFFICES ASSUME Init PROVE MadeInv
  OBVIOUS
<1>1. Waiting(queue) = {}
  BY DEF Init, Waiting
<1> QED BY <1>1 DEF Init, MadeInv, Idle, NoJob

LEMMA InitOwn == Init => OwnInv
BY DEF Init, OwnInv, Own, NoJob, JobAt, Ddl, NoRow

LEMMA MadeGrows == [Next]_vars => made \subseteq made'
BY DEF Next, vars, World, ChangeSource, Connect, Update, Disconnect, Synchronize, Requests,
       Tasks, Refresh, Restart, Deploying, Loading

LEMMA QueueMade ==
  ASSUME TypeInv, MadeInv, [Next]_vars, NEW m \in Waiting(queue'), m.kind # "refresh"
  PROVE  m.conn \in made'
<1>1. made \subseteq made'
  BY MadeGrows
<1>2. m \in Waiting(queue) => m.conn \in made'
  BY <1>1 DEF MadeInv
<1>3. CASE World \/ \E c \in Conn : Synchronize(c)
  <2>1. PICK kind \in {"add", "update", "delete"}, c \in Conn :
            (queue' = queue \/ Enqueue(kind, c)) /\ c \in made'
    <3>1. ASSUME NEW c \in Conn, ChangeSource(c) \/ Connect(c) \/ Update(c) \/ Disconnect(c)
                                 \/ Synchronize(c)
          PROVE  \E kind \in {"add", "update", "delete"} :
                    (queue' = queue \/ Enqueue(kind, c)) /\ c \in made'
      BY <3>1, <1>1 DEF ChangeSource, Connect, Update, Disconnect, Synchronize
    <3> QED BY <1>3, <3>1 DEF World
  <2>2. CASE Enqueue(kind, c)
    <3>1. Waiting(queue') = Waiting(queue) \union {[kind |-> kind, conn |-> c]}
      BY <2>2, EnqueueWaiting
    <3> QED BY <1>2, <2>1, <3>1
  <2> QED BY <1>2, <2>1, <2>2
<1>4. CASE Tasks
  <2>1. CASE TakeDelete
    <3>1. \/ m \in Waiting(Tail(queue))
          \/ m = [kind |-> "remove", conn |-> Head(queue).conn]
      BY <2>1, TakeDeleteWaiting
    <3>2. Waiting(queue) = {Head(queue)} \union Waiting(Tail(queue)) /\ Head(queue).kind = "delete"
      BY <2>1, TakeWaiting DEF TakeDelete
    <3>3. Head(queue).conn \in made
      BY <3>2 DEF MadeInv
    <3> QED BY <1>1, <1>2, <3>1, <3>2, <3>3
  <2>2. CASE ~TakeDelete
    <3>1. \/ queue' = queue
          \/ queue' = Tail(queue) /\ \E kind : Take(kind)
      BY <1>4, <2>2 DEF Tasks, TakeAdd, TakeUpdate, CreateAgain, DeleteDataSource, TakeRemove,
                        TakeReplace, Snapshot
    <3>2. m \in Waiting(queue)
      BY <3>1, TakeWaiting
    <3> QED BY <1>2, <3>2
  <2> QED BY <2>1, <2>2
<1>5. ASSUME NEW a \in Actor, Deploying(a) PROVE m.conn \in made'
  <2>1. queue' = queue \/ Enqueue("refresh", Null)
    BY <1>5 DEF Deploying, DeployStep, ReadRow, CheckVdb, DeployLoadVdb, UndeployFailed,
                UndeployConnVdb, DeployConnVdb
  <2> QED BY <1>2, <2>1, EnqueueWaiting
<1>6. ASSUME NEW l \in Load, Loading(l) PROVE m.conn \in made'
  <2>1. queue' = queue \/ (JobAt(l, "commit") /\ Enqueue("replace", job[l].conn))
    BY <1>6 DEF Loading, LoadStep, FinishLoad, AbandonLoad, ExportSchema, FailToExport,
           ReadForStore, CommitStore, ConflictAtStore, FailAtStore, RowOf
  <2>2. JobAt(l, "commit") => job[l].conn \in Conn /\ job[l].conn \in made
    BY JobHasConn DEF MadeInv
  <2> QED BY <1>1, <1>2, <2>1, <2>2, EnqueueWaiting
<1>7. CASE Restart
  <2>1. PICK q \in Orders(made \ gone) :
           queue' = [i \in DOMAIN q |-> [kind |-> "add", conn |-> q[i]]]
    BY <1>7 DEF Restart
  <2>2. q \in [1..Cardinality(made \ gone) -> made \ gone]
    BY DEF Orders
  <2>3. PICK i \in 1..Len(queue') : m = queue'[i]
    BY DEF Waiting
  <2>4. i \in DOMAIN q
    <3>1. queue' \in Seq(Task)
      BY NextTypes DEF TypeInv
    <3>2. DOMAIN queue' = 1..Len(queue')
      BY <3>1
    <3> QED BY <2>1, <2>3, <3>2
  <2> QED BY <1>1, <2>1, <2>2, <2>3, <2>4
<1>8. CASE UNCHANGED queue
  BY <1>2, <1>8
<1> QED BY <1>3, <1>4, <1>5, <1>6, <1>7, <1>8 DEF Next, vars, Requests, Refresh

LEMMA DsMade ==
  ASSUME TypeInv, MadeInv, [Next]_vars, NEW n \in Name, ds'[n] # Null
  PROVE  ds'[n] \in made
<1>1. ds'[n] = ds[n] => ds'[n] \in made
  BY DEF MadeInv
<1>2. CASE Tasks
  <2>1. ASSUME NEW c \in Conn, c \in made, NEW mode, Create(c, mode)
        PROVE  ds'[n] \in made
    BY <1>1, <2>1 DEF Create, TypeInv
  <2>2. CASE TakeAdd
    <3>1. Head(queue).conn \in Conn /\ Head(queue) \in Waiting(queue) /\ Head(queue).kind = "add"
      BY <2>2, TakeTypes, TakeWaiting DEF TakeAdd
    <3> QED BY <2>1, <2>2, <3>1 DEF TakeAdd, MadeInv
  <2>3. CASE CreateAgain
    <3>1. call[Executor].conn \in Conn /\ call[Executor].conn \in made
      BY <2>3, CallHasConn DEF CreateAgain, MadeInv, Actor
    <3> QED BY <2>1, <2>3, <3>1 DEF CreateAgain
  <2>4. CASE TakeUpdate \/ DeleteDataSource
    BY <1>1, <2>4 DEF TakeUpdate, DeleteDataSource, TypeInv
  <2> QED BY <1>1, <1>2, <2>2, <2>3, <2>4 DEF Tasks, TakeDelete, TakeRemove, TakeReplace, Snapshot
<1>3. CASE Restart
  BY <1>3 DEF Restart
<1>4. CASE UNCHANGED ds
  BY <1>1, <1>4
<1> QED BY <1>2, <1>3, <1>4 DEF Next, vars, World, Synchronize, Requests, Refresh, Deploying,
                                Loading

LEMMA CallBecomes ==
  ASSUME TypeInv, NEW b \in Actor, NEW k, call' = [call EXCEPT ![b] = k], NEW a \in Actor
  PROVE  call'[a] = call[a] \/ call'[a] = k
BY DEF TypeInv

LEMMA CallMade ==
  ASSUME TypeInv, MadeInv, [Next]_vars, NEW a \in Actor
  PROVE  call'[a].conn \in made \union {Null}
<1>1. call'[a].conn = call[a].conn => call'[a].conn \in made \union {Null}
  BY DEF MadeInv
<1>2. CASE Requests
  <2>1. ASSUME NEW b \in Rest, NEW n \in Name, RefreshSchema(b, n) \/ FindSchemaModel(b, n)
        PROVE  call'[a].conn \in made \union {Null}
    <3>1. PICK mode : call' = [call EXCEPT ![b] = Deploy(ds[n], mode)] /\ ds[n] # Null
      BY <2>1 DEF RefreshSchema, FindSchemaModel
    <3>2. call'[a] = call[a] \/ call'[a] = Deploy(ds[n], mode)
      BY <3>1, CallBecomes DEF Actor
    <3>3. Deploy(ds[n], mode).conn = ds[n]
      BY DEF Deploy
    <3> QED BY <1>1, <3>1, <3>2, <3>3 DEF MadeInv
  <2> QED BY <1>1, <1>2, <2>1 DEF Requests, UpdatePreviewVdb
<1>3. CASE Tasks
  <2>1. ASSUME NEW c \in Conn, NEW mode, Create(c, mode)
        PROVE  call'[a].conn \in made \union {Null}
    <3>1. CASE Return(Executor)
      BY <1>1, <3>1 DEF Return, Idle, TypeInv
    <3>2. CASE /\ ds' = [ds EXCEPT ![TeiidName[c]] = IF @ = Null THEN c ELSE @]
               /\ Become(Deploy(ds'[TeiidName[c]], mode))
      <4>1. ds'[TeiidName[c]] \in made
        BY <3>2, DsMade DEF TypeInv
      <4> QED BY <1>1, <3>2, <4>1 DEF Become, Deploy, TypeInv
    <3> QED BY <2>1, <3>1, <3>2 DEF Create
  <2>2. CASE TakeAdd
    BY <2>1, <2>2, TakeTypes DEF TakeAdd
  <2>3. CASE CreateAgain
    BY <2>1, <2>3, CallHasConn DEF CreateAgain, Actor
  <2>4. CASE TakeUpdate \/ TakeDelete
    <3>1. Head(queue) \in Waiting(queue) /\ Head(queue).kind \in {"update", "delete"}
      BY <2>4, TakeWaiting DEF TakeUpdate, TakeDelete
    <3>2. Head(queue).conn \in made
      BY <3>1 DEF MadeInv
    <3>3. PICK pc, mode :
             Become([Deploy(Head(queue).conn, mode) EXCEPT !.pc = pc])
      BY <2>4 DEF TakeUpdate, TakeDelete
    <3>4. [Deploy(Head(queue).conn, mode) EXCEPT !.pc = pc].conn = Head(queue).conn
      BY DEF Deploy
    <3> QED BY <1>1, <3>2, <3>3, <3>4, CallBecomes DEF Become, Actor
  <2>5. CASE DeleteDataSource \/ TakeRemove \/ Snapshot
    <3>1. PICK k \in {Idle, Refreshing("snapshot"), Refreshing("previews")} : Become(k)
      BY <2>5 DEF DeleteDataSource, TakeRemove, Snapshot, Return, Become
    <3>2. k.conn = Null
      BY DEF Refreshing, Idle
    <3> QED BY <1>1, <3>1, <3>2, CallBecomes DEF Become, Actor
  <2>6. CASE TakeReplace
    <3>1. ThisName \in Name
      BY <2>6, TakeTypes DEF TakeReplace
    <3> QED BY <1>1, <2>6, <3>1 DEF TakeReplace, Become, Deploy, Idle, MadeInv, TypeInv
  <2> QED BY <1>3, <2>2, <2>3, <2>4, <2>5, <2>6 DEF Tasks
<1>4. ASSUME NEW b \in Actor, Deploying(b)
      PROVE  call'[a].conn \in made \union {Null}
  <2>1. a # b => call'[a] = call[a]
    BY <1>4, DeployingFacts
  <2>2. \/ call'[b] = Idle \/ call'[b].conn = call[b].conn
        \/ At(b, "check") /\ call'[b] = [call[b] EXCEPT !.pc = "deploy"]
    BY <1>4, DeployingFacts
  <2>3. At(b, "check") => call[b] \in Call
    BY CallHasConn
  <2>4. call'[b] = Idle \/ call'[b].conn = call[b].conn
    BY <2>2, <2>3 DEF Call
  <2> QED BY <1>1, <2>1, <2>4 DEF Idle
<1>5. CASE Refresh \/ Restart
  <2>1. UNCHANGED call \/ call'[a] = call[a] \/ call'[a] = Idle
    BY <1>5, CallBecomes DEF Refresh, DeployMaster, UndeployPreview, Restart, Return, Actor
  <2> QED BY <1>1, <2>1 DEF Idle
<1>6. CASE UNCHANGED call
  BY <1>1, <1>6
<1> QED BY <1>2, <1>3, <1>4, <1>5, <1>6 DEF Next, vars, World, Synchronize, Loading

\* What a thread of a load VDB may do to a job.
LEMMA LoadingFacts ==
  ASSUME TypeInv, NEW l \in Load, Loading(l)
  PROVE  /\ \A k \in Load \ {l} : job'[k] = job[k]
         /\ \/ job'[l] = NoJob
            \/ /\ job'[l].conn = job[l].conn
               /\ JobAt(l, "finished") \/ JobAt(l, "read") \/ FinishLoad(l)
               /\ job'[l].pc = "finished" => FinishLoad(l)
               /\ job'[l].pc \in {"finished", "read", "commit", "stuck"}
               /\ job'[l].ddl = job[l].ddl \/ FinishLoad(l) \/ ExportSchema(l)
<1>1. CASE AbandonLoad(l) \/ CommitStore(l) \/ ConflictAtStore(l) \/ FailAtStore(l)
  BY <1>1 DEF AbandonLoad, CommitStore, ConflictAtStore, FailAtStore, JobEnds, TypeInv
<1>2. CASE FinishLoad(l)
  <2>1. job[l] \in Job
    BY <1>2, JobHasConn DEF FinishLoad
  <2> QED BY <1>2, <2>1 DEF FinishLoad, TypeInv, Job
<1>3. CASE ExportSchema(l)
  <2>1. job[l] \in Job
    BY <1>3, JobHasConn DEF ExportSchema
  <2>2. \/ job' = [job EXCEPT ![l].pc = "read"]
        \/ \E t : job' = [job EXCEPT ![l].pc = "read", ![l].ddl = t]
    BY <1>3 DEF ExportSchema, JobGoes
  <2> QED BY <1>3, <2>1, <2>2 DEF ExportSchema, TypeInv, Job
<1>4. CASE FailToExport(l)
  <2>1. job[l] \in Job
    BY <1>4, JobHasConn DEF FailToExport
  <2> QED BY <1>4, <2>1 DEF FailToExport, JobGoes, JobEnds, TypeInv, Job
<1>5. CASE ReadForStore(l)
  <2>1. job[l] \in Job
    BY <1>5, JobHasConn DEF ReadForStore
  <2> QED BY <1>5, <2>1 DEF ReadForStore, JobGoes, JobEnds, TypeInv, Job
<1> QED BY <1>1, <1>2, <1>3, <1>4, <1>5 DEF Loading, LoadStep

\* What a deployment may do to a job.
LEMMA DeployingJobs ==
  ASSUME TypeInv, NEW a \in Actor, Deploying(a), NEW l \in Load, job'[l] # job[l]
  PROVE  job'[l].pc = "loading" /\ job'[l].conn = call[a].conn
<1>1. DeployLoadVdb(a)
  BY DEF Deploying, DeployStep, ReadRow, CheckVdb, UndeployFailed, UndeployConnVdb, DeployConnVdb
<1>2. \E k \in Load : job' = [job EXCEPT ![k] = [NoJob EXCEPT !.pc = "loading",
                                                               !.conn = call[a].conn]]
  <2>1. CASE \E k \in Load : job[k] = NoJob
    BY <1>1, <2>1 DEF DeployLoadVdb
  <2> QED BY <1>1, <2>1 DEF DeployLoadVdb
<1> QED BY <1>2 DEF TypeInv, NoJob

LEMMA JobMade ==
  ASSUME TypeInv, MadeInv, [Next]_vars, NEW l \in Load
  PROVE  job'[l].conn \in made \union {Null}
<1>1. CASE job'[l] = job[l] \/ job'[l] = NoJob
  BY <1>1 DEF MadeInv, NoJob
<1>2. ASSUME NEW k \in Load, Loading(k)
      PROVE  job'[l].conn \in made \union {Null}
  BY <1>1, <1>2, LoadingFacts DEF MadeInv
<1>3. ASSUME NEW a \in Actor, Deploying(a)
      PROVE  job'[l].conn \in made \union {Null}
  BY <1>1, <1>3, DeployingJobs DEF MadeInv
<1>4. CASE Restart
  BY <1>1, <1>4 DEF Restart
<1>5. CASE UNCHANGED job
  BY <1>1, <1>5
<1> QED BY <1>2, <1>3, <1>4, <1>5 DEF Next, vars, World, Synchronize, Requests, Tasks, Refresh

LEMMA NextMade == TypeInv /\ MadeInv /\ [Next]_vars => MadeInv'
<1> SUFFICES ASSUME TypeInv, MadeInv, [Next]_vars PROVE MadeInv'
  OBVIOUS
<1>1. made \subseteq made'
  BY MadeGrows
<1>2. \A m \in Waiting(queue') : m.kind # "refresh" => m.conn \in made'
  BY QueueMade
<1> QED BY <1>1, <1>2, DsMade, CallMade, JobMade DEF MadeInv, Waiting

\* A load that is over has not failed, so its load VDB is active.
LEMMA Loaded ==
  ASSUME TypeInv, OwnInv, NEW l \in Load, JobAt(l, "finished")
  PROVE  /\ job[l] \in Job /\ JobName(l) \in Name /\ load[JobName(l)] = l
         /\ job[l].ddl \in Ddl /\ ~Failed(job[l].ddl) /\ Active(l)
<1>1. job[l] \in Job /\ JobName(l) \in Name
  BY JobHasConn
<1>2. load[JobName(l)] = l /\ job[l].ddl \in Ddl /\ job[l].ddl.version > 0
  BY DEF OwnInv, JobAt
<1> QED BY <1>1, <1>2 DEF Failed, Active, JobAt, Ddl

LEMMA RowOwn ==
  ASSUME TypeInv, OwnInv, [Next]_vars, NEW c \in Conn, ddl'[c] \in Ddl
  PROVE  ddl'[c].of = c
<1>1. ddl'[c] = ddl[c] => ddl'[c].of = c
  BY DEF OwnInv, Own
<1>2. CASE Tasks
  <2>1. \/ ddl' = ddl
        \/ \E d : ddl' = CreateRow(d) \/ ddl' = [ddl EXCEPT ![d] = NoRow]
    BY <1>2 DEF Tasks, TakeAdd, TakeUpdate, CreateAgain, TakeDelete, DeleteDataSource, TakeRemove,
                TakeReplace, Snapshot, Create
  <2>2. ddl'[c] \in {ddl[c], NoRow, Unloaded}
    BY <2>1 DEF CreateRow, TypeInv
  <2>3. NoRow \notin Ddl /\ Unloaded \notin Ddl
    BY DEF NoRow, Unloaded, Ddl
  <2> QED BY <1>1, <2>2, <2>3
<1>3. ASSUME NEW l \in Load, Loading(l)
      PROVE  ddl'[c].of = c
  <2>1. ddl' = ddl \/ CommitStore(l)
    BY <1>3 DEF Loading, LoadStep, FinishLoad, AbandonLoad, ExportSchema, FailToExport,
                ReadForStore, ConflictAtStore, FailAtStore
  <2>2. CASE CommitStore(l)
    <3>1. job[l].ddl.of = job[l].conn
      BY <2>2 DEF CommitStore, JobAt, OwnInv
    <3>2. ddl' = [ddl EXCEPT ![job[l].conn] = job[l].ddl]
      BY <2>2 DEF CommitStore, RowOf
    <3> QED BY <1>1, <3>1, <3>2 DEF TypeInv
  <2> QED BY <1>1, <2>1, <2>2
<1>4. CASE UNCHANGED ddl
  BY <1>1, <1>4
<1> QED BY <1>2, <1>3, <1>4 DEF Next, vars, World, Synchronize, Requests, Refresh, Restart,
                                Deploying

Stored(l) ==
    job[l].pc \in {"finished", "read", "commit", "stuck"} =>
        job[l].ddl \in Ddl /\ job[l].ddl.of = job[l].conn /\ job[l].ddl.version > 0

LEMMA JobOwn ==
  ASSUME TypeInv, MadeInv, OwnInv, AllReport, [Next]_vars, NEW l \in Load
  PROVE  Stored(l)'
<1>0. Stored(l)
  BY DEF OwnInv, Stored
<1>1. CASE job'[l] = job[l]
  BY <1>0, <1>1 DEF Stored
<1>2. CASE job'[l].pc \in {"none", "loading"}
  BY <1>2 DEF Stored
<1>3. CASE FinishLoad(l)
  <2> DEFINE text == [of |-> job[l].conn, version |-> reports[job[l].conn]]
  <2>1. job[l] \in Job /\ job[l].conn \in Conn
    BY <1>3, JobHasConn DEF FinishLoad
  <2>2. job[l].conn \in made
    BY <2>1 DEF MadeInv
  <2>3. text \in Ddl /\ text.version > 0
    BY <2>1, <2>2 DEF AllReport, TypeInv, Ddl
  <2>4. job'[l].ddl = text /\ job'[l].conn = job[l].conn
    BY <1>3, <2>1 DEF FinishLoad, TypeInv, Job
  <2> QED BY <2>3, <2>4 DEF Stored
<1>4. CASE ExportSchema(l)
  <2>1. /\ job[l] \in Job /\ load[JobName(l)] = l
        /\ ~Failed(job[l].ddl)
    BY <1>4, Loaded DEF ExportSchema
  <2>2. job' = [job EXCEPT ![l].pc = "read", ![l].ddl = job[l].ddl]
    BY <1>4, <2>1 DEF ExportSchema
  <2>3. job'[l].ddl = job[l].ddl /\ job'[l].conn = job[l].conn
    BY <2>1, <2>2 DEF TypeInv, Job
  <2>4. JobAt(l, "finished")
    BY <1>4 DEF ExportSchema
  <2> QED BY <1>0, <2>3, <2>4 DEF Stored, JobAt
<1>5. ASSUME NEW k \in Load, Loading(k)
      PROVE  Stored(l)'
  <2>1. CASE k # l
    BY <1>1, <1>5, <2>1, LoadingFacts
  <2>2. CASE k = l
    BY <1>0, <1>2, <1>3, <1>4, <1>5, <2>2, LoadingFacts DEF Stored, JobAt, NoJob
  <2> QED BY <2>1, <2>2
<1>6. ASSUME NEW a \in Actor, Deploying(a)
      PROVE  Stored(l)'
  BY <1>1, <1>2, <1>6, DeployingJobs
<1>7. CASE Restart
  BY <1>2, <1>7 DEF Restart, NoJob
<1>8. CASE UNCHANGED job
  BY <1>1, <1>8
<1> QED BY <1>5, <1>6, <1>7, <1>8 DEF Next, vars, World, Synchronize, Requests, Tasks, Refresh

LEMMA FinishedOwn ==
  ASSUME TypeInv, MadeInv, OwnInv, [Next]_vars, NEW k \in Load, JobAt(k, "finished")'
  PROVE  load'[JobName(k)'] = k
<1>1. CASE job'[k] = job[k] /\ load'[JobName(k)] = load[JobName(k)]
  BY <1>1, Loaded DEF JobAt, JobName
<1>2. ASSUME NEW l \in Load, Loading(l)
      PROVE  load'[JobName(k)'] = k
  <2>1. CASE k = l
    <3>1. FinishLoad(k)
      BY <1>2, <2>1, LoadingFacts DEF JobAt, NoJob
    <3>2. job'[k].conn = job[k].conn
      BY <1>2, <2>1, LoadingFacts DEF JobAt, NoJob
    <3> QED BY <3>1, <3>2 DEF FinishLoad, JobName
  <2>2. CASE k # l
    <3>1. job'[k] = job[k] /\ JobAt(k, "finished")
      BY <1>2, <2>2, LoadingFacts DEF JobAt
    <3>2. UNCHANGED load \/ ExportSchema(l)
      BY <1>2 DEF Loading, LoadStep, FinishLoad, AbandonLoad, FailToExport, ReadForStore,
                  CommitStore, ConflictAtStore, FailAtStore
    <3>3. ASSUME ExportSchema(l)
          PROVE  load'[JobName(k)] = load[JobName(k)]
      <4>1. load[JobName(l)] = l /\ load[JobName(k)] = k
        BY <3>1, <3>3, Loaded DEF ExportSchema
      <4>2. JobName(k) # JobName(l)
        BY <2>2, <4>1
      <4> QED BY <3>3, <4>2 DEF ExportSchema, TypeInv
    <3> QED BY <1>1, <3>1, <3>2, <3>3
  <2> QED BY <2>1, <2>2
<1>3. ASSUME NEW a \in Actor, Deploying(a)
      PROVE  load'[JobName(k)'] = k
  <2>1. job'[k] = job[k] /\ JobAt(k, "finished")
    BY <1>3, DeployingJobs DEF JobAt
  <2>2. load[JobName(k)] = k /\ Active(k) /\ JobName(k) \in Name
    BY <2>1, Loaded
  <2>3. load'[JobName(k)] = load[JobName(k)]
    BY <1>3, <2>2, LoadChanged DEF Deployed
  <2> QED BY <1>1, <2>1, <2>3
<1>4. CASE Restart
  BY <1>4 DEF Restart, JobAt, NoJob
<1>5. CASE UNCHANGED <<job, load>>
  BY <1>1, <1>5
<1> QED BY <1>2, <1>3, <1>4, <1>5 DEF Next, vars, World, Synchronize, Requests, Tasks, Refresh

LEMMA NextOwn == TypeInv /\ MadeInv /\ OwnInv /\ AllReport /\ [Next]_vars => OwnInv'
<1> SUFFICES ASSUME TypeInv, MadeInv, OwnInv, AllReport, [Next]_vars PROVE OwnInv'
  OBVIOUS
<1>1. \A l \in Load : Stored(l)'
  BY JobOwn
<1> QED BY <1>1, RowOwn, FinishedOwn DEF OwnInv, Own, Stored

\* As long as no load fails, a connection never gets the tables of another one,
\* in spite of names that are used again while load VDBs of before still run.
THEOREM RowsAreOwn == Spec => OwnMetadata
<1>1. TypeInv /\ MadeInv /\ OwnInv /\ AllReport /\ [Next]_vars => OwnInv'
  BY NextOwn
<1>2. TypeInv /\ MadeInv /\ [Next]_vars => TypeInv' /\ MadeInv'
  BY NextTypes, NextMade
<1>3. OwnInv => Own
  BY DEF OwnInv
<1>4. Spec /\ []AllReport => []Own
  BY <1>1, <1>2, <1>3, InitTypes, InitMade, InitOwn, PTL DEF Spec
<1> QED BY <1>4, PTL DEF OwnMetadata, AllReport, Own

-----------------------------------------------------------------------------
(* What the threads of load VDBs hold, failures included: a load VDB that  *)
(* has a name is of a thread at work on that name, a load that is over has *)
(* a result, and a transaction that can commit finds its row.              *)

LoadVdbs ==
    \A n \in Name : load[n] # Null =>
        job[load[n]].pc \in {"loading", "finished", "stuck"} /\ JobName(load[n]) = n

HasResult(l) == job[l].pc \in {"finished", "read", "commit", "stuck"} => job[l].ddl \in Ddl

CanCommit(l) == JobAt(l, "commit") /\ ddl[job[l].conn] # NoRow

StoreInv == LoadVdbs /\ (\A l \in Load : HasResult(l)) /\ (\A l \in current : CanCommit(l))

LEMMA InitStore == Init => StoreInv
BY DEF Init, StoreInv, LoadVdbs, HasResult, NoJob

\* A deployment begins a load with a thread that has nothing to do.
LEMMA DeployingLoads ==
  ASSUME TypeInv, NEW a \in Actor, Deploying(a)
  PROVE  \/ UNCHANGED <<job, load>>
         \/ UNCHANGED job /\ \E n \in Name : load' = [load EXCEPT ![n] = Null]
         \/ \E k \in Load :
              /\ job[k] = NoJob
              /\ load' = [load EXCEPT ![NameOf(a)] = k]
              /\ job' = [job EXCEPT ![k] = [NoJob EXCEPT !.pc = "loading", !.conn = call[a].conn]]
<1>1. UNCHANGED <<job, load>> \/ DeployLoadVdb(a)
  BY DEF Deploying, DeployStep, ReadRow, CheckVdb, UndeployFailed, UndeployConnVdb, DeployConnVdb
<1>2. NameOf(a) \in Name
  BY DeployingFacts
<1>3. CASE DeployLoadVdb(a) /\ \E l \in Load : job[l] = NoJob
  <2>1. (CHOOSE k \in Load : job[k] = NoJob) \in Load
        /\ job[CHOOSE k \in Load : job[k] = NoJob] = NoJob
    BY <1>3
  <2> QED BY <1>2, <1>3, <2>1 DEF DeployLoadVdb
<1>4. CASE DeployLoadVdb(a) /\ ~\E l \in Load : job[l] = NoJob
  BY <1>2, <1>4 DEF DeployLoadVdb
<1> QED BY <1>1, <1>3, <1>4

LEMMA NextLoadVdbs == TypeInv /\ StoreInv /\ [Next]_vars => LoadVdbs'
<1> SUFFICES ASSUME TypeInv, StoreInv, [Next]_vars, NEW n \in Name, load'[n] # Null
             PROVE  /\ job'[load'[n]].pc \in {"loading", "finished", "stuck"}
                    /\ TeiidName[job'[load'[n]].conn] = n
  BY DEF LoadVdbs, JobName
<1> DEFINE k == load'[n]
<1>1. ASSUME load[n] = k, job'[k] = job[k]
      PROVE  job'[k].pc \in {"loading", "finished", "stuck"} /\ TeiidName[job'[k].conn] = n
  BY <1>1 DEF StoreInv, LoadVdbs, JobName
<1>2. ASSUME NEW l \in Load, Loading(l)
      PROVE  job'[k].pc \in {"loading", "finished", "stuck"} /\ TeiidName[job'[k].conn] = n
  <2>1. UNCHANGED load \/ load' = [load EXCEPT ![JobName(l)] = Null]
    BY <1>2 DEF Loading, LoadStep, FinishLoad, AbandonLoad, ExportSchema, FailToExport,
                ReadForStore, CommitStore, ConflictAtStore, FailAtStore
  <2>2. load[n] = k /\ k \in Load
    BY <2>1 DEF TypeInv
  <2>3. CASE k = l
    <3>1. JobName(l) = n /\ load[n] = l /\ job[l].pc \in {"loading", "finished", "stuck"}
      BY <2>2, <2>3 DEF StoreInv, LoadVdbs
    <3>2. job[l] \in Job
      BY <3>1, JobHasConn DEF JobAt
    <3>3. FinishLoad(l) \/ (FailToExport(l) /\ JobGoes(l, "stuck"))
      <4>1. ~ExportSchema(l)
        BY <2>2, <3>1 DEF ExportSchema, TypeInv
      <4>2. ~AbandonLoad(l) /\ ~ReadForStore(l) /\ ~CommitStore(l) /\ ~ConflictAtStore(l)
            /\ ~FailAtStore(l)
        BY <3>1 DEF AbandonLoad, ReadForStore, CommitStore, ConflictAtStore, FailAtStore, JobAt
      <4>3. FailToExport(l) => JobGoes(l, "stuck")
        BY <3>1 DEF FailToExport
      <4> QED BY <1>2, <4>1, <4>2, <4>3 DEF Loading, LoadStep
    <3>4. job'[l].pc \in {"finished", "stuck"} /\ job'[l].conn = job[l].conn
      BY <3>2, <3>3 DEF FinishLoad, JobGoes, TypeInv, Job
    <3> QED BY <2>3, <3>1, <3>4 DEF JobName
  <2>4. CASE k # l
    BY <1>1, <1>2, <2>2, <2>4, LoadingFacts
  <2> QED BY <2>3, <2>4
<1>3. ASSUME NEW a \in Actor, Deploying(a)
      PROVE  job'[k].pc \in {"loading", "finished", "stuck"} /\ TeiidName[job'[k].conn] = n
  <2>1. CASE UNCHANGED job /\ load'[n] \in {load[n], Null}
    BY <1>1, <2>1
  <2>2. ASSUME NEW h \in Load, job[h] = NoJob, load' = [load EXCEPT ![NameOf(a)] = h],
               job' = [job EXCEPT ![h] = [NoJob EXCEPT !.pc = "loading", !.conn = call[a].conn]]
        PROVE  job'[k].pc \in {"loading", "finished", "stuck"} /\ TeiidName[job'[k].conn] = n
    <3>1. CASE n = NameOf(a)
      <4>1. k = h /\ job'[k].pc = "loading" /\ job'[k].conn = call[a].conn
        BY <2>2, <3>1 DEF TypeInv, NoJob
      <4> QED BY <3>1, <4>1 DEF NameOf
    <3>2. CASE n # NameOf(a)
      <4>1. load[n] = k /\ k \in Load
        BY <2>2, <3>2 DEF TypeInv
      <4>2. job[k].pc # "none"
        BY <4>1 DEF StoreInv, LoadVdbs
      <4>3. k # h
        BY <2>2, <4>2 DEF NoJob
      <4>4. job'[k] = job[k]
        BY <2>2, <4>1, <4>3 DEF TypeInv
      <4> QED BY <1>1, <4>1, <4>4
    <3> QED BY <3>1, <3>2
  <2>3. (\E m \in Name : load' = [load EXCEPT ![m] = Null]) => load'[n] \in {load[n], Null}
    BY DEF TypeInv
  <2> QED BY <1>3, <2>1, <2>2, <2>3, DeployingLoads
<1>4. CASE Restart
  BY <1>4 DEF Restart
<1>5. CASE UNCHANGED <<job, load>>
  BY <1>1, <1>5
<1> QED BY <1>2, <1>3, <1>4, <1>5 DEF Next, vars, World, Synchronize, Requests, Tasks, Refresh

LEMMA ResultKept ==
  ASSUME TypeInv, StoreInv, [Next]_vars, NEW l \in Load
  PROVE  HasResult(l)'
<1>0. HasResult(l)
  BY DEF StoreInv
<1>1. CASE job'[l] = job[l]
  BY <1>0, <1>1 DEF HasResult
<1>2. CASE job'[l].pc \in {"none", "loading"}
  BY <1>2 DEF HasResult
<1>3. CASE FinishLoad(l)
  <2>1. job[l] \in Job /\ job[l].conn \in Conn
    BY <1>3, JobHasConn DEF FinishLoad
  <2>2. [of |-> job[l].conn, version |-> reports[job[l].conn]] \in Ddl
    BY <2>1 DEF TypeInv, Ddl
  <2>3. job'[l].ddl = [of |-> job[l].conn, version |-> reports[job[l].conn]]
    BY <1>3, <2>1 DEF FinishLoad, TypeInv, Job
  <2> QED BY <2>2, <2>3 DEF HasResult
<1>4. CASE ExportSchema(l)
  <2>1. job[l] \in Job /\ JobName(l) \in Name /\ job[l].ddl \in Ddl
    BY <1>0, <1>4, JobHasConn DEF ExportSchema, HasResult, JobAt
  <2>2. CASE JobGoes(l, "read")
    BY <2>1, <2>2 DEF JobGoes, HasResult, TypeInv, Job
  <2>3. CASE ~JobGoes(l, "read")
    <3> DEFINE d == load[JobName(l)]
    <3>1. /\ d # Null /\ Active(d)
          /\ job' = [job EXCEPT ![l].pc = "read", ![l].ddl = job[d].ddl]
      BY <1>4, <2>3 DEF ExportSchema
    <3>2. d \in Load /\ job[d].pc \in {"finished", "stuck"}
      BY <2>1, <3>1 DEF TypeInv, StoreInv, LoadVdbs, Active
    <3>3. job[d].ddl \in Ddl
      BY <3>2 DEF StoreInv, HasResult
    <3> QED BY <2>1, <3>1, <3>3 DEF HasResult, TypeInv, Job
  <2> QED BY <2>2, <2>3
<1>5. ASSUME NEW k \in Load, Loading(k)
      PROVE  HasResult(l)'
  <2>1. CASE k # l
    BY <1>1, <1>5, <2>1, LoadingFacts
  <2>2. CASE k = l
    BY <1>0, <1>2, <1>3, <1>4, <1>5, <2>2, LoadingFacts DEF HasResult, JobAt, NoJob
  <2> QED BY <2>1, <2>2
<1>6. ASSUME NEW a \in Actor, Deploying(a)
      PROVE  HasResult(l)'
  BY <1>1, <1>2, <1>6, DeployingJobs
<1>7. CASE Restart
  BY <1>2, <1>7 DEF Restart, NoJob
<1>8. CASE UNCHANGED job
  BY <1>1, <1>8
<1> QED BY <1>5, <1>6, <1>7, <1>8 DEF Next, vars, World, Synchronize, Requests, Tasks, Refresh

\* A transaction that can still commit when its row changes or goes would store
\* into a row that is not there; whatever takes the row away ends its chance.
LEMMA CommitKept ==
  ASSUME TypeInv, StoreInv, [Next]_vars, NEW l \in current'
  PROVE  CanCommit(l)'
<1>0. l \in current => l \in Load /\ CanCommit(l) /\ job[l] \in Job /\ job[l].conn \in Conn
  BY JobHasConn DEF StoreInv, CanCommit, TypeInv
<1>1. ASSUME l \in current, job'[l] = job[l], ddl'[job[l].conn] # NoRow
      PROVE  CanCommit(l)'
  BY <1>0, <1>1 DEF CanCommit, JobAt
<1>2. ASSUME NEW k \in Load, Loading(k)
      PROVE  CanCommit(l)'
  <2>1. CASE k = l /\ l \in current
    <3>1. CommitStore(l) \/ ConflictAtStore(l) \/ FailAtStore(l)
      BY <1>0, <1>2, <2>1 DEF Loading, LoadStep, CanCommit, FinishLoad, AbandonLoad,
                  ExportSchema, FailToExport, ReadForStore, JobAt
    <3> QED BY <2>1, <3>1 DEF CommitStore, ConflictAtStore, FailAtStore, JobEnds, RowOf
  <2>2. CASE k = l /\ l \notin current
    <3>1. ReadForStore(l) /\ JobGoes(l, "commit")
      BY <1>2, <2>2 DEF Loading, LoadStep, FinishLoad, AbandonLoad, ExportSchema, FailToExport,
                  ReadForStore, CommitStore, ConflictAtStore, FailAtStore, JobEnds
    <3>2. job[l] \in Job
      BY <1>2, <2>2, <3>1, JobHasConn DEF ReadForStore
    <3>3. job'[l].pc = "commit" /\ job'[l].conn = job[l].conn
      BY <1>2, <2>2, <3>1, <3>2 DEF JobGoes, TypeInv, Job
    <3>4. ddl[job[l].conn] # NoRow
      <4>1. CASE ddl[job[l].conn] = NoRow
        <5>1. JobEnds(l)
          BY <3>1, <4>1 DEF ReadForStore, RowOf
        <5>2. job'[l].pc = "none"
          BY <1>2, <2>2, <5>1 DEF JobEnds, TypeInv, NoJob
        <5> QED BY <3>3, <5>2
      <4> QED BY <4>1
    <3> QED BY <3>1, <3>3, <3>4 DEF ReadForStore, CanCommit, JobAt
  <2>3. CASE k # l
    <3>1. l \in current /\ job'[l] = job[l]
      <4>1. l \in current
        BY <1>2, <2>3 DEF Loading, LoadStep, FinishLoad, AbandonLoad, ExportSchema, FailToExport,
                  ReadForStore, CommitStore, ConflictAtStore, FailAtStore, JobEnds
      <4> QED BY <1>0, <1>2, <2>3, <4>1, LoadingFacts
    <3>2. ddl' = ddl \/ ddl' = [ddl EXCEPT ![job[k].conn] = job[k].ddl]
      BY <1>2 DEF Loading, LoadStep, FinishLoad, AbandonLoad, ExportSchema, FailToExport,
                  ReadForStore, CommitStore, ConflictAtStore, FailAtStore, RowOf
    <3>3. job[k].ddl # NoRow
      BY ExportedType, RowTextTypes
    <3>4. ddl'[job[l].conn] # NoRow
      BY <1>0, <3>1, <3>2, <3>3 DEF CanCommit, TypeInv
    <3> QED BY <1>1, <3>1, <3>4
  <2> QED BY <2>1, <2>2, <2>3
<1>3. CASE Tasks
  <2>1. l \in current /\ job'[l] = job[l]
    BY <1>3 DEF Tasks, TakeAdd, TakeUpdate, CreateAgain, TakeDelete, DeleteDataSource, TakeRemove,
                TakeReplace, Snapshot
  <2>2. \/ ddl' = ddl \/ (\E d : ddl' = CreateRow(d))
        \/ \E d \in Conn : ddl' = [ddl EXCEPT ![d] = NoRow] /\ d # job[l].conn
    <3>1. CASE TakeDelete
      BY <1>0, <2>1, <3>1, TakeTypes DEF TakeDelete
    <3>2. CASE ~TakeDelete
      BY <1>3, <3>2 DEF Tasks, TakeAdd, TakeUpdate, CreateAgain, DeleteDataSource, TakeRemove,
                TakeReplace, Snapshot, Create
    <3> QED BY <3>1, <3>2
  <2>3. ddl'[job[l].conn] # NoRow
    BY <1>0, <2>1, <2>2 DEF CanCommit, CreateRow, TypeInv, NoRow, Unloaded
  <2> QED BY <1>1, <2>1, <2>3
<1>4. ASSUME NEW a \in Actor, Deploying(a)
      PROVE  CanCommit(l)'
  <2>1. l \in current /\ ddl' = ddl
    BY <1>4 DEF Deploying
  <2>2. job'[l] = job[l]
    <3>1. job[l] # NoJob
      BY <1>0, <2>1 DEF CanCommit, JobAt, NoJob
    <3>2. UNCHANGED job \/ \E k \in Load : job[k] = NoJob /\
              job' = [job EXCEPT ![k] = [NoJob EXCEPT !.pc = "loading", !.conn = call[a].conn]]
      BY <1>4, DeployingLoads
    <3> QED BY <1>0, <2>1, <3>1, <3>2 DEF TypeInv
  <2> QED BY <1>0, <1>1, <2>1, <2>2 DEF CanCommit
<1>5. CASE Restart
  BY <1>5 DEF Restart
<1>6. CASE UNCHANGED <<job, current, ddl>>
  BY <1>0, <1>1, <1>6 DEF CanCommit
<1> QED BY <1>2, <1>3, <1>4, <1>5, <1>6 DEF Next, vars, World, Synchronize, Requests, Refresh

LEMMA NextStore == TypeInv /\ StoreInv /\ [Next]_vars => StoreInv'
<1> SUFFICES ASSUME TypeInv, StoreInv, [Next]_vars PROVE StoreInv'
  OBVIOUS
<1>1. \A l \in Load : HasResult(l)'
  BY ResultKept
<1>2. \A l \in current' : CanCommit(l)'
  BY CommitKept
<1> QED BY <1>1, <1>2, NextLoadVdbs DEF StoreInv

-----------------------------------------------------------------------------
(* The order of the queue: a deletion waits behind every creation of its   *)
(* connection, so nothing is left that could make the row again.           *)

Creates(m) == m.kind \in {"add", "update"}

Ordered(s) ==
    \A i, j \in 1..Len(s) :
        i < j /\ s[i].kind = "delete" /\ Creates(s[j]) => s[i].conn # s[j].conn

QueueInv ==
    /\ \A m \in Waiting(queue) : m.kind = "delete" => m.conn \in gone
    /\ Ordered(queue)

\* What is queued while the server runs: nothing creates a connection that has
\* been announced to be deleted.
Fresh(m) ==
    /\ Creates(m) => m.conn \notin gone
    /\ m.kind = "delete" => m.conn \in gone'

LEMMA TailOrdered ==
  ASSUME NEW s \in Seq(Task), s # <<>>, Ordered(s)
  PROVE  Ordered(Tail(s))
<1>1. /\ Len(s) \in Nat /\ Len(Tail(s)) = Len(s) - 1
      /\ \A i \in 1..Len(Tail(s)) : Tail(s)[i] = s[i + 1] /\ i + 1 \in 1..Len(s)
  OBVIOUS
<1>2. \A i, j \in 1..Len(Tail(s)) : i < j => i + 1 < j + 1
  BY <1>1
<1> QED BY <1>1, <1>2 DEF Ordered

LEMMA AppendOrdered ==
  ASSUME NEW s \in Seq(Task), NEW m \in Task, Ordered(s),
         Creates(m) => \A h \in Waiting(s) : h.kind = "delete" => h.conn # m.conn
  PROVE  Ordered(Append(s, m))
<1> DEFINE t == Append(s, m)
<1>1. /\ Len(s) \in Nat /\ Len(t) = Len(s) + 1
      /\ \A i \in 1..Len(s) : t[i] = s[i]
      /\ t[Len(s) + 1] = m
  OBVIOUS
<1>2. \A i, j \in 1..Len(t) : i < j =>
         /\ i \in 1..Len(s)
         /\ j \in 1..Len(s) \/ j = Len(s) + 1
  BY <1>1
<1> HIDE DEF t
<1>3. ASSUME NEW i \in 1..Len(t), NEW j \in 1..Len(t), i < j, t[i].kind = "delete",
             Creates(t[j])
      PROVE  t[i].conn # t[j].conn
  <2>1. CASE j \in 1..Len(s)
    BY <1>1, <1>2, <1>3, <2>1 DEF Ordered
  <2>2. CASE j = Len(s) + 1
    <3>1. t[i] \in Waiting(s) /\ t[j] = m
      BY <1>1, <1>2, <1>3, <2>2 DEF Waiting
    <3> QED BY <1>3, <3>1
  <2> QED BY <1>2, <1>3, <2>1, <2>2
<1> QED BY <1>3 DEF Ordered, t

\* What is left behind the deletion that has been taken.
LEMMA DeletionIsLast ==
  ASSUME NEW s \in Seq(Task), s # <<>>, Ordered(s), Head(s).kind = "delete",
         NEW m \in Waiting(Tail(s)), Creates(m)
  PROVE  m.conn # Head(s).conn
<1>1. /\ Len(s) \in Nat \ {0} /\ Len(Tail(s)) = Len(s) - 1
      /\ \A i \in 1..Len(Tail(s)) : Tail(s)[i] = s[i + 1] /\ i + 1 \in 1..Len(s) /\ 1 < i + 1
      /\ Head(s) = s[1] /\ 1 \in 1..Len(s)
  OBVIOUS
<1>2. PICK i \in 1..Len(Tail(s)) : m = Tail(s)[i]
  BY DEF Waiting
<1> QED BY <1>1, <1>2 DEF Ordered

LEMMA RestartQueue ==
  ASSUME TypeInv, Restart, NEW m \in Waiting(queue')
  PROVE  m.kind = "add" /\ m.conn \in made \ gone
<1>1. PICK q \in Orders(made \ gone) :
         queue' = [i \in DOMAIN q |-> [kind |-> "add", conn |-> q[i]]]
  BY DEF Restart
<1>2. q \in [1..Cardinality(made \ gone) -> made \ gone]
  BY DEF Orders
<1>3. PICK i \in 1..Len(queue') : m = queue'[i]
  BY DEF Waiting
<1>4. i \in DOMAIN q
  <2>1. queue' \in Seq(Task)
    BY RestartTypes DEF TypeInv
  <2>2. DOMAIN queue' = 1..Len(queue')
    BY <2>1
  <2> QED BY <1>1, <1>3, <2>2
<1> QED BY <1>1, <1>2, <1>3, <1>4

\* How the queue changes.
LEMMA QueueStep ==
  ASSUME TypeInv, [Next]_vars
  PROVE  \/ UNCHANGED queue
         \/ \E m \in Task : queue' = Append(queue, m) /\ Fresh(m)
         \/ queue # <<>> /\ queue' = Tail(queue)
         \/ /\ queue # <<>> /\ Head(queue).kind = "delete"
            /\ \E m \in Task : queue' = Append(Tail(queue), m) /\ m.kind = "remove"
         \/ Restart
<1> DEFINE Added == \E m \in Task : queue' = Append(queue, m) /\ Fresh(m)
<1>1. ASSUME NEW kind, NEW c, Enqueue(kind, c),
             \/ kind = "refresh" /\ c = Null
             \/ kind = "replace" /\ c \in Conn
             \/ kind \in {"add", "update"} /\ c \in Conn \ gone
             \/ kind = "delete" /\ c \in Conn /\ c \in gone'
      PROVE  Added
  <2>1. [kind |-> kind, conn |-> c] \in Task
    BY <1>1, TaskTypes
  <2>2. Fresh([kind |-> kind, conn |-> c])
    BY <1>1 DEF Fresh, Creates
  <2> QED BY <1>1, <2>1, <2>2 DEF Enqueue
<1> HIDE DEF Added
<1>2. ASSUME NEW c \in Conn, ChangeSource(c) \/ Connect(c) \/ Update(c) \/ Disconnect(c)
                             \/ Synchronize(c)
      PROVE  UNCHANGED queue \/ Added
  <2>1. CASE Connect(c)
    <3>1. c \in Conn \ gone
      BY <2>1 DEF Connect, TypeInv
    <3> QED BY <1>1, <2>1, <3>1 DEF Connect
  <2>2. CASE Disconnect(c)
    BY <1>1, <2>2 DEF Disconnect
  <2> QED BY <1>1, <1>2, <2>1, <2>2 DEF ChangeSource, Update, Synchronize
<1>3. ASSUME NEW a \in Actor, Deploying(a)
      PROVE  UNCHANGED queue \/ Added
  BY <1>1, <1>3 DEF Deploying, DeployStep, ReadRow, CheckVdb, DeployLoadVdb, UndeployFailed,
              UndeployConnVdb, DeployConnVdb
<1>4. ASSUME NEW l \in Load, Loading(l)
      PROVE  UNCHANGED queue \/ Added
  <2>1. queue' = queue \/ (JobAt(l, "commit") /\ Enqueue("replace", job[l].conn))
    BY <1>4 DEF Loading, LoadStep, FinishLoad, AbandonLoad, ExportSchema, FailToExport,
           ReadForStore, CommitStore, ConflictAtStore, FailAtStore, RowOf
  <2> QED BY <1>1, <2>1, JobHasConn
<1>5. CASE Tasks
  <2>1. CASE TakeDelete
    <3>1. queue # <<>> /\ Head(queue).kind = "delete"
      BY <2>1 DEF TakeDelete, Take
    <3>2. [kind |-> "remove", conn |-> Head(queue).conn] \in Task
      BY <2>1, TakeTypes, TaskTypes DEF TakeDelete
    <3>3. \/ queue' = Tail(queue)
          \/ queue' = Append(Tail(queue), [kind |-> "remove", conn |-> Head(queue).conn])
      BY <2>1 DEF TakeDelete
    <3> QED BY <3>1, <3>2, <3>3
  <2>2. CASE ~TakeDelete
    BY <1>5, <2>2 DEF Tasks, TakeAdd, TakeUpdate, CreateAgain, DeleteDataSource, TakeRemove,
                        TakeReplace, Snapshot, Take
  <2> QED BY <2>1, <2>2
<1>6. CASE Restart
  BY <1>6
<1>7. CASE UNCHANGED queue
  BY <1>7
<1> QED BY <1>2, <1>3, <1>4, <1>5, <1>6, <1>7 DEF Next, vars, World, Requests, Refresh, Added

LEMMA InitQueue == Init => QueueInv
<1> SUFFICES ASSUME Init PROVE QueueInv
  OBVIOUS
<1>1. Len(queue) = 0
  BY DEF Init
<1> QED BY <1>1 DEF QueueInv, Ordered, Waiting

LEMMA GoneGrows == [Next]_vars => gone \subseteq gone'
BY DEF Next, vars, World, ChangeSource, Connect, Update, Disconnect, Synchronize, Requests,
       Tasks, Refresh, Restart, Deploying, Loading

LEMMA NextQueue == TypeInv /\ QueueInv /\ [Next]_vars => QueueInv'
<1> SUFFICES ASSUME TypeInv, QueueInv, [Next]_vars PROVE QueueInv'
  OBVIOUS
<1>0. gone \subseteq gone' /\ queue \in Seq(Task)
  BY GoneGrows DEF TypeInv
<1>1. CASE UNCHANGED queue
  BY <1>0, <1>1 DEF QueueInv, Waiting, Ordered
<1>2. ASSUME NEW m \in Task, queue' = Append(queue, m), Fresh(m)
      PROVE  QueueInv'
  <2>1. Ordered(queue')
    BY <1>0, <1>2, AppendOrdered DEF QueueInv, Fresh
  <2>2. \A h \in Waiting(queue') : h.kind = "delete" => h.conn \in gone'
    BY <1>0, <1>2, AppendWaiting DEF QueueInv, Fresh
  <2> QED BY <2>1, <2>2 DEF QueueInv, Ordered, Waiting, Creates
<1>3. ASSUME queue # <<>>,
             \/ queue' = Tail(queue)
             \/ \E m \in Task : queue' = Append(Tail(queue), m) /\ m.kind = "remove"
      PROVE  QueueInv'
  <2>1. /\ Tail(queue) \in Seq(Task) /\ Ordered(Tail(queue))
        /\ \A h \in Waiting(Tail(queue)) : h.kind = "delete" => h.conn \in gone'
    BY <1>0, <1>3, TailTask, TailOrdered, TailWaiting DEF QueueInv
  <2>2. CASE queue' = Tail(queue)
    BY <2>1, <2>2 DEF QueueInv, Ordered, Waiting, Creates
  <2>3. ASSUME NEW m \in Task, queue' = Append(Tail(queue), m), m.kind = "remove"
        PROVE  QueueInv'
    <3>1. Ordered(queue')
      BY <2>1, <2>3, AppendOrdered DEF Creates
    <3>2. Waiting(queue') = Waiting(Tail(queue)) \union {m}
      BY <2>1, <2>3, AppendWaiting
    <3>3. \A h \in Waiting(queue') : h.kind = "delete" => h.conn \in gone'
      BY <2>1, <2>3, <3>2
    <3> QED BY <3>1, <3>3 DEF QueueInv, Ordered, Waiting, Creates
  <2> QED BY <1>3, <2>2, <2>3
<1>4. CASE Restart
  <2>1. \A m \in Waiting(queue') : m.kind # "delete"
    BY <1>4, RestartQueue
  <2>2. \A i \in 1..Len(queue') : queue'[i].kind # "delete"
    BY <2>1 DEF Waiting
  <2> QED BY <2>1, <2>2 DEF QueueInv, Ordered, Waiting, Creates
<1> QED BY <1>1, <1>2, <1>3, <1>4, QueueStep

-----------------------------------------------------------------------------
(* SchemaLifecycle: the one life of the row of a connection.               *)

USE DEF Schemas!lifeVars

LEMMA ExpectedQueued ==
  \A c \in Conn : Expected(c) <=>
      \/ \E m \in Waiting(queue) : Creates(m) /\ m.conn = c
      \/ At(Executor, "create") /\ call[Executor].conn = c
BY DEF Expected, Waiting, Creates

\* A connection that is deleted and has nothing left that would create its row
\* will not get it back.
LEMMA ExpectedFades ==
  ASSUME TypeInv, [Next]_vars, NEW c \in gone, Expected(c)'
  PROVE  Expected(c)
<1>0. c \in Conn
  BY DEF TypeInv
<1>1. ASSUME NEW m \in Waiting(queue'), Creates(m), m.conn = c
      PROVE  Expected(c)
  <2>1. ~Restart
    BY <1>1, RestartQueue
  <2>2. ASSUME NEW h \in Task, queue' = Append(queue, h), Fresh(h)
        PROVE  m \in Waiting(queue)
    BY <1>1, <2>2, AppendWaiting DEF Fresh, TypeInv
  <2>3. ASSUME queue # <<>>, queue' = Tail(queue)
        PROVE  m \in Waiting(queue)
    BY <1>1, <2>3, TailWaiting DEF TypeInv
  <2>4. ASSUME queue # <<>>, NEW h \in Task, queue' = Append(Tail(queue), h), h.kind = "remove"
        PROVE  m \in Waiting(queue)
    <3>1. queue \in Seq(Task) /\ Tail(queue) \in Seq(Task)
      BY <2>4, TailTask DEF TypeInv
    <3>2. Waiting(queue') = Waiting(Tail(queue)) \union {h}
      BY <2>4, <3>1, AppendWaiting
    <3>3. Waiting(queue) = {Head(queue)} \union Waiting(Tail(queue))
      BY <2>4, <3>1, TailWaiting
    <3> QED BY <1>1, <2>4, <3>2, <3>3 DEF Creates
  <2>5. m \in Waiting(queue)
    BY <1>1, <2>1, <2>2, <2>3, <2>4, QueueStep DEF Waiting
  <2> QED BY <1>0, <1>1, <2>5, ExpectedQueued
<1>2. ASSUME call'[Executor].pc = "create", call'[Executor].conn = c
      PROVE  Expected(c)
  <2>1. CASE call'[Executor] = call[Executor]
    BY <1>0, <1>2, <2>1, ExpectedQueued DEF At
  <2>2. CASE Tasks
    <3>1. TakeUpdate
      <4>1. CASE TakeAdd
        BY <1>2, <4>1, TakeTypes, CreateFacts DEF TakeAdd, Mode
      <4>2. CASE CreateAgain
        BY <1>2, <4>2, CallHasConn, CreateFacts DEF CreateAgain, Actor, Mode
      <4>3. CASE TakeDelete \/ DeleteDataSource \/ TakeRemove \/ TakeReplace \/ Snapshot
        BY <1>2, <4>3 DEF TakeDelete, DeleteDataSource, TakeRemove, TakeReplace, Snapshot, Become,
                          Return, Deploy, Refreshing, Idle, TypeInv, Actor
      <4> QED BY <2>2, <4>1, <4>2, <4>3 DEF Tasks
    <3>2. call'[Executor].conn = Head(queue).conn
      BY <3>1 DEF TakeUpdate, Become, Deploy, TypeInv, Actor
    <3>3. Head(queue) \in Waiting(queue) /\ Creates(Head(queue))
      BY <3>1, TakeWaiting DEF TakeUpdate, Creates
    <3> QED BY <1>0, <1>2, <3>2, <3>3, ExpectedQueued
  <2>3. ASSUME NEW a \in Actor, Deploying(a)
        PROVE  Expected(c)
    BY <1>2, <2>1, <2>3, DeployingPc
  <2>4. CASE Requests
    <3>1. call'[Executor] = call[Executor]
      BY <2>4 DEF Requests, RefreshSchema, FindSchemaModel, UpdatePreviewVdb, TypeInv, Actor
    <3> QED BY <2>1, <3>1
  <2>5. CASE Refresh \/ Restart
    <3>1. UNCHANGED call \/ call'[Executor] = Idle
      BY <2>5 DEF Refresh, DeployMaster, UndeployPreview, Restart, Return, TypeInv, Actor
    <3> QED BY <1>2, <2>1, <3>1 DEF Idle
  <2>6. CASE UNCHANGED call
    BY <2>1, <2>6
  <2> QED BY <2>2, <2>3, <2>4, <2>5, <2>6 DEF Next, vars, World, Synchronize, Loading
<1>3. \/ \E m \in Waiting(queue') : Creates(m) /\ m.conn = c
      \/ call'[Executor].pc = "create" /\ call'[Executor].conn = c
  BY DEF Expected, Waiting, Creates, At
<1> QED BY <1>1, <1>2, <1>3

\* Everything that happens to a row.
LEMMA RowStep ==
  ASSUME TypeInv, MadeInv, StoreInv, QueueInv, [Next]_vars, NEW c \in Conn, ddl'[c] # ddl[c]
  PROVE  /\ UNCHANGED <<made, gone>>
         /\ \/ ddl[c] = NoRow /\ ddl'[c] = Unloaded /\ c \in made /\ Expected(c)
            \/ ddl'[c] = NoRow /\ c \in gone /\ ~Expected(c)'
            \/ ddl[c] # NoRow /\ ddl'[c] \in Ddl
<1>1. ASSUME NEW d \in Conn, ddl' \in {ddl, CreateRow(d)}, d \in made, Expected(d)
      PROVE  ddl[c] = NoRow /\ ddl'[c] = Unloaded /\ c \in made /\ Expected(c)
  BY <1>1 DEF CreateRow, TypeInv
<1>2. CASE Tasks
  <2>1. UNCHANGED <<made, gone>>
    BY <1>2 DEF Tasks
  <2>2. CASE TakeAdd
    <3>1. /\ Head(queue).conn \in Conn
          /\ Head(queue) \in Waiting(queue) /\ Head(queue).kind = "add"
      BY <2>2, TakeTypes, TakeWaiting DEF TakeAdd
    <3>2. Head(queue).conn \in made /\ Expected(Head(queue).conn)
      BY <3>1, ExpectedQueued DEF MadeInv, Creates
    <3> QED BY <1>1, <2>1, <2>2, <3>1, <3>2 DEF TakeAdd, Create
  <2>3. CASE CreateAgain
    <3>1. call[Executor].conn \in Conn
      BY <2>3, CallHasConn DEF CreateAgain, Actor
    <3>2. call[Executor].conn \in made /\ Expected(call[Executor].conn)
      BY <2>3, <3>1, ExpectedQueued DEF MadeInv, CreateAgain, Actor
    <3> QED BY <1>1, <2>1, <2>3, <3>1, <3>2 DEF CreateAgain, Create
  <2>4. CASE TakeDelete
    <3>1. /\ queue # <<>> /\ Head(queue).kind = "delete" /\ Head(queue) \in Waiting(queue)
          /\ Head(queue).conn \in Conn
      BY <2>4, TakeTypes, TakeWaiting DEF TakeDelete, Take
    <3>2. c = Head(queue).conn /\ ddl'[c] = NoRow /\ c \in gone
      BY <2>4, <3>1 DEF TakeDelete, TypeInv, QueueInv
    <3>3. \A m \in Waiting(queue') : ~(Creates(m) /\ m.conn = c)
      <4>1. \A m \in Waiting(queue') : Creates(m) => m \in Waiting(Tail(queue))
        BY <2>4, TakeDeleteWaiting DEF Creates
      <4> QED BY <3>1, <3>2, <4>1, DeletionIsLast DEF QueueInv, TypeInv
    <3>4. call'[Executor].pc = "drop"
      BY <2>4 DEF TakeDelete, Become, Deploy, TypeInv, Actor
    <3>5. ~Expected(c)'
      BY <3>3, <3>4 DEF Expected, Waiting, Creates, At
    <3> QED BY <2>1, <3>2, <3>5
  <2>5. CASE TakeUpdate \/ DeleteDataSource \/ TakeRemove \/ TakeReplace \/ Snapshot
    BY <2>5 DEF TakeUpdate, DeleteDataSource, TakeRemove, TakeReplace, Snapshot
  <2> QED BY <1>2, <2>2, <2>3, <2>4, <2>5 DEF Tasks
<1>3. ASSUME NEW l \in Load, Loading(l)
      PROVE  UNCHANGED <<made, gone>> /\ ddl[c] # NoRow /\ ddl'[c] \in Ddl
  <2>1. CommitStore(l)
    BY <1>3 DEF Loading, LoadStep, FinishLoad, AbandonLoad, ExportSchema, FailToExport,
                ReadForStore, ConflictAtStore, FailAtStore
  <2>2. ddl' = [ddl EXCEPT ![job[l].conn] = job[l].ddl]
    BY <2>1 DEF CommitStore, RowOf
  <2>3. ddl[job[l].conn] # NoRow /\ job[l].ddl \in Ddl
    BY <2>1 DEF CommitStore, StoreInv, CanCommit, HasResult, JobAt
  <2> QED BY <1>3, <2>2, <2>3 DEF Loading, TypeInv
<1>4. CASE UNCHANGED ddl
  BY <1>4
<1> QED BY <1>2, <1>3, <1>4 DEF Next, vars, World, Synchronize, Requests, Refresh, Restart,
                                Deploying

\* What Syndesis says of a connection; the rows stay as they are.
LEMMA WantedStep ==
  ASSUME TypeInv, [Next]_vars, NEW c \in Conn, Wanted(c)' # Wanted(c)
  PROVE  /\ UNCHANGED ddl
         /\ \/ Wanted(c) = "new" /\ Wanted(c)' = "announced"
            \/ Wanted(c) = "announced" /\ Wanted(c)' = "dropped"
<1>1. PICK d \in Conn : (ChangeSource(d) \/ Connect(d) \/ Update(d) \/ Disconnect(d)) /\ UNCHANGED ddl
  BY DEF Next, vars, World, Synchronize, Requests, Tasks, Refresh, Restart, Deploying, Loading,
         Wanted
<1>2. CASE Connect(d)
  BY <1>1, <1>2 DEF Connect, Wanted, TypeInv
<1>3. CASE Disconnect(d)
  BY <1>1, <1>3 DEF Disconnect, Wanted, TypeInv
<1> QED BY <1>1, <1>2, <1>3 DEF ChangeSource, Update, Wanted

LEMMA PhaseFacts ==
  ASSUME TypeInv, NEW c \in Conn
  PROVE  /\ ddl[c] = NoRow => Phase(c) = IF c \in gone /\ ~Expected(c) THEN "deleted" ELSE "none"
         /\ ddl[c] = Unloaded => Phase(c) = "unloaded"
         /\ ddl[c] \in Ddl => Phase(c) = "loaded"
         /\ ddl[c] \in Ddl \union {NoRow, Unloaded}
<1>1. NoRow # Unloaded /\ NoRow \notin Ddl /\ Unloaded \notin Ddl
  BY DEF NoRow, Unloaded, Ddl
<1>2. ddl[c] \in Ddl \union {NoRow, Unloaded}
  BY DEF TypeInv, AnyRow, RowTexts
<1> QED BY <1>1, <1>2 DEF Phase

LEMMA StepOfOne ==
  ASSUME TypeInv, MadeInv, StoreInv, QueueInv, [Next]_vars, NEW c \in Conn
  PROVE  Schemas!LifeStep(c)
<1>0. TypeInv'
  BY NextTypes
<1> DEFINE w  == [d \in Conn |-> Wanted(d)]
           p  == [d \in Conn |-> Phase(d)]
<1>1. w[c] = Wanted(c) /\ w'[c] = Wanted(c)' /\ p[c] = Phase(c) /\ p'[c] = Phase(c)'
  OBVIOUS
<1>2. Phase(c)' = IF ddl'[c] = Unloaded THEN "unloaded"
                  ELSE IF ddl'[c] # NoRow THEN "loaded"
                       ELSE IF c \in gone' /\ ~Expected(c)' THEN "deleted" ELSE "none"
  BY DEF Phase
<1>3. NoRow # Unloaded /\ NoRow \notin Ddl /\ Unloaded \notin Ddl
  BY DEF NoRow, Unloaded, Ddl
<1>4. CASE ddl'[c] # ddl[c]
  <2>1. UNCHANGED <<made, gone>> /\ Wanted(c)' = Wanted(c)
    BY <1>4, RowStep DEF Wanted
  <2>2. CASE ddl[c] = NoRow /\ ddl'[c] = Unloaded /\ c \in made /\ Expected(c)
    <3>1. Wanted(c) # "new" /\ Phase(c) = "none" /\ Phase(c)' = "unloaded"
      BY <1>2, <2>2, PhaseFacts DEF Wanted
    <3> QED BY <1>1, <2>1, <3>1 DEF Schemas!LifeStep, Schemas!Create, Schemas!Heard
  <2>3. CASE ddl'[c] = NoRow /\ c \in gone /\ ~Expected(c)'
    <3>1. Wanted(c) = "dropped" /\ Phase(c)' = "deleted"
      BY <1>2, <1>3, <2>1, <2>3 DEF Wanted
    <3> QED BY <1>1, <2>1, <3>1 DEF Schemas!LifeStep, Schemas!Delete, Schemas!Heard
  <2>4. CASE ddl[c] # NoRow /\ ddl'[c] \in Ddl
    <3>1. Phase(c) \in {"unloaded", "loaded"} /\ Phase(c)' = "loaded"
      BY <1>2, <1>3, <2>4, PhaseFacts
    <3> QED BY <1>1, <2>1, <3>1
            DEF Schemas!LifeStep, Schemas!Store, Schemas!Heard, Schemas!Keeps
  <2> QED BY <1>4, <2>2, <2>3, <2>4, RowStep
<1>5. CASE ddl'[c] = ddl[c]
  <2>1. CASE ddl[c] # NoRow
    <3>1. Phase(c)' = Phase(c)
      BY <1>2, <1>5, <2>1 DEF Phase
    <3> QED BY <1>1, <3>1, WantedStep
            DEF Schemas!LifeStep, Schemas!Announce, Schemas!Drop, Schemas!Heard, Schemas!Keeps
  <2>2. CASE ddl[c] = NoRow
    <3>1. Phase(c) = IF c \in gone /\ ~Expected(c) THEN "deleted" ELSE "none"
      BY <2>2, PhaseFacts
    <3>2. Phase(c)' = IF c \in gone' /\ ~Expected(c)' THEN "deleted" ELSE "none"
      BY <1>2, <1>3, <1>5, <2>2
    <3>3. CASE Wanted(c)' = Wanted(c)
      <4>1. c \in gone' => Wanted(c) = "dropped"
        BY <3>3 DEF Wanted
      <4>2. c \in gone => c \in gone' /\ (Expected(c)' => Expected(c))
        BY GoneGrows, ExpectedFades
      <4>3. Phase(c)' = Phase(c) \/ (Wanted(c) = "dropped" /\ Phase(c)' = "deleted")
        BY <3>1, <3>2, <4>1, <4>2
      <4> QED BY <1>1, <3>3, <4>3
              DEF Schemas!LifeStep, Schemas!Delete, Schemas!Heard, Schemas!Keeps
    <3>4. CASE Wanted(c) = "new" /\ Wanted(c)' = "announced"
      <4>1. c \notin gone /\ c \notin gone'
        BY <3>4 DEF Wanted
      <4> QED BY <1>1, <3>1, <3>2, <3>4, <4>1
              DEF Schemas!LifeStep, Schemas!Announce, Schemas!Keeps
    <3>5. CASE Wanted(c) = "announced" /\ Wanted(c)' = "dropped"
      <4>1. c \notin gone
        BY <3>5 DEF Wanted
      <4> QED BY <1>1, <3>1, <3>2, <3>5, <4>1 DEF Schemas!LifeStep, Schemas!Drop, Schemas!Keeps
    <3> QED BY <3>3, <3>4, <3>5, WantedStep
  <2> QED BY <2>1, <2>2
<1> QED BY <1>4, <1>5

\* The queue, the threads that store late and the restarts implement the one life
\* of each row: created after its announcement, deleted after its deletion, never
\* lost or emptied in between and never made again.
THEOREM RowsLiveOnce == Spec => SchemasLiveOnce
<1>1. Init => Schemas!LifeInit
  BY DEF Init, Schemas!LifeInit, Wanted, Phase, NoRow, Unloaded
<1>2. TypeInv /\ MadeInv /\ StoreInv /\ QueueInv /\ [Next]_vars =>
          [Schemas!LifeNext]_(Schemas!lifeVars)
  BY StepOfOne DEF Schemas!LifeNext
<1>3. TypeInv /\ MadeInv /\ StoreInv /\ QueueInv /\ [Next]_vars =>
          TypeInv' /\ MadeInv' /\ StoreInv' /\ QueueInv'
  BY NextTypes, NextMade, NextStore, NextQueue
<1> QED BY <1>1, <1>2, <1>3, InitTypes, InitMade, InitStore, InitQueue, PTL
        DEF Spec, SchemasLiveOnce, Schemas!Lifecycle
=============================================================================
