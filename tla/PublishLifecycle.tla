-------------------------- MODULE PublishLifecycle --------------------------
(***************************************************************************)
(* What publishing promises of one request, without threads, queues or a   *)
(* cluster: the request goes through the values of BuildStatus.Status in   *)
(* order, someone watches it until it has ended, and a request nobody      *)
(* watches any more never changes again. A watcher may give up on a        *)
(* request, but not before it has been configured.                         *)
(***************************************************************************)
CONSTANT Request

VARIABLES
    state,     \* request -> its BuildStatus.Status
    watched    \* the requests the monitor looks after

lifeVars == <<state, watched>>

LifeInit == state = [r \in Request |-> "NOTFOUND"] /\ watched = {}

Accept(r) ==
    /\ state[r] = "NOTFOUND"
    /\ state' = [state EXCEPT ![r] = "SUBMITTED"]
    /\ watched' = watched \union {r}

\* The request moves on and is still watched.
Advances == {<<"SUBMITTED", "CONFIGURING">>, <<"CONFIGURING", "BUILDING">>,
             <<"CONFIGURING", "FAILED">>, <<"BUILDING", "DEPLOYING">>}

\* The request moves on and has ended.
Ends == {<<"BUILDING", "CANCELLED">>, <<"BUILDING", "FAILED">>,
         <<"DEPLOYING", "FAILED">>, <<"DEPLOYING", "RUNNING">>}

Advance(r) ==
    /\ r \in watched
    /\ \E edge \in Advances :
         state[r] = edge[1] /\ state' = [state EXCEPT ![r] = edge[2]]
    /\ UNCHANGED watched

End(r) ==
    /\ r \in watched
    /\ \E edge \in Ends :
         state[r] = edge[1] /\ state' = [state EXCEPT ![r] = edge[2]]
    /\ watched' = watched \ {r}

\* The watcher stops: the request had failed, or a call to the cluster did;
\* deploying it may just have begun.
GiveUp(r) ==
    /\ r \in watched
    /\ \/ state[r] \in {"BUILDING", "DEPLOYING", "FAILED"} /\ UNCHANGED state
       \/ state[r] = "BUILDING" /\ state' = [state EXCEPT ![r] = "DEPLOYING"]
    /\ watched' = watched \ {r}

\* A restart forgets every request.
Forget == state' = [r \in Request |-> "NOTFOUND"] /\ watched' = {}

LifeNext ==
    \/ \E r \in Request : Accept(r) \/ Advance(r) \/ End(r) \/ GiveUp(r)
    \/ Forget

Lifecycle == LifeInit /\ [][LifeNext]_lifeVars
=============================================================================
