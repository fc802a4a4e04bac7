---------------------------- MODULE Connections ----------------------------
(***************************************************************************)
(* How the connections of Syndesis become data sources of the server:      *)
(* SyndesisConnectionMonitor receives their events over a web socket,      *)
(* SyndesisConnectionSynchronizer handles them, and TeiidOpenShiftClient   *)
(* keeps the objects it has read in a cache.                               *)
(*                                                                         *)
(* Everything but the socket's callbacks runs on connectionExecutor, which *)
(* has one thread; its tasks interleave with Syndesis, with the threads    *)
(* that publish virtualizations (see Publisher) and with the database.     *)
(* The virtual databases of a data source are not part of this module.     *)
(***************************************************************************)
EXTENDS Integers, Sequences, FiniteSets

CONSTANTS
    Conn,          \* ids of Syndesis connections; an id is never used again
    Name,          \* names of data sources, at least one for each connection
    Null,
    SyndesisName,  \* Conn -> the name its users gave it, stripped
    Socket,        \* web sockets
    MaxVersion,    \* bound: versions of the properties of a connection
    MaxChanges,    \* bound: connections made, updated and deleted
    MaxFaults,     \* bound: failing calls to Syndesis and the database
    MaxBreaks,     \* bound: web sockets that fail
    MaxRestarts    \* bound: restarts of the server

ASSUME ConnectionsAssumption ==
    /\ Null \notin Name \union Conn
    /\ SyndesisName \in [Conn -> Name]
    /\ IsFiniteSet(Socket)
    /\ MaxVersion \in Nat \ {0}
    /\ MaxChanges \in Nat
    /\ MaxFaults \in Nat
    /\ MaxBreaks \in Nat
    /\ MaxRestarts \in Nat

VARIABLES
    made,       \* connections ever created
    remote,     \* connection -> the version Syndesis holds (0: none)
    pending,    \* connections a publish run has made, their id not yet stored
    socket,     \* web socket -> its state
    connected,  \* SyndesisConnectionMonitor.connected
    queue,      \* messages that wait in connectionExecutor
    alive,      \* whether the periodic synchronization is still scheduled
    task,       \* the running call of the synchronizer
    adds,       \* what it has still to add: items
    item,       \* the item it is adding, past the check for a virtualization
    dels,       \* connections it has still to delete
    unread,     \* connections its fetch failed to read
    cache,      \* syndesisSources: connection -> DefaultSyndesisDataSource
    rows,       \* connection -> the name in its row of SourceSchema
    dvSource,   \* connections some DataVirtualization has as its sourceId
    ds,         \* name -> the registered data source
    changes, faults, breaks, restarts   \* used up so far of each bound

remoteVars == <<made, remote, pending>>
socketVars == <<socket, connected>>
workVars   == <<adds, item, dels, unread>>
taskVars   == <<task, workVars>>
localVars  == <<cache, rows, ds>>
vars == <<made, remote, pending, socket, connected, queue, alive, task, adds,
          item, dels, unread, cache, rows, dvSource, ds, changes, faults,
          breaks, restarts>>

-----------------------------------------------------------------------------
Version == 1..MaxVersion

\* A DefaultSyndesisDataSource: the version it was built from and its teiidName.
Source   == [version : Version, name : Name \union {Null}]
NoSource == [version |-> 0, name |-> Null]

\* What is to be added: a connection, the object that stands for it, and whether
\* that very object is in the cache (setTeiidName then names both).
Item   == [conn : Conn, source : Source, cached : BOOLEAN]
NoItem == [conn |-> Null, source |-> NoSource, cached |-> FALSE]

\* An entry of the server's data sources.
DataSource   == [conn : Conn, version : Version]
NoDataSource == [conn |-> Null, version |-> 0]

Message == [kind : {"connected"}, conn : {Null}] \union
           [kind : {"created", "updated", "deleted"}, conn : Conn]

\* "fetch": the connections are yet to be read; "replace": the old data source
\* of the item is yet to be removed; else "run".
Task == [pc : {"fetch", "run", "replace"}, update : BOOLEAN, periodic : BOOLEAN]
Synchronize(update, periodic) ==
    [pc |-> "fetch", update |-> update, periodic |-> periodic]
Handle(update) == [pc |-> "run", update |-> update, periodic |-> FALSE]

\* The thread of connectionExecutor has nothing in hand.
Idle == task.pc = "run" /\ adds = {} /\ item = NoItem /\ dels = {}

Init ==
    /\ made = {}
    /\ remote = [c \in Conn |-> 0]
    /\ pending = {}
    /\ socket = [s \in Socket |-> "none"]
    /\ connected = FALSE
    /\ queue = <<>>
    /\ alive = TRUE
    /\ task = Handle(FALSE)
    /\ adds = {}
    /\ item = NoItem
    /\ dels = {}
    /\ unread = {}
    /\ cache = [c \in Conn |-> NoSource]
    /\ rows = [c \in Conn |-> Null]
    /\ dvSource = {}
    /\ ds = [n \in Name |-> NoDataSource]
    /\ changes = 0
    /\ faults = 0
    /\ breaks = 0
    /\ restarts = 0

Fault   == faults < MaxFaults /\ faults' = faults + 1
NoFault == UNCHANGED faults

-----------------------------------------------------------------------------
\* Syndesis and its users. A change is announced on every open web socket.

Announce(kind, c) ==
    queue' = queue \o [i \in 1..Cardinality({s \in Socket : socket[s] = "open"})
                         |-> [kind |-> kind, conn |-> c]]

\* A connection is made by a user, or by the POST of a publish run.
CreateConnection(c) ==
    /\ c \notin made
    /\ made' = made \union {c}
    /\ remote' = [remote EXCEPT ![c] = 1]
    /\ pending' \in {pending, pending \union {c}}
    /\ Announce("created", c)

UpdateConnection(c) ==
    /\ remote[c] \in 1..(MaxVersion - 1)
    /\ remote' = [remote EXCEPT ![c] = @ + 1]
    /\ Announce("updated", c)
    /\ UNCHANGED <<made, pending>>

DeleteConnection(c) ==
    /\ remote[c] # 0
    /\ remote' = [remote EXCEPT ![c] = 0]
    /\ Announce("deleted", c)
    /\ UNCHANGED <<made, pending>>

Syndesis ==
    /\ changes < MaxChanges
    /\ changes' = changes + 1
    /\ \E c \in Conn :
          CreateConnection(c) \/ UpdateConnection(c) \/ DeleteConnection(c)
    /\ UNCHANGED <<socketVars, alive, taskVars, localVars, dvSource, faults,
                   breaks, restarts>>

-----------------------------------------------------------------------------
\* The threads that publish virtualizations.

\* createSyndesisConnection stores the id that its POST returned, unless the
\* virtualization is gone or a SourceSchema has taken the id: both are rows of
\* data_virtualization, where source_id is unique.
SaveSource(c) ==
    /\ c \in pending
    /\ pending' = pending \ {c}
    /\ \/ rows[c] = Null /\ dvSource' = dvSource \union {c}
       \/ UNCHANGED dvSource
    /\ UNCHANGED cache

\* A virtualization is deleted; its connection stays in Syndesis.
DropDataVirtualization(c) ==
    /\ c \in dvSource
    /\ dvSource' = dvSource \ {c}
    /\ UNCHANGED <<pending, cache>>

\* buildSyndesisDataSource: a new object, with the name of the row if there is one.
Built(c) == [version |-> remote[c], name |-> rows[c]]

\* It goes into the cache unless an object for the connection is there.
PutIfAbsent(read) ==
    cache' = [c \in Conn |-> IF c \in read /\ cache[c] = NoSource THEN Built(c)
                             ELSE cache[c]]

\* getSyndesisDataSource for a source of the virtualization to be published.
GetSource(c) ==
    /\ \E n \in Name : ds[n].conn = c
    /\ remote[c] # 0
    /\ PutIfAbsent({c})
    /\ UNCHANGED <<pending, dvSource>>

Publishing ==
    /\ \E c \in Conn : SaveSource(c) \/ DropDataVirtualization(c) \/ GetSource(c)
    /\ UNCHANGED <<made, remote, socketVars, queue, alive, taskVars, rows, ds,
                   changes, faults, breaks, restarts>>

-----------------------------------------------------------------------------
\* SyndesisConnectionMonitor: the web socket.

\* connect(), scheduled every 15 seconds. It returns before the socket is open;
\* a reservation that fails leaves all as it is.
Connect ==
    /\ Idle
    /\ ~connected
    /\ \E s \in Socket :
          /\ socket[s] = "none"
          /\ socket' = [socket EXCEPT ![s] = "opening"]
    /\ UNCHANGED <<connected, queue, breaks>>

\* Syndesis accepts the socket and says "connected" on it.
Opened(s) ==
    /\ socket[s] = "opening"
    /\ socket' = [socket EXCEPT ![s] = "open"]
    /\ queue' = Append(queue, [kind |-> "connected", conn |-> Null])
    /\ UNCHANGED <<connected, breaks>>

\* The network fails: a socket is not opened, or what Syndesis announces on it
\* is lost from now on.
Break(s) ==
    /\ breaks < MaxBreaks
    /\ breaks' = breaks + 1
    /\ \/ socket[s] = "opening" /\ socket' = [socket EXCEPT ![s] = "refused"]
       \/ socket[s] = "open" /\ socket' = [socket EXCEPT ![s] = "broken"]
    /\ UNCHANGED <<connected, queue>>

\* onClosing, onClosed or onFailure, whether or not another socket is open.
Notice(s) ==
    /\ socket[s] \in {"refused", "broken"}
    /\ socket' = [socket EXCEPT ![s] = "none"]
    /\ connected' = FALSE
    /\ UNCHANGED <<queue, breaks>>

SocketStep ==
    /\ \/ Connect
       \/ \E s \in Socket : Opened(s) \/ Break(s) \/ Notice(s)
    /\ UNCHANGED <<remoteVars, alive, taskVars, localVars, dvSource, changes,
                   faults, restarts>>

-----------------------------------------------------------------------------
\* connectionExecutor: the tasks and the calls of the synchronizer.

\* Faulty: the periodic task does not update what is there.
PeriodicWithoutUpdate ==
    /\ Idle
    /\ alive
    /\ connected
    /\ task' = Synchronize(FALSE, TRUE)
    /\ unread' = {}
    /\ UNCHANGED <<connected, queue, alive, adds, item, dels, localVars, faults>>

\* The task that runs every five minutes, if it is still scheduled.
Periodic ==
    /\ Idle
    /\ alive
    /\ connected
    /\ task' = Synchronize(TRUE, TRUE)
    /\ unread' = {}
    /\ UNCHANGED <<connected, queue, alive, adds, item, dels, localVars, faults>>

\* Faulty: a connection that Syndesis has not got is taken for one that it has.
HandleAddMissing(c, update) ==
    /\ task' = Handle(update)
    /\ LET source == IF cache[c] # NoSource THEN cache[c] ELSE Built(c) IN
         /\ adds' = {[conn |-> c, source |-> source, cached |-> TRUE]}
         /\ cache' = [cache EXCEPT ![c] = source]
    /\ UNCHANGED <<connected, dels, faults>>

\* handleConnectionEvent for created and updated. The object in the cache is
\* used if there is one; else Syndesis is asked, which may not have it any more.
HandleAdd(c, update) ==
    /\ task' = Handle(update)
    /\ \/ /\ cache[c] # NoSource
          /\ adds' = {[conn |-> c, source |-> cache[c], cached |-> TRUE]}
          /\ UNCHANGED cache
          /\ NoFault
       \/ /\ cache[c] = NoSource
          /\ remote[c] # 0
          /\ adds' = {[conn |-> c, source |-> Built(c), cached |-> TRUE]}
          /\ PutIfAbsent({c})
          /\ NoFault
       \/ /\ cache[c] = NoSource
          /\ \/ remote[c] = 0 /\ NoFault
             \/ Fault
          /\ UNCHANGED <<adds, cache>>
    /\ UNCHANGED <<connected, dels>>

\* handleMessage takes the next message.
Take ==
    /\ Idle
    /\ queue # <<>>
    /\ queue' = Tail(queue)
    /\ unread' = {}
    /\ LET m == Head(queue) IN
         \/ /\ m.kind = "connected"
            /\ connected' = TRUE
            /\ task' = Synchronize(FALSE, FALSE)
            /\ UNCHANGED <<adds, dels, cache, faults>>
         \/ m.kind = "created" /\ HandleAdd(m.conn, FALSE)
         \/ m.kind = "updated" /\ HandleAdd(m.conn, TRUE)
         \/ /\ m.kind = "deleted"
            /\ dels' = {m.conn}
            /\ task' = Handle(FALSE)
            /\ UNCHANGED <<connected, adds, cache, faults>>
    /\ UNCHANGED <<alive, item, rows, ds>>

\* An exception ends the call. The periodic task survives a KException only: a
\* RuntimeException cancels it, as scheduleAtFixedRate does.
Abort(survives) ==
    /\ task' = Handle(FALSE)
    /\ adds' = {}
    /\ item' = NoItem
    /\ dels' = {}
    /\ unread' = {}
    /\ alive' = (alive /\ (survives \/ ~task.periodic))

\* The connections of the data sources there are.
Existing == {ds[n].conn : n \in Name} \ {Null}

\* Faulty: what is still in Syndesis is not taken out.
RemovedAll(read) == Existing

\* What synchronizeConnections will delete.
Removed(read) == Existing \ read

\* A call of synchronizeConnections whose list of connections lacks those in bad.
\* The map of the existing data sources cannot be made of two for a connection.
FetchAllBut(bad) ==
    LET read == {c \in Conn \ bad : remote[c] # 0} IN
    /\ PutIfAbsent(read)
    /\ IF \E n1, n2 \in Name : n1 # n2 /\ ds[n1].conn = ds[n2].conn
                               /\ ds[n1].conn # Null
       THEN Abort(FALSE)
       ELSE /\ task' = [task EXCEPT !.pc = "run"]
            /\ adds' = {[conn |-> c, source |-> Built(c),
                         cached |-> cache[c] = NoSource] : c \in read}
            /\ dels' = Removed(read)
            /\ unread' = bad
            /\ UNCHANGED <<alive, item>>

\* getSyndesisSources and what synchronizeConnections makes of it. A connection
\* whose properties cannot be read is left out of the list.
Fetch ==
    /\ task.pc = "fetch"
    /\ \/ FetchAllBut({}) /\ NoFault
       \/ /\ Fault
          /\ \E c \in Conn : remote[c] # 0 /\ FetchAllBut({c})
       \/ Abort(TRUE) /\ UNCHANGED cache /\ Fault
    /\ UNCHANGED <<connected, queue, rows, ds>>

\* addConnection, its test for the connection of a virtualization. The database
\* may throw a RuntimeException, which nothing in the synchronizer catches.
AddCheck ==
    /\ task.pc = "run"
    /\ item = NoItem
    /\ \E i \in adds :
         \/ /\ adds' = adds \ {i}
            /\ IF i.conn \in dvSource
               THEN UNCHANGED <<task, item>>
               ELSE /\ item' = i
                    /\ task' = [task EXCEPT !.pc = IF task.update THEN "replace"
                                                   ELSE "run"]
            /\ UNCHANGED <<alive, dels, unread>>
            /\ NoFault
         \/ Abort(FALSE) /\ Fault
    /\ UNCHANGED <<connected, queue, localVars>>

\* Faulty: the object stays in the cache.
RemoveDataSourceOnly(c, source) ==
    /\ ds' = [n \in Name |-> IF n = source.name THEN NoDataSource ELSE ds[n]]
    /\ UNCHANGED cache

\* deleteDataSource: the entry under the name of the object goes, if it has a
\* name, and the connection leaves the cache.
RemoveDataSource(c, source) ==
    /\ ds' = [n \in Name |-> IF n = source.name THEN NoDataSource ELSE ds[n]]
    /\ cache' = [cache EXCEPT ![c] = NoSource]

\* addConnection, its deleteDataSource.
Replace ==
    /\ task.pc = "replace"
    /\ RemoveDataSource(item.conn, item.source)
    /\ item' = [item EXCEPT !.cached = FALSE]
    /\ task' = [task EXCEPT !.pc = "run"]
    /\ UNCHANGED <<connected, queue, alive, adds, dels, unread, rows, faults>>

\* Faulty: it is not asked whether the name is in use.
UniqueNameUnchecked(c) == IF rows[c] # Null THEN {rows[c]} ELSE {SyndesisName[c]}

\* getUniqueKomodoName: the name in the row, or else the connection's own name
\* if no other row has it, or that name with a random suffix.
UniqueName(c) ==
    IF rows[c] # Null THEN {rows[c]}
    ELSE LET free == {n \in Name : \A d \in Conn : rows[d] # n} IN
         IF SyndesisName[c] \in free THEN {SyndesisName[c]} ELSE free

\* registerDataSource keeps an entry that is there.
RegisterDataSource(n) ==
    ds' = IF ds[n] # NoDataSource THEN ds
          ELSE [ds EXCEPT ![n] = [conn |-> item.conn,
                                  version |-> item.source.version]]

\* The new name goes into a row, unless a virtualization has taken the id since
\* the check, and into the object, which may be the one in the cache.
StoreName(n) ==
    /\ item.conn \notin dvSource
    /\ rows' = [rows EXCEPT ![item.conn] = n]
    /\ cache' = [cache EXCEPT ![item.conn] =
                    IF item.cached THEN [@ EXCEPT !.name = n] ELSE @]

\* createDataSource. The creation of the data source may fail after all that.
Register ==
    /\ task.pc = "run"
    /\ item # NoItem
    /\ item' = NoItem
    /\ \/ /\ item.source.name # Null
          /\ RegisterDataSource(item.source.name)
          /\ UNCHANGED <<rows, cache>>
          /\ NoFault
       \/ /\ item.source.name = Null
          /\ \E n \in UniqueName(item.conn) :
               /\ StoreName(n)
               /\ \/ RegisterDataSource(n) /\ NoFault
                  \/ UNCHANGED ds /\ Fault
       \/ /\ \/ Fault
             \/ item.source.name = Null /\ item.conn \in dvSource /\ NoFault
          /\ UNCHANGED localVars
    /\ UNCHANGED <<connected, queue, alive, task, adds, dels, unread>>

\* deleteConnection, once all is added: only for an object in the cache. The
\* row stays if the database fails, the data source and the object go anyway.
Delete ==
    /\ task.pc = "run"
    /\ adds = {}
    /\ item = NoItem
    /\ \E c \in dels :
         /\ dels' = dels \ {c}
         /\ IF cache[c] = NoSource
            THEN UNCHANGED <<localVars, faults>>
            ELSE /\ RemoveDataSource(c, cache[c])
                 /\ \/ rows' = [rows EXCEPT ![c] = Null] /\ NoFault
                    \/ UNCHANGED rows /\ Fault
    /\ UNCHANGED <<connected, queue, alive, task, adds, item, unread>>

ExecutorStep ==
    /\ Take \/ Fetch \/ AddCheck \/ Replace \/ Register \/ Delete
    /\ UNCHANGED <<remoteVars, socket, dvSource, changes, breaks, restarts>>

PeriodicStep ==
    /\ Periodic
    /\ UNCHANGED <<remoteVars, socket, dvSource, changes, breaks, restarts>>

\* The server restarts: the database keeps the rows, nothing else survives.
Restart ==
    /\ restarts < MaxRestarts
    /\ restarts' = restarts + 1
    /\ pending' = {}
    /\ socket' = [s \in Socket |-> "none"]
    /\ connected' = FALSE
    /\ queue' = <<>>
    /\ alive' = TRUE
    /\ task' = Handle(FALSE)
    /\ adds' = {} /\ item' = NoItem /\ dels' = {} /\ unread' = {}
    /\ cache' = [c \in Conn |-> NoSource]
    /\ ds' = [n \in Name |-> NoDataSource]
    /\ UNCHANGED <<made, remote, rows, dvSource, changes, faults, breaks>>

Next ==
    \/ Syndesis
    \/ Publishing
    \/ SocketStep
    \/ PeriodicStep
    \/ ExecutorStep
    \/ Restart

Spec == Init /\ [][Next]_vars

\* The executor's thread runs what is queued and scheduled, and a web socket
\* opens or is refused, within the time-outs of its handshake. One that breaks
\* later may stay unnoticed: no ping is configured.
Fairness ==
    /\ WF_vars(ExecutorStep)
    /\ WF_vars(PeriodicStep)
    /\ WF_vars(SocketStep /\ Connect)
    /\ \A s \in Socket : WF_vars(SocketStep /\ Opened(s))
    /\ \A s \in Socket : WF_vars(SocketStep /\ Notice(s) /\ socket[s] = "refused")

FairSpec == Spec /\ Fairness

-----------------------------------------------------------------------------
\* Properties.

RemoteOK ==
    /\ made \subseteq Conn
    /\ remote \in [Conn -> 0..MaxVersion]
    /\ pending \subseteq Conn
    /\ dvSource \subseteq Conn

MonitorOK ==
    /\ socket \in [Socket -> {"none", "opening", "refused", "open", "broken"}]
    /\ connected \in BOOLEAN
    /\ queue \in Seq(Message)
    /\ alive \in BOOLEAN

TaskOK ==
    /\ task \in Task
    /\ adds \subseteq Item
    /\ item \in Item \union {NoItem}
    /\ dels \subseteq Conn
    /\ unread \subseteq Conn

LocalOK ==
    /\ cache \in [Conn -> Source \union {NoSource}]
    /\ rows \in [Conn -> Name \union {Null}]
    /\ ds \in [Name -> DataSource \union {NoDataSource}]

BoundsOK ==
    /\ changes \in 0..MaxChanges
    /\ faults \in 0..MaxFaults
    /\ breaks \in 0..MaxBreaks
    /\ restarts \in 0..MaxRestarts

\* Every variable keeps its shape: no object is built from a connection that
\* Syndesis does not have, no item is added without an object.
TypeOK == RemoteOK /\ MonitorOK /\ TaskOK /\ LocalOK /\ BoundsOK

\* The name in a cached object is the one in the connection's row, so that what
\* is removed under it, after any number of updates, deletions and failures, is
\* never filed under a name that has meanwhile gone to another connection.
CachedNameIsStored ==
    \A c \in Conn : cache[c].name # Null => cache[c].name = rows[c]

\* As long as every cached object has the name that its connection's row has, each
\* name serves one connection: a data source is registered under the name in the row
\* of its connection, which no other row has.  (An object that was cached before the
\* row had a name removes nothing; the next connection of that name is then served
\* by the data source left behind, and the one left behind may get a second name.)
CacheIsNamed ==
    \A c \in Conn : cache[c] # NoSource /\ rows[c] # Null => cache[c].name = rows[c]
OwnName ==
    \A n \in Name : ds[n] # NoDataSource =>
        \A c \in Conn : rows[c] = n <=> c = ds[n].conn
NamesServeOwn == []CacheIsNamed => []OwnName

\* The schema of a connection is deleted only if Syndesis has dropped it or the
\* running synchronization could not read it: neither an old list of
\* connections nor an event that comes late takes the schema of a live one.
SchemaKept ==
    [][\A c \in Conn : rows[c] # Null /\ rows'[c] = Null =>
          remote[c] = 0 \/ c \in unread]_vars

\* Every connection of Syndesis that is not a virtualization's own is a data
\* source, under the name in its row and with the properties Syndesis has now.
UpToDate ==
    \A c \in Conn : remote[c] # 0 /\ c \notin dvSource =>
        /\ rows[c] # Null
        /\ ds[rows[c]] = [conn |-> c, version |-> remote[c]]

\* Whatever events are lost, doubled or handled with an object from the cache,
\* the periodic synchronization brings the data sources up to date in the end,
\* as long as no RuntimeException has cancelled it.
Converges == <>[](alive /\ Idle => UpToDate)

\* "the datasource is already deleted from the syndesis so we would need to
\* search by local cached event id": a deleted connection is found in the cache
\* and its data source removed.
DeletedIsRemoved == <>[](\A n \in Name : ds[n] # NoDataSource => remote[ds[n].conn] # 0)

\* "avoid circular creation of the virtualization connection that is published
\* through syndesis": a connection that a publish run is making is no source.
NoCircularSource == \A c \in pending : rows[c] = Null
=============================================================================
