-------------------------- MODULE ConnectionsProofs --------------------------
(***************************************************************************)
(* Theorems about Connections, for any number of connections, names, web   *)
(* sockets, changes, faults and restarts.                                  *)
(***************************************************************************)
EXTENDS Connections, FiniteSetTheorems, SequenceTheorems, TLAPS

USE ConnectionsAssumption DEF remoteVars, socketVars, workVars, taskVars, localVars

-----------------------------------------------------------------------------
(* Messages and records.                                                   *)

LEMMA MessageTypes ==
  /\ [kind |-> "connected", conn |-> Null] \in Message
  /\ \A kind \in {"created", "updated", "deleted"}, c \in Conn :
        [kind |-> kind, conn |-> c] \in Message
  /\ \A m \in Message :
        /\ m.kind \in {"connected", "created", "updated", "deleted"}
        /\ m.kind # "connected" => m.conn \in Conn
  /\ <<>> \in Seq(Message)
<1>1. <<>> \in Seq(Message)
  BY EmptySeq
<1> QED BY <1>1 DEF Message

\* What the announcement of a change does to the queue.
LEMMA AnnounceQueue ==
  ASSUME TypeOK, NEW kind \in {"created", "updated", "deleted"}, NEW c \in Conn,
         Announce(kind, c)
  PROVE  /\ queue' \in Seq(Message)
         /\ Len(queue') >= Len(queue)
         /\ \A i \in 1..Len(queue) : queue'[i] = queue[i]
         /\ \A i \in 1..Len(queue') :
               i \in 1..Len(queue) \/ queue'[i] = [kind |-> kind, conn |-> c]
<1> DEFINE open == {s \in Socket : socket[s] = "open"}
           m == [kind |-> kind, conn |-> c]
           new == [i \in 1..Cardinality(open) |-> m]
<1>1. Cardinality(open) \in Nat
  <2>1. IsFiniteSet(open)
    BY FS_Subset
  <2> QED BY <2>1, FS_CardinalityType
<1>2. queue \in Seq(Message)
  BY DEF TypeOK, MonitorOK
<1>3. m \in Message
  BY MessageTypes
<1>4. new \in Seq(Message) /\ Len(new) = Cardinality(open)
  BY <1>1, <1>3
<1>5. \A i \in 1..Len(new) : new[i] = m
  BY <1>1, <1>4
<1>6. queue' = queue \o new
  BY DEF Announce
<1> HIDE DEF new, m
<1>7. /\ queue \o new \in Seq(Message)
      /\ Len(queue \o new) = Len(queue) + Len(new)
      /\ \A i \in 1..(Len(queue) + Len(new)) :
            (queue \o new)[i] = IF i <= Len(queue) THEN queue[i]
                                ELSE new[i - Len(queue)]
  BY <1>2, <1>4, ConcatProperties
<1>8. Len(queue) \in Nat /\ Len(new) \in Nat
  BY <1>1, <1>2, <1>4
<1> QED BY <1>5, <1>6, <1>7, <1>8 DEF m

LEMMA TailQueue ==
  ASSUME TypeOK, queue # <<>>
  PROVE  /\ Head(queue) \in Message
         /\ Head(queue) = queue[1]
         /\ 1 \in 1..Len(queue)
         /\ Tail(queue) \in Seq(Message)
         /\ \A i \in 1..Len(Tail(queue)) : /\ i + 1 \in 1..Len(queue)
                                           /\ Tail(queue)[i] = queue[i + 1]
<1>1. queue \in Seq(Message)
  BY DEF TypeOK, MonitorOK
<1>2. Len(queue) \in Nat \ {0}
  BY <1>1
<1> QED BY <1>1, <1>2, HeadTailProperties

LEMMA TaskTypes ==
  /\ \A update, periodic \in BOOLEAN : Synchronize(update, periodic) \in Task
  /\ \A update \in BOOLEAN : Handle(update) \in Task /\ Handle(update).pc = "run"
  /\ \A t \in Task : /\ [t EXCEPT !.pc = "run"] \in Task
                     /\ [t EXCEPT !.pc = "run"].pc = "run"
                     /\ [t EXCEPT !.pc = "replace"] \in Task
BY DEF Synchronize, Handle, Task

\* Objects are built of connections that Syndesis has.
LEMMA BuiltType ==
  ASSUME TypeOK, NEW c \in Conn, remote[c] # 0
  PROVE  Built(c) \in Source
BY DEF TypeOK, RemoteOK, LocalOK, Built, Source, Version

LEMMA NoSourceType ==
  /\ NoSource \notin Source
  /\ NoSource.name = Null
  /\ NoItem.source.name = Null
  /\ NoItem \notin Item
  /\ NoDataSource \notin DataSource
  /\ NoDataSource.conn = Null
BY DEF NoSource, Source, Version, NoItem, Item, NoDataSource, DataSource

LEMMA PutIfAbsentType ==
  ASSUME TypeOK, NEW read, \A c \in Conn \intersect read : remote[c] # 0,
         PutIfAbsent(read)
  PROVE  cache' \in [Conn -> Source \union {NoSource}]
<1>1. \A c \in Conn : c \in read => Built(c) \in Source
  BY BuiltType
<1> QED BY <1>1 DEF PutIfAbsent, TypeOK, LocalOK

-----------------------------------------------------------------------------
(* Type correctness. TypeOK alone is not inductive: a data source is only  *)
(* replaced for an item, and an object that setTeiidName reaches through   *)
(* the cache has to be there.                                              *)

ItemsOK ==
    /\ task.pc = "fetch" => adds = {} /\ item = NoItem /\ dels = {}
    /\ task.pc = "replace" => item # NoItem
    /\ item.cached => cache[item.conn] # NoSource
    /\ \A i \in adds : i.conn # item.conn /\ (i.cached => cache[i.conn] # NoSource)
    /\ \A i, j \in adds : i.conn = j.conn => i = j

TypeInv == TypeOK /\ ItemsOK

\* Objects are not taken out of the cache behind the executor's back.
LEMMA ItemsKept ==
  ASSUME TypeInv, UNCHANGED <<task, adds, item, dels>>,
         \A c \in Conn : cache[c] # NoSource => cache'[c] # NoSource
  PROVE  ItemsOK'
<1>1. \A i \in adds : i.conn \in Conn
  BY DEF TypeInv, TypeOK, TaskOK, Item
<1>2. item = NoItem \/ item.conn \in Conn
  BY DEF TypeInv, TypeOK, TaskOK, Item
<1>3. NoItem.cached = FALSE
  BY DEF NoItem
<1> QED BY <1>1, <1>2, <1>3 DEF TypeInv, ItemsOK

LEMMA PutIfAbsentKeeps ==
  ASSUME TypeOK, NEW read, PutIfAbsent(read)
  PROVE  /\ \A c \in Conn : cache[c] # NoSource => cache'[c] = cache[c]
         /\ \A c \in Conn \intersect read : remote[c] # 0 => cache'[c] # NoSource
<1>1. \A c \in Conn : cache'[c] = IF c \in read /\ cache[c] = NoSource THEN Built(c)
                                  ELSE cache[c]
  BY DEF PutIfAbsent
<1>2. \A c \in Conn : remote[c] # 0 => Built(c) # NoSource
  BY BuiltType, NoSourceType
<1> QED BY <1>1, <1>2

LEMMA InitTypeInv == Init => TypeInv
<1> SUFFICES ASSUME Init PROVE TypeInv
  OBVIOUS
<1> USE DEF Init
<1>1. RemoteOK /\ MonitorOK
  <2>1. queue \in Seq(Message) /\ connected \in BOOLEAN /\ alive \in BOOLEAN
    BY MessageTypes
  <2>2. socket \in [Socket -> {"none", "opening", "refused", "open", "broken"}]
    OBVIOUS
  <2>3. RemoteOK
    BY DEF RemoteOK
  <2> QED BY <2>1, <2>2, <2>3 DEF MonitorOK
<1>2. TaskOK /\ task.pc = "run"
  <2>1. task \in Task /\ task.pc = "run"
    BY TaskTypes
  <2> QED BY <2>1 DEF TaskOK
<1>3. LocalOK /\ BoundsOK
  BY DEF LocalOK, BoundsOK
<1>4. ItemsOK
  BY <1>2 DEF ItemsOK, NoItem
<1> QED BY <1>1, <1>2, <1>3, <1>4 DEF TypeInv, TypeOK

LEMMA SyndesisType == TypeInv /\ Syndesis => TypeInv'
<1> SUFFICES ASSUME TypeInv, Syndesis PROVE TypeInv'
  OBVIOUS
<1>0. TypeOK
  BY DEF TypeInv
<1>1. PICK c \in Conn : CreateConnection(c) \/ UpdateConnection(c) \/ DeleteConnection(c)
  BY DEF Syndesis
<1>2. queue' \in Seq(Message)
  BY <1>0, <1>1, AnnounceQueue DEF CreateConnection, UpdateConnection, DeleteConnection
<1>3. MonitorOK'
  BY <1>0, <1>2 DEF Syndesis, TypeOK, MonitorOK
<1>4. RemoteOK'
  <2>1. CASE CreateConnection(c)
    BY <1>0, <2>1 DEF CreateConnection, Syndesis, TypeOK, RemoteOK
  <2>2. CASE UpdateConnection(c)
    BY <1>0, <2>2 DEF UpdateConnection, Syndesis, TypeOK, RemoteOK
  <2>3. CASE DeleteConnection(c)
    BY <1>0, <2>3 DEF DeleteConnection, Syndesis, TypeOK, RemoteOK
  <2> QED BY <1>1, <2>1, <2>2, <2>3
<1>5. TaskOK' /\ ItemsOK'
  BY ItemsKept DEF TypeInv, Syndesis, TypeOK, TaskOK
<1>6. LocalOK' /\ BoundsOK'
  BY <1>0 DEF Syndesis, TypeOK, LocalOK, BoundsOK
<1> QED BY <1>3, <1>4, <1>5, <1>6 DEF TypeInv, TypeOK

LEMMA PublishingType == TypeInv /\ Publishing => TypeInv'
<1> SUFFICES ASSUME TypeInv, Publishing PROVE TypeInv'
  OBVIOUS
<1>0. TypeOK
  BY DEF TypeInv
<1>1. PICK c \in Conn : SaveSource(c) \/ DropDataVirtualization(c) \/ GetSource(c)
  BY DEF Publishing
<1>2. RemoteOK'
  BY <1>0, <1>1 DEF SaveSource, DropDataVirtualization, GetSource, Publishing, TypeOK, RemoteOK
<1>3. cache' \in [Conn -> Source \union {NoSource}]
  <2>1. CASE GetSource(c)
    BY <1>0, <2>1, PutIfAbsentType DEF GetSource
  <2>2. CASE UNCHANGED cache
    BY <1>0, <2>2 DEF TypeOK, LocalOK
  <2> QED BY <1>1, <2>1, <2>2 DEF SaveSource, DropDataVirtualization
<1>4. LocalOK'
  BY <1>0, <1>3 DEF Publishing, TypeOK, LocalOK
<1>5. MonitorOK' /\ TaskOK' /\ BoundsOK'
  BY DEF TypeInv, Publishing, TypeOK, MonitorOK, TaskOK, BoundsOK
<1>6. \A d \in Conn : cache[d] # NoSource => cache'[d] # NoSource
  BY <1>0, <1>1, PutIfAbsentKeeps DEF SaveSource, DropDataVirtualization, GetSource
<1>7. ItemsOK'
  BY <1>6, ItemsKept DEF Publishing
<1> QED BY <1>2, <1>4, <1>5, <1>7 DEF TypeInv, TypeOK

LEMMA SocketType == TypeInv /\ SocketStep => TypeInv'
<1> SUFFICES ASSUME TypeInv, SocketStep PROVE TypeInv'
  OBVIOUS
<1>0. TypeOK
  BY DEF TypeInv
<1>1. MonitorOK' /\ breaks' \in 0..MaxBreaks
  <2> USE DEF TypeOK, MonitorOK, BoundsOK
  <2>1. CASE Connect
    BY <1>0, <2>1 DEF Connect, SocketStep
  <2>2. ASSUME NEW s \in Socket, Opened(s) PROVE MonitorOK' /\ breaks' \in 0..MaxBreaks
    BY <1>0, <2>2, MessageTypes DEF Opened, SocketStep
  <2>3. ASSUME NEW s \in Socket, Break(s) PROVE MonitorOK' /\ breaks' \in 0..MaxBreaks
    BY <1>0, <2>3 DEF Break, SocketStep
  <2>4. ASSUME NEW s \in Socket, Notice(s) PROVE MonitorOK' /\ breaks' \in 0..MaxBreaks
    BY <1>0, <2>4 DEF Notice, SocketStep
  <2> QED BY <2>1, <2>2, <2>3, <2>4 DEF SocketStep
<1>2. RemoteOK' /\ TaskOK' /\ LocalOK' /\ BoundsOK'
  BY <1>1 DEF TypeInv, SocketStep, TypeOK, RemoteOK, TaskOK, LocalOK, BoundsOK
<1>3. ItemsOK'
  BY ItemsKept DEF SocketStep
<1> QED BY <1>1, <1>2, <1>3 DEF TypeInv, TypeOK

\* What the steps of the executor leave alone.
Frame == UNCHANGED <<remoteVars, socket, dvSource, changes, breaks, restarts>>

\* What they have to keep.
StepOK ==
    /\ TaskOK'
    /\ LocalOK'
    /\ ItemsOK'
    /\ queue' \in Seq(Message)
    /\ connected' \in BOOLEAN
    /\ alive' \in BOOLEAN

LEMMA StepSuffices ==
  ASSUME TypeInv, Frame, StepOK, Fault \/ NoFault
  PROVE  TypeInv'
<1>1. RemoteOK' /\ MonitorOK'
  BY DEF TypeInv, Frame, StepOK, TypeOK, RemoteOK, MonitorOK
<1>2. BoundsOK'
  BY DEF TypeInv, Frame, TypeOK, BoundsOK, Fault, NoFault
<1> QED BY <1>1, <1>2 DEF StepOK, TypeInv, TypeOK

LEMMA PeriodicType == TypeInv /\ PeriodicStep => TypeInv'
<1> SUFFICES ASSUME TypeInv, PeriodicStep PROVE TypeInv'
  OBVIOUS
<1>1. task' \in Task /\ task'.pc = "fetch"
  BY TaskTypes DEF PeriodicStep, Periodic, Synchronize
<1>2. ItemsOK'
  BY <1>1 DEF PeriodicStep, Periodic, Idle, ItemsOK, TypeInv
<1>3. StepOK
  BY <1>1, <1>2
  DEF PeriodicStep, Periodic, StepOK, TypeInv, TypeOK, TaskOK, LocalOK, MonitorOK
<1> QED BY <1>3, StepSuffices DEF PeriodicStep, Periodic, Frame, NoFault

LEMMA HandleAddType ==
  ASSUME TypeInv, NEW c \in Conn, NEW update \in BOOLEAN, HandleAdd(c, update), Idle
  PROVE  /\ task' \in Task /\ task'.pc = "run"
         /\ adds' \subseteq Item
         /\ cache' \in [Conn -> Source \union {NoSource}]
         /\ connected' \in BOOLEAN
         /\ dels' = {}
         /\ Fault \/ NoFault
         /\ \A i \in adds' : i.conn \in Conn /\ cache'[i.conn] # NoSource
         /\ \A i, j \in adds' : i.conn = j.conn => i = j
<1> USE DEF TypeInv
<1>1. task' \in Task /\ task'.pc = "run"
  BY TaskTypes DEF HandleAdd
<1>2. connected' \in BOOLEAN /\ dels' = {}
  BY DEF HandleAdd, Idle, TypeOK, MonitorOK
<1>3. Fault \/ NoFault
  BY DEF HandleAdd
<1>4. /\ adds' \subseteq Item
      /\ cache' \in [Conn -> Source \union {NoSource}]
      /\ \A i \in adds' : i.conn \in Conn /\ cache'[i.conn] # NoSource
      /\ \A i, j \in adds' : i.conn = j.conn => i = j
  <2>1. CASE /\ cache[c] # NoSource
             /\ adds' = {[conn |-> c, source |-> cache[c], cached |-> TRUE]}
             /\ UNCHANGED cache
    BY <2>1 DEF TypeOK, LocalOK, Item
  <2>2. CASE /\ remote[c] # 0
             /\ adds' = {[conn |-> c, source |-> Built(c), cached |-> TRUE]}
             /\ PutIfAbsent({c})
    <3>1. cache' \in [Conn -> Source \union {NoSource}]
      BY <2>2, PutIfAbsentType
    <3>2. Built(c) \in Source
      BY <2>2, BuiltType
    <3>3. cache'[c] # NoSource
      BY <2>2, PutIfAbsentKeeps
    <3> QED BY <2>2, <3>1, <3>2, <3>3 DEF Item
  <2>3. CASE UNCHANGED <<adds, cache>>
    BY <2>3 DEF TypeOK, TaskOK, LocalOK, Idle
  <2> QED BY <2>1, <2>2, <2>3 DEF HandleAdd
<1> QED BY <1>1, <1>2, <1>3, <1>4

LEMMA TakeType ==
  ASSUME TypeInv, Take
  PROVE  StepOK /\ (Fault \/ NoFault)
<1> DEFINE m == Head(queue)
<1>0. TypeOK /\ Idle
  BY DEF TypeInv, Take
<1>1. m \in Message /\ queue' \in Seq(Message)
  BY <1>0, TailQueue DEF Take
<1>2. /\ task' \in Task /\ task'.pc # "replace"
      /\ adds' \subseteq Item
      /\ dels' \subseteq Conn
      /\ cache' \in [Conn -> Source \union {NoSource}]
      /\ connected' \in BOOLEAN
      /\ Fault \/ NoFault
      /\ \A i \in adds' : i.conn \in Conn /\ cache'[i.conn] # NoSource
      /\ \A i, j \in adds' : i.conn = j.conn => i = j
  <2>1. CASE m.kind = "connected"
    <3>1. task' = Synchronize(FALSE, FALSE)
      BY <2>1 DEF Take
    <3>2. task' \in Task /\ task'.pc = "fetch"
      BY <3>1, TaskTypes DEF Synchronize
    <3> QED BY <2>1, <3>2 DEF Take, Idle, TypeInv, TypeOK, TaskOK, LocalOK, NoFault
  <2>2. CASE m.kind = "created" \/ m.kind = "updated"
    <3>1. m.conn \in Conn
      BY <1>1, <2>2, MessageTypes
    <3>2. HandleAdd(m.conn, TRUE) \/ HandleAdd(m.conn, FALSE)
      BY <2>2 DEF Take
    <3> QED BY <1>0, <3>1, <3>2, HandleAddType
  <2>3. CASE m.kind = "deleted"
    <3>1. m.conn \in Conn
      BY <1>1, <2>3, MessageTypes
    <3>2. task' \in Task /\ task'.pc = "run"
      BY <2>3, TaskTypes DEF Take
    <3> QED BY <2>3, <3>1, <3>2
            DEF Take, Idle, TypeInv, TypeOK, MonitorOK, TaskOK, LocalOK, NoFault
  <2> QED BY <1>1, <2>1, <2>2, <2>3, MessageTypes
<1> HIDE DEF m
<1>3. TaskOK' /\ LocalOK'
  BY <1>2 DEF Take, TypeInv, TypeOK, TaskOK, LocalOK
<1>4. ItemsOK'
  <2>1. item' = NoItem
    BY <1>0 DEF Take, Idle
  <2>2. NoItem.cached = FALSE /\ NoItem.conn = Null
    BY DEF NoItem
  <2>3. task'.pc = "fetch" => adds' = {} /\ dels' = {}
    <3>1. task' \in {Synchronize(FALSE, FALSE), Handle(FALSE), Handle(TRUE)}
      BY DEF Take, HandleAdd
    <3>2. CASE task' = Synchronize(FALSE, FALSE)
      <4>1. Head(queue).kind = "connected"
        BY <3>2 DEF Take, HandleAdd, Synchronize, Handle
      <4> QED BY <1>0, <4>1 DEF Take, Idle
    <3> QED BY <3>1, <3>2, TaskTypes
  <2> QED BY <1>2, <2>1, <2>2, <2>3 DEF ItemsOK
<1> QED BY <1>1, <1>2, <1>3, <1>4 DEF Take, StepOK, TypeInv, TypeOK, MonitorOK

LEMMA AbortType ==
  ASSUME TypeInv, NEW survives \in BOOLEAN, Abort(survives)
  PROVE  TaskOK' /\ alive' \in BOOLEAN /\ ItemsOK'
<1>1. task' \in Task /\ task'.pc = "run"
  BY TaskTypes DEF Abort
<1>2. ItemsOK'
  BY <1>1 DEF Abort, ItemsOK, NoItem
<1> QED BY <1>1, <1>2 DEF Abort, TaskOK

LEMMA FetchAllButType ==
  ASSUME TypeInv, NEW bad \in SUBSET Conn, FetchAllBut(bad), adds = {}, item = NoItem
  PROVE  /\ TaskOK' /\ alive' \in BOOLEAN /\ ItemsOK'
         /\ cache' \in [Conn -> Source \union {NoSource}]
<1> DEFINE read == {c \in Conn \ bad : remote[c] # 0}
<1>0. TypeOK
  BY DEF TypeInv
<1>1. cache' \in [Conn -> Source \union {NoSource}]
  BY <1>0, PutIfAbsentType DEF FetchAllBut
<1>2. CASE Abort(FALSE)
  BY <1>1, <1>2, AbortType
<1>3. CASE /\ task' = [task EXCEPT !.pc = "run"]
           /\ adds' = {[conn |-> c, source |-> Built(c),
                        cached |-> cache[c] = NoSource] : c \in read}
           /\ dels' = Removed(read)
           /\ unread' = bad
           /\ UNCHANGED <<alive, item>>
  <2>1. task' \in Task /\ task'.pc = "run"
    BY <1>0, <1>3, TaskTypes DEF TypeOK, TaskOK
  <2>2. adds' \subseteq Item
    <3>1. ASSUME NEW c \in read
          PROVE  [conn |-> c, source |-> Built(c), cached |-> cache[c] = NoSource] \in Item
      BY <1>0, <3>1, BuiltType DEF Item
    <3> QED BY <1>3, <3>1
  <2>3. Removed(read) \subseteq Conn
    BY <1>0 DEF Removed, Existing, TypeOK, LocalOK, DataSource, NoDataSource
  <2>4. ItemsOK'
    <3>1. \A c \in read : cache'[c] # NoSource
      BY <1>0, PutIfAbsentKeeps DEF FetchAllBut
    <3>2. NoItem.cached = FALSE /\ NoItem.conn = Null
      BY DEF NoItem
    <3>3. \A i \in adds' : i.conn \in read
      BY <1>3
    <3>4. \A i, j \in adds' : i.conn = j.conn => i = j
      BY <1>3
    <3>5. item' = NoItem
      BY <1>3
    <3>6. \A c \in read : c # Null
      OBVIOUS
    <3> HIDE DEF read
    <3> QED BY <2>1, <3>1, <3>2, <3>3, <3>4, <3>5, <3>6 DEF ItemsOK
  <2> QED BY <1>0, <1>1, <1>3, <2>1, <2>2, <2>3, <2>4 DEF TypeOK, TaskOK, MonitorOK
<1> QED BY <1>2, <1>3 DEF FetchAllBut

LEMMA FetchType ==
  ASSUME TypeInv, Fetch
  PROVE  StepOK /\ (Fault \/ NoFault)
<1>0. adds = {} /\ item = NoItem
  BY DEF TypeInv, ItemsOK, Fetch
<1>1. /\ TaskOK' /\ alive' \in BOOLEAN /\ ItemsOK'
      /\ cache' \in [Conn -> Source \union {NoSource}]
      /\ Fault \/ NoFault
  <2>1. CASE FetchAllBut({}) /\ NoFault
    BY <1>0, <2>1, FetchAllButType
  <2>2. CASE Fault /\ \E c \in Conn : remote[c] # 0 /\ FetchAllBut({c})
    BY <1>0, <2>2, FetchAllButType
  <2>3. CASE Abort(TRUE) /\ UNCHANGED cache /\ Fault
    BY <2>3, AbortType DEF TypeInv, TypeOK, LocalOK
  <2> QED BY <2>1, <2>2, <2>3 DEF Fetch
<1> QED BY <1>1 DEF Fetch, StepOK, TypeInv, TypeOK, LocalOK, MonitorOK

LEMMA AddCheckType ==
  ASSUME TypeInv, AddCheck
  PROVE  StepOK /\ (Fault \/ NoFault)
<1>1. TaskOK' /\ ItemsOK' /\ alive' \in BOOLEAN /\ (Fault \/ NoFault)
  <2>1. PICK i \in adds :
          \/ /\ adds' = adds \ {i}
             /\ IF i.conn \in dvSource
                THEN UNCHANGED <<task, item>>
                ELSE /\ item' = i
                     /\ task' = [task EXCEPT !.pc = IF task.update THEN "replace"
                                                    ELSE "run"]
             /\ UNCHANGED <<alive, dels, unread>>
             /\ NoFault
          \/ Abort(FALSE) /\ Fault
    BY DEF AddCheck
  <2>2. CASE Abort(FALSE) /\ Fault
    BY <2>2, AbortType
  <2>3. CASE /\ adds' = adds \ {i}
             /\ UNCHANGED <<task, item, alive, dels, unread>>
             /\ NoFault
    BY <2>3 DEF AddCheck, TypeInv, TypeOK, TaskOK, MonitorOK, ItemsOK
  <2>4. CASE /\ adds' = adds \ {i}
             /\ item' = i
             /\ task' = [task EXCEPT !.pc = IF task.update THEN "replace" ELSE "run"]
             /\ UNCHANGED <<alive, dels, unread>>
             /\ NoFault
    <3>1. task' \in Task /\ task'.pc # "fetch"
      BY <2>4 DEF TypeInv, TypeOK, TaskOK, Task
    <3>2. i \in Item /\ i # NoItem
      BY NoSourceType DEF TypeInv, TypeOK, TaskOK
    <3>3. ItemsOK'
      BY <2>4, <3>1, <3>2 DEF AddCheck, TypeInv, ItemsOK
    <3> QED BY <2>4, <3>1, <3>2, <3>3 DEF TypeInv, TypeOK, TaskOK, MonitorOK
  <2> QED BY <2>1, <2>2, <2>3, <2>4
<1> QED BY <1>1 DEF AddCheck, StepOK, TypeInv, TypeOK, MonitorOK, LocalOK

LEMMA RemoveType ==
  ASSUME TypeInv, NEW c \in Conn, NEW source, RemoveDataSource(c, source)
  PROVE  /\ cache' \in [Conn -> Source \union {NoSource}]
         /\ ds' \in [Name -> DataSource \union {NoDataSource}]
BY DEF TypeInv, TypeOK, LocalOK, RemoveDataSource

LEMMA ReplaceType ==
  ASSUME TypeInv, Replace
  PROVE  StepOK /\ NoFault
<1>1. item \in Item
  BY DEF TypeInv, TypeOK, TaskOK, ItemsOK, Replace
<1>2. /\ item.conn \in Conn
      /\ [item EXCEPT !.cached = FALSE] \in Item
      /\ [item EXCEPT !.cached = FALSE].cached = FALSE
      /\ [item EXCEPT !.cached = FALSE].conn = item.conn
  BY <1>1 DEF Item
<1>3. LocalOK'
  BY <1>2, RemoveType DEF Replace, TypeInv, TypeOK, LocalOK
<1>4. task' \in Task /\ task'.pc = "run"
  BY TaskTypes DEF Replace, TypeInv, TypeOK, TaskOK
<1>5. ItemsOK'
  <2>1. \A i \in adds : i.conn \in Conn /\ i.conn # item.conn
    BY DEF TypeInv, TypeOK, TaskOK, ItemsOK, Item
  <2>2. \A c \in Conn : c # item.conn => cache'[c] = cache[c]
    BY DEF Replace, RemoveDataSource, TypeInv, TypeOK, LocalOK
  <2> QED BY <1>2, <1>4, <2>1, <2>2 DEF Replace, ItemsOK, TypeInv
<1> QED BY <1>2, <1>3, <1>4, <1>5
           DEF Replace, StepOK, NoFault, TypeInv, TypeOK, TaskOK, MonitorOK

LEMMA UniqueNameType ==
  ASSUME TypeInv, NEW c \in Conn
  PROVE  /\ UniqueName(c) \subseteq Name
         /\ rows[c] # Null => UniqueName(c) = {rows[c]}
BY DEF TypeInv, TypeOK, LocalOK, UniqueName

LEMMA RegisterType ==
  ASSUME TypeInv, Register
  PROVE  StepOK /\ (Fault \/ NoFault)
<1>1. item \in Item
  BY DEF TypeInv, TypeOK, TaskOK, Register
<1>2. item.conn \in Conn /\ item.source \in Source
  BY <1>1 DEF Item
<1>3. [conn |-> item.conn, version |-> item.source.version] \in DataSource
  BY <1>2 DEF Source, DataSource
<1>4. ASSUME NEW n \in Name, RegisterDataSource(n)
      PROVE  ds' \in [Name -> DataSource \union {NoDataSource}]
  BY <1>3, <1>4 DEF RegisterDataSource, TypeInv, TypeOK, LocalOK
<1>5. LocalOK' /\ (Fault \/ NoFault)
  <2>1. CASE /\ item.source.name # Null
             /\ RegisterDataSource(item.source.name)
             /\ UNCHANGED <<rows, cache>>
             /\ NoFault
    <3>1. item.source.name \in Name
      BY <1>2, <2>1 DEF Source
    <3> QED BY <1>4, <2>1, <3>1 DEF TypeInv, TypeOK, LocalOK
  <2>2. CASE \E n \in UniqueName(item.conn) :
               /\ StoreName(n)
               /\ \/ RegisterDataSource(n) /\ NoFault
                  \/ UNCHANGED ds /\ Fault
    <3>1. PICK n \in UniqueName(item.conn) :
               /\ StoreName(n)
               /\ \/ RegisterDataSource(n) /\ NoFault
                  \/ UNCHANGED ds /\ Fault
      BY <2>2
    <3>2. n \in Name
      BY <1>2, UniqueNameType
    <3>3. rows' \in [Conn -> Name \union {Null}]
      BY <3>1, <3>2 DEF StoreName, TypeInv, TypeOK, LocalOK
    <3>4. cache' \in [Conn -> Source \union {NoSource}]
      <4>1. CASE ~item.cached
        BY <1>2, <3>1, <4>1 DEF StoreName, TypeInv, TypeOK, LocalOK
      <4>2. CASE item.cached
        <5>1. cache[item.conn] \in Source
          BY <1>2, <4>2 DEF TypeInv, TypeOK, LocalOK, ItemsOK
        <5>2. [cache[item.conn] EXCEPT !.name = n] \in Source
          BY <3>2, <5>1 DEF Source
        <5> QED BY <1>2, <3>1, <4>2, <5>2 DEF StoreName, TypeInv, TypeOK, LocalOK
      <4> QED BY <4>1, <4>2
    <3>5. ds' \in [Name -> DataSource \union {NoDataSource}]
      BY <1>4, <3>1, <3>2 DEF TypeInv, TypeOK, LocalOK
    <3> QED BY <3>1, <3>3, <3>4, <3>5 DEF LocalOK
  <2>3. CASE UNCHANGED localVars /\ (Fault \/ NoFault)
    BY <2>3 DEF TypeInv, TypeOK, LocalOK
  <2> QED BY <2>1, <2>2, <2>3 DEF Register
<1>6. ItemsOK'
  <2>1. \A i \in adds : i.conn \in Conn /\ i.conn # item.conn
    BY DEF TypeInv, TypeOK, TaskOK, ItemsOK, Item
  <2>2. \A c \in Conn : c # item.conn => cache'[c] = cache[c]
    BY DEF Register, StoreName, TypeInv, TypeOK, LocalOK
  <2>3. NoItem.cached = FALSE /\ NoItem.conn = Null
    BY DEF NoItem
  <2> QED BY <2>1, <2>2, <2>3 DEF Register, ItemsOK, TypeInv
<1> QED BY <1>5, <1>6 DEF Register, StepOK, TypeInv, TypeOK, TaskOK, MonitorOK

LEMMA DeleteType ==
  ASSUME TypeInv, Delete
  PROVE  StepOK /\ (Fault \/ NoFault)
<1>1. PICK c \in dels :
        /\ dels' = dels \ {c}
        /\ IF cache[c] = NoSource
           THEN UNCHANGED <<localVars, faults>>
           ELSE /\ RemoveDataSource(c, cache[c])
                /\ \/ rows' = [rows EXCEPT ![c] = Null] /\ NoFault
                   \/ UNCHANGED rows /\ Fault
  BY DEF Delete
<1>2. c \in Conn
  BY DEF TypeInv, TypeOK, TaskOK
<1>3. LocalOK'
  <2>1. rows' \in [Conn -> Name \union {Null}]
    BY <1>1, <1>2 DEF TypeInv, TypeOK, LocalOK
  <2>2. /\ cache' \in [Conn -> Source \union {NoSource}]
        /\ ds' \in [Name -> DataSource \union {NoDataSource}]
    BY <1>1, <1>2, RemoveType DEF TypeInv, TypeOK, LocalOK
  <2> QED BY <2>1, <2>2 DEF LocalOK
<1>4. ItemsOK'
  BY <1>1 DEF Delete, ItemsOK, NoItem
<1>5. Fault \/ NoFault
  BY <1>1 DEF NoFault
<1>6. TaskOK'
  BY <1>1 DEF Delete, TypeInv, TypeOK, TaskOK
<1> QED BY <1>3, <1>4, <1>5, <1>6 DEF Delete, StepOK, TypeInv, TypeOK, MonitorOK

LEMMA ExecutorType == TypeInv /\ ExecutorStep => TypeInv'
<1> SUFFICES ASSUME TypeInv, ExecutorStep PROVE TypeInv'
  OBVIOUS
<1>1. Frame
  BY DEF ExecutorStep, Frame
<1>2. StepOK /\ (Fault \/ NoFault)
  BY TakeType, FetchType, AddCheckType, ReplaceType, RegisterType, DeleteType
  DEF ExecutorStep
<1> QED BY <1>1, <1>2, StepSuffices

LEMMA RestartType == TypeInv /\ Restart => TypeInv'
<1> SUFFICES ASSUME TypeInv, Restart PROVE TypeInv'
  OBVIOUS
<1>1. RemoteOK' /\ BoundsOK'
  BY DEF Restart, TypeInv, TypeOK, RemoteOK, BoundsOK
<1>2. MonitorOK'
  <2>1. queue' \in Seq(Message) /\ connected' \in BOOLEAN /\ alive' \in BOOLEAN
    BY MessageTypes DEF Restart
  <2>2. socket' \in [Socket -> {"none", "opening", "refused", "open", "broken"}]
    BY DEF Restart
  <2> QED BY <2>1, <2>2 DEF MonitorOK
<1>3. LocalOK'
  BY DEF Restart, TypeInv, TypeOK, LocalOK
<1>4. task' \in Task /\ task'.pc = "run"
  BY TaskTypes DEF Restart
<1>5. TaskOK' /\ ItemsOK'
  BY <1>4 DEF Restart, TaskOK, ItemsOK, NoItem
<1> QED BY <1>1, <1>2, <1>3, <1>5 DEF TypeInv, TypeOK

LEMMA TypeInvariant == Spec => []TypeInv
<1>1. TypeInv /\ [Next]_vars => TypeInv'
  <2>1. TypeInv /\ UNCHANGED vars => TypeInv'
    <3> SUFFICES ASSUME TypeInv, UNCHANGED vars PROVE TypeInv'
      OBVIOUS
    <3>1. RemoteOK' /\ MonitorOK'
      BY DEF vars, TypeInv, TypeOK, RemoteOK, MonitorOK
    <3>2. TaskOK' /\ LocalOK' /\ BoundsOK'
      BY DEF vars, TypeInv, TypeOK, TaskOK, LocalOK, BoundsOK
    <3>3. ItemsOK'
      BY ItemsKept DEF vars
    <3> QED BY <3>1, <3>2, <3>3 DEF TypeInv, TypeOK
  <2> QED BY <2>1, SyndesisType, PublishingType, SocketType, PeriodicType,
             ExecutorType, RestartType DEF Next
<1> QED BY <1>1, InitTypeInv, PTL DEF Spec

\* Every variable keeps its shape in every reachable state, however many
\* connections, web sockets, faults and restarts there are.
THEOREM TypeCorrect == Spec => []TypeOK
<1>1. TypeInv => TypeOK
  BY DEF TypeInv
<1> QED BY <1>1, TypeInvariant, PTL
=============================================================================
