----------------------- MODULE ConnectionsSafetyProofs -----------------------
(***************************************************************************)
(* The safety properties of Connections, proved for any number of          *)
(* connections, names, web sockets, changes, faults and restarts.          *)
(***************************************************************************)
EXTENDS ConnectionsProofs

USE ConnectionsAssumption DEF remoteVars, socketVars, workVars, taskVars, localVars

-----------------------------------------------------------------------------
(* Names. The objects that wait to be added have the name of the row too,  *)
(* for an object of the cache may be among them.                           *)

NamesInv ==
    /\ CachedNameIsStored
    /\ \A i \in adds : i.source.name # Null => i.source.name = rows[i.conn]
    /\ item.source.name # Null => item.source.name = rows[item.conn]

\* What is built has the name of the row.
LEMMA BuiltName ==
  ASSUME NEW c PROVE Built(c).name = rows[c]
BY DEF Built

LEMMA PutIfAbsentNames ==
  ASSUME NamesInv, NEW read, PutIfAbsent(read)
  PROVE  \A c \in Conn : cache'[c].name # Null => cache'[c].name = rows[c]
<1>1. \A c \in Conn : cache'[c] = IF c \in read /\ cache[c] = NoSource THEN Built(c)
                                  ELSE cache[c]
  BY DEF PutIfAbsent
<1> QED BY <1>1, BuiltName DEF NamesInv, CachedNameIsStored

\* Only the executor writes names into rows and items.
LEMMA NamesKept ==
  ASSUME NamesInv, UNCHANGED <<adds, item, rows>>,
         \A c \in Conn : cache'[c].name # Null => cache'[c].name = rows[c]
  PROVE  NamesInv'
BY DEF NamesInv, CachedNameIsStored

\* When nothing is to be added, the cache is all there is.
LEMMA NamesOfCache ==
  ASSUME adds' = {}, item' = NoItem,
         \A c \in Conn : cache'[c].name # Null => cache'[c].name = rows'[c]
  PROVE  NamesInv'
BY NoSourceType DEF NamesInv, CachedNameIsStored

LEMMA InitNames == Init => NamesInv
<1> SUFFICES ASSUME Init PROVE NamesInv
  OBVIOUS
<1>1. \A c \in Conn : cache[c] = NoSource
  BY DEF Init
<1>2. CachedNameIsStored
  BY <1>1, NoSourceType DEF CachedNameIsStored
<1> QED BY <1>2, NoSourceType DEF Init, NamesInv

LEMMA OutsideNames ==
  NamesInv /\ (Syndesis \/ Publishing \/ SocketStep \/ PeriodicStep) => NamesInv'
<1> SUFFICES ASSUME NamesInv, Syndesis \/ Publishing \/ SocketStep \/ PeriodicStep
             PROVE  NamesInv'
  OBVIOUS
<1>1. UNCHANGED <<adds, item, rows>>
  BY DEF Syndesis, Publishing, SocketStep, PeriodicStep, Periodic
<1>2. CASE UNCHANGED cache
  BY <1>1, <1>2, NamesKept DEF NamesInv, CachedNameIsStored
<1>3. ASSUME NEW c \in Conn, GetSource(c) PROVE NamesInv'
  <2>1. \A d \in Conn : cache'[d].name # Null => cache'[d].name = rows[d]
    BY <1>3, PutIfAbsentNames DEF GetSource
  <2> QED BY <1>1, <2>1, NamesKept
<1>4. UNCHANGED cache \/ \E c \in Conn : GetSource(c)
  BY DEF Syndesis, Publishing, SaveSource, DropDataVirtualization,
         SocketStep, PeriodicStep, Periodic
<1> QED BY <1>2, <1>3, <1>4

LEMMA HandleAddNames ==
  ASSUME NamesInv, NEW c \in Conn, NEW update, HandleAdd(c, update),
         adds = {}, item = NoItem, UNCHANGED <<item, rows>>
  PROVE  NamesInv'
<1>1. CASE UNCHANGED <<adds, cache>>
  BY <1>1, NamesKept DEF NamesInv, CachedNameIsStored
<1>2. CASE /\ adds' = {[conn |-> c, source |-> cache[c], cached |-> TRUE]}
           /\ UNCHANGED cache
  BY <1>2 DEF NamesInv, CachedNameIsStored
<1>3. CASE /\ adds' = {[conn |-> c, source |-> Built(c), cached |-> TRUE]}
           /\ PutIfAbsent({c})
  <2>1. CachedNameIsStored'
    BY <1>3, PutIfAbsentNames DEF CachedNameIsStored
  <2> QED BY <1>3, <2>1, BuiltName DEF NamesInv
<1> QED BY <1>1, <1>2, <1>3 DEF HandleAdd

LEMMA TakeNames == TypeInv /\ NamesInv /\ Take => NamesInv'
<1> SUFFICES ASSUME TypeInv, NamesInv, Take PROVE NamesInv'
  OBVIOUS
<1>1. Head(queue) \in Message
  BY TailQueue DEF Take, TypeInv
<1>2. adds = {} /\ item = NoItem /\ UNCHANGED <<item, rows>>
  BY DEF Take, Idle
<1>3. CASE UNCHANGED <<adds, cache>>
  BY <1>2, <1>3, NamesKept DEF NamesInv, CachedNameIsStored
<1>4. CASE Head(queue).kind \in {"created", "updated"}
  <2>1. Head(queue).conn \in Conn
    BY <1>1, <1>4, MessageTypes
  <2>2. HandleAdd(Head(queue).conn, TRUE) \/ HandleAdd(Head(queue).conn, FALSE)
    BY <1>4 DEF Take
  <2> QED BY <1>2, <2>1, <2>2, HandleAddNames
<1> QED BY <1>3, <1>4 DEF Take

LEMMA AbortNames ==
  ASSUME NEW survives, Abort(survives), UNCHANGED rows,
         \A c \in Conn : cache'[c].name # Null => cache'[c].name = rows[c]
  PROVE  NamesInv'
BY NamesOfCache DEF Abort

LEMMA FetchNames == TypeInv /\ NamesInv /\ Fetch => NamesInv'
<1> SUFFICES ASSUME TypeInv, NamesInv, Fetch PROVE NamesInv'
  OBVIOUS
<1>1. UNCHANGED rows /\ item = NoItem
  BY DEF Fetch, TypeInv, ItemsOK
<1>2. ASSUME NEW bad, FetchAllBut(bad) PROVE NamesInv'
  <2> DEFINE read == {c \in Conn \ bad : remote[c] # 0}
  <2>1. \A c \in Conn : cache'[c].name # Null => cache'[c].name = rows[c]
    BY <1>2, PutIfAbsentNames DEF FetchAllBut
  <2>2. CASE Abort(FALSE)
    BY <1>1, <2>1, <2>2, AbortNames
  <2>3. CASE /\ adds' = {[conn |-> c, source |-> Built(c),
                          cached |-> cache[c] = NoSource] : c \in read}
             /\ UNCHANGED item
    <3>1. \A i \in adds' : i.source.name = rows[i.conn]
      BY <2>3, BuiltName
    <3> QED BY <1>1, <2>1, <2>3, <3>1, NoSourceType DEF NamesInv, CachedNameIsStored
  <2> QED BY <1>2, <2>2, <2>3 DEF FetchAllBut
<1>3. CASE Abort(TRUE) /\ UNCHANGED cache
  BY <1>1, <1>3, AbortNames DEF NamesInv, CachedNameIsStored
<1> QED BY <1>2, <1>3 DEF Fetch

LEMMA AddCheckNames == NamesInv /\ AddCheck => NamesInv'
<1> SUFFICES ASSUME NamesInv, AddCheck PROVE NamesInv'
  OBVIOUS
<1>1. UNCHANGED <<cache, rows>>
  BY DEF AddCheck
<1>2. CASE Abort(FALSE)
  BY <1>1, <1>2, AbortNames DEF NamesInv, CachedNameIsStored
<1>3. CASE \E i \in adds : adds' = adds \ {i} /\ item' \in {i, item}
  BY <1>1, <1>3 DEF NamesInv, CachedNameIsStored
<1> QED BY <1>2, <1>3 DEF AddCheck

LEMMA RemoveNames ==
  ASSUME TypeInv, NamesInv, NEW c \in Conn, NEW source, RemoveDataSource(c, source)
  PROVE  /\ cache'[c].name = Null
         /\ \A d \in Conn \ {c} : cache'[d] = cache[d]
BY NoSourceType DEF TypeInv, TypeOK, LocalOK, RemoveDataSource

LEMMA ReplaceNames == TypeInv /\ NamesInv /\ Replace => NamesInv'
<1> SUFFICES ASSUME TypeInv, NamesInv, Replace PROVE NamesInv'
  OBVIOUS
<1>1. item \in Item
  BY DEF TypeInv, TypeOK, TaskOK, ItemsOK, Replace
<1>2. /\ item.conn \in Conn
      /\ [item EXCEPT !.cached = FALSE].source = item.source
      /\ [item EXCEPT !.cached = FALSE].conn = item.conn
  BY <1>1 DEF Item
<1>3. CachedNameIsStored'
  BY <1>2, RemoveNames DEF Replace, NamesInv, CachedNameIsStored
<1> QED BY <1>2, <1>3 DEF Replace, NamesInv

LEMMA RegisterNames == TypeInv /\ NamesInv /\ Register => NamesInv'
<1> SUFFICES ASSUME TypeInv, NamesInv, Register PROVE NamesInv'
  OBVIOUS
<1>1. item \in Item
  BY DEF TypeInv, TypeOK, TaskOK, Register
<1>2. item.conn \in Conn
  BY <1>1 DEF Item
<1>3. item' = NoItem /\ UNCHANGED adds
  BY DEF Register
<1>4. \A i \in adds : i.conn \in Conn /\ i.conn # item.conn
  BY DEF TypeInv, TypeOK, TaskOK, ItemsOK, Item
<1>5. CASE UNCHANGED <<rows, cache>>
  BY <1>3, <1>5, NoSourceType DEF NamesInv, CachedNameIsStored
<1>6. CASE \E n \in UniqueName(item.conn) : StoreName(n)
  <2>1. PICK n \in UniqueName(item.conn) : StoreName(n)
    BY <1>6
  <2>2. /\ rows'[item.conn] = n
        /\ \A c \in Conn \ {item.conn} : rows'[c] = rows[c] /\ cache'[c] = cache[c]
    BY <1>2, <2>1 DEF StoreName, TypeInv, TypeOK, LocalOK
  <2>3. rows[item.conn] # Null => n = rows[item.conn]
    BY <1>2, <2>1, UniqueNameType
  <2>4. cache'[item.conn].name \in {n, cache[item.conn].name}
    <3>1. CASE ~item.cached
      BY <1>2, <2>1, <3>1 DEF StoreName, TypeInv, TypeOK, LocalOK
    <3>2. CASE item.cached
      <4>1. cache[item.conn] \in Source
        BY <1>2, <3>2 DEF TypeInv, TypeOK, LocalOK, ItemsOK
      <4>2. [cache[item.conn] EXCEPT !.name = n].name = n
        BY <4>1 DEF Source
      <4> QED BY <1>2, <2>1, <3>2, <4>2 DEF StoreName, TypeInv, TypeOK, LocalOK
    <3> QED BY <3>1, <3>2
  <2>5. CachedNameIsStored'
    BY <1>2, <2>2, <2>3, <2>4 DEF NamesInv, CachedNameIsStored
  <2> QED BY <1>3, <1>4, <2>2, <2>5, NoSourceType DEF NamesInv
<1> QED BY <1>5, <1>6 DEF Register

LEMMA DeleteNames == TypeInv /\ NamesInv /\ Delete => NamesInv'
<1> SUFFICES ASSUME TypeInv, NamesInv, Delete PROVE NamesInv'
  OBVIOUS
<1>1. adds' = {} /\ item' = NoItem
  BY DEF Delete
<1>2. PICK c \in dels :
        \/ UNCHANGED <<cache, rows>>
        \/ /\ RemoveDataSource(c, cache[c])
           /\ rows' = [rows EXCEPT ![c] = Null] \/ UNCHANGED rows
  BY DEF Delete
<1>3. c \in Conn
  BY DEF TypeInv, TypeOK, TaskOK
<1>4. \A d \in Conn : cache'[d].name # Null => cache'[d].name = rows'[d]
  <2>1. CASE UNCHANGED <<cache, rows>>
    BY <2>1 DEF NamesInv, CachedNameIsStored
  <2>2. CASE RemoveDataSource(c, cache[c])
    <3>1. \A d \in Conn \ {c} : rows'[d] = rows[d]
      BY <1>2, <2>2 DEF TypeInv, TypeOK, LocalOK
    <3> QED BY <1>3, <2>2, <3>1, RemoveNames DEF NamesInv, CachedNameIsStored
  <2> QED BY <1>2, <2>1, <2>2
<1> QED BY <1>1, <1>4, NamesOfCache

LEMMA RestartNames == Restart => NamesInv'
<1> SUFFICES ASSUME Restart PROVE NamesInv'
  OBVIOUS
<1>1. \A c \in Conn : cache'[c] = NoSource
  BY DEF Restart
<1> QED BY <1>1, NamesOfCache, NoSourceType DEF Restart

LEMMA NamesInvariant == Spec => []NamesInv
<1>1. TypeInv /\ NamesInv /\ [Next]_vars => NamesInv'
  <2>1. NamesInv /\ UNCHANGED vars => NamesInv'
    BY NamesKept DEF vars, NamesInv, CachedNameIsStored
  <2> QED BY <2>1, OutsideNames, TakeNames, FetchNames, AddCheckNames, ReplaceNames,
             RegisterNames, DeleteNames, RestartNames DEF Next, ExecutorStep
<1> QED BY <1>1, InitNames, TypeInvariant, PTL DEF Spec

\* An object of the cache never has a name other than the one in its row: what
\* deleteDataSource removes under it is the connection's own.
THEOREM NamesAgree == Spec => []CachedNameIsStored
<1>1. NamesInv => CachedNameIsStored
  BY DEF NamesInv
<1> QED BY <1>1, NamesInvariant, PTL

-----------------------------------------------------------------------------
(* Schemas. What is to be deleted has been made and is gone from Syndesis, *)
(* where it cannot come back, or could not be read.                        *)

MadeInv ==
    /\ \A c \in Conn : remote[c] # 0 => c \in made
    /\ \A c \in Conn : cache[c] # NoSource => c \in made
    /\ \A n \in Name : ds[n].conn # Null => ds[n].conn \in made
    /\ \A i \in adds : i.conn \in made
    /\ item # NoItem => item.conn \in made

\* c has been dropped by Syndesis.
Gone(c) == c \in made /\ remote[c] = 0

DeletedInv == \A i \in 1..Len(queue) :
    queue[i].kind = "deleted" => Gone(queue[i].conn)

DelsInv == \A c \in dels : c \in made /\ (remote[c] = 0 \/ c \in unread)

SchemaInv == MadeInv /\ DeletedInv /\ DelsInv

LEMMA InitSchema == Init => SchemaInv
<1> SUFFICES ASSUME Init PROVE SchemaInv
  OBVIOUS
<1>1. MadeInv
  <2>1. /\ \A c \in Conn : remote[c] = 0 /\ cache[c] = NoSource
        /\ \A n \in Name : ds[n] = NoDataSource
        /\ adds = {} /\ item = NoItem
    BY DEF Init
  <2> QED BY <2>1, NoSourceType DEF MadeInv
<1>2. DeletedInv
  BY EmptySeq DEF Init, DeletedInv
<1>3. DelsInv
  BY DEF Init, DelsInv
<1> QED BY <1>1, <1>2, <1>3 DEF SchemaInv

\* A connection that is gone stays gone: its id is not used again.
LEMMA SyndesisSchema == TypeInv /\ SchemaInv /\ Syndesis => SchemaInv'
<1> SUFFICES ASSUME TypeInv, SchemaInv, Syndesis PROVE SchemaInv'
  OBVIOUS
<1>0. TypeOK
  BY DEF TypeInv
<1>1. PICK c \in Conn : CreateConnection(c) \/ UpdateConnection(c) \/ DeleteConnection(c)
  BY DEF Syndesis
<1>2. /\ made \subseteq made'
      /\ c \in made'
      /\ \A d \in Conn \ {c} : remote'[d] = remote[d]
      /\ remote'[c] # 0 => c \notin made \/ remote[c] # 0
  BY <1>0, <1>1 DEF CreateConnection, UpdateConnection, DeleteConnection,
                    TypeOK, RemoteOK, SchemaInv, MadeInv
<1>3. MadeInv'
  <2>1. UNCHANGED <<cache, ds, adds, item>>
    BY DEF Syndesis
  <2> QED BY <1>2, <2>1 DEF SchemaInv, MadeInv
<1>4. \A d \in Conn : Gone(d) => Gone(d)'
  BY <1>2 DEF Gone
<1>5. DelsInv'
  <2>1. UNCHANGED <<dels, unread>> /\ dels \subseteq Conn
    BY <1>0 DEF Syndesis, TypeOK, TaskOK
  <2> QED BY <1>2, <2>1 DEF SchemaInv, DelsInv
<1>6. DeletedInv'
  <2> SUFFICES ASSUME NEW i \in 1..Len(queue'), queue'[i].kind = "deleted"
               PROVE  queue'[i].conn \in made' /\ remote'[queue'[i].conn] = 0
    BY DEF DeletedInv, Gone
  <2>1. PICK kind \in {"created", "updated", "deleted"} :
          Announce(kind, c) /\ (kind = "deleted" => DeleteConnection(c))
    BY <1>1 DEF CreateConnection, UpdateConnection, DeleteConnection
  <2>2. CASE i \in 1..Len(queue)
    <3>1. queue'[i] = queue[i]
      BY <1>0, <2>1, <2>2, AnnounceQueue
    <3>2. queue[i] \in Message
      BY <1>0, <2>2 DEF TypeOK, MonitorOK
    <3>3. queue[i].conn \in Conn
      BY <3>1, <3>2, MessageTypes
    <3>4. Gone(queue[i].conn)
      BY <2>2, <3>1 DEF SchemaInv, DeletedInv
    <3>5. ASSUME NEW d \in Conn, d = queue[i].conn PROVE Gone(d)'
      BY <1>4, <3>4, <3>5
    <3> QED BY <3>1, <3>3, <3>5 DEF Gone
  <2>3. CASE queue'[i] = [kind |-> kind, conn |-> c]
    <3>1. DeleteConnection(c)
      BY <2>1, <2>3
    <3>2. Gone(c)'
      BY <1>0, <1>2, <3>1 DEF DeleteConnection, Gone, TypeOK, RemoteOK
    <3> QED BY <2>3, <3>2 DEF Gone
  <2> QED BY <1>0, <2>1, <2>2, <2>3, AnnounceQueue
<1> QED BY <1>3, <1>5, <1>6 DEF SchemaInv

\* The rest of the steps neither make nor drop a connection.
LEMMA GoneKept ==
  ASSUME UNCHANGED <<made, remote, queue>>, DeletedInv
  PROVE  DeletedInv'
BY DEF DeletedInv, Gone

LEMMA PutIfAbsentMade ==
  ASSUME MadeInv, NEW read, PutIfAbsent(read),
         \A c \in Conn \intersect read : remote[c] # 0
  PROVE  \A c \in Conn : cache'[c] # NoSource => c \in made
<1>1. \A c \in Conn : cache'[c] = IF c \in read /\ cache[c] = NoSource THEN Built(c)
                                  ELSE cache[c]
  BY DEF PutIfAbsent
<1> QED BY <1>1 DEF MadeInv

LEMMA PublishingSchema == SchemaInv /\ Publishing => SchemaInv'
<1> SUFFICES ASSUME SchemaInv, Publishing PROVE SchemaInv'
  OBVIOUS
<1>1. UNCHANGED <<made, remote, queue, adds, item, dels, unread, ds>>
  BY DEF Publishing
<1>2. \A c \in Conn : cache'[c] # NoSource => c \in made
  <2>1. ASSUME NEW c \in Conn, GetSource(c)
        PROVE  \A d \in Conn : cache'[d] # NoSource => d \in made
    BY <2>1, PutIfAbsentMade DEF GetSource, SchemaInv
  <2>2. CASE UNCHANGED cache
    BY <2>2 DEF SchemaInv, MadeInv
  <2> QED BY <2>1, <2>2 DEF Publishing, SaveSource, DropDataVirtualization
<1>3. MadeInv' /\ DelsInv'
  BY <1>1, <1>2 DEF SchemaInv, MadeInv, DelsInv
<1> QED BY <1>1, <1>3, GoneKept DEF SchemaInv

LEMMA SocketSchema == TypeInv /\ SchemaInv /\ SocketStep => SchemaInv'
<1> SUFFICES ASSUME TypeInv, SchemaInv, SocketStep PROVE SchemaInv'
  OBVIOUS
<1>1. UNCHANGED <<made, remote, cache, adds, item, dels, unread, ds>>
  BY DEF SocketStep
<1>2. MadeInv' /\ DelsInv'
  BY <1>1 DEF SchemaInv, MadeInv, DelsInv
<1>3. DeletedInv'
  <2>1. CASE UNCHANGED queue
    BY <1>1, <2>1, GoneKept DEF SchemaInv
  <2>2. CASE queue' = Append(queue, [kind |-> "connected", conn |-> Null])
    <3> DEFINE m == [kind |-> "connected", conn |-> Null]
    <3>1. queue \in Seq(Message) /\ m \in Message
      BY MessageTypes DEF TypeInv, TypeOK, MonitorOK
    <3>2. m.kind # "deleted"
      OBVIOUS
    <3> HIDE DEF m
    <3>3. /\ Len(Append(queue, m)) = Len(queue) + 1
          /\ Append(queue, m)[Len(queue) + 1] = m
          /\ \A i \in 1..Len(queue) : Append(queue, m)[i] = queue[i]
          /\ Len(queue) \in Nat
      BY <3>1, AppendProperties
    <3>4. queue' = Append(queue, m)
      BY <2>2 DEF m
    <3>5. \A i \in 1..Len(queue') : i \in 1..Len(queue) \/ i = Len(queue) + 1
      BY <3>3, <3>4
    <3> QED BY <1>1, <3>2, <3>3, <3>4, <3>5 DEF SchemaInv, DeletedInv, Gone
  <2> QED BY <2>1, <2>2 DEF SocketStep, Connect, Opened, Break, Notice
<1> QED BY <1>2, <1>3 DEF SchemaInv

LEMMA PeriodicSchema == SchemaInv /\ PeriodicStep => SchemaInv'
<1> SUFFICES ASSUME SchemaInv, PeriodicStep PROVE SchemaInv'
  OBVIOUS
<1>1. /\ UNCHANGED <<made, remote, queue, cache, adds, item, ds>>
      /\ dels' = {}
  BY DEF PeriodicStep, Periodic, Idle
<1> QED BY <1>1, GoneKept DEF SchemaInv, MadeInv, DelsInv

\* A call that is aborted leaves nothing to add or to delete.
LEMMA AbortSchema ==
  ASSUME SchemaInv, NEW survives, Abort(survives), UNCHANGED <<made, remote, ds>>,
         \A c \in Conn : cache'[c] # NoSource => c \in made
  PROVE  MadeInv' /\ DelsInv'
BY DEF Abort, SchemaInv, MadeInv, DelsInv

LEMMA HandleAddSchema ==
  ASSUME SchemaInv, NEW c \in Conn, NEW update, HandleAdd(c, update),
         adds = {}, item = NoItem, dels = {},
         UNCHANGED <<made, remote, ds, item>>
  PROVE  MadeInv' /\ DelsInv'
<1>1. CASE UNCHANGED <<adds, cache>>
  BY <1>1 DEF HandleAdd, SchemaInv, MadeInv, DelsInv
<1>2. CASE /\ cache[c] # NoSource
           /\ adds' = {[conn |-> c, source |-> cache[c], cached |-> TRUE]}
           /\ UNCHANGED cache
  BY <1>2 DEF HandleAdd, SchemaInv, MadeInv, DelsInv
<1>3. CASE /\ remote[c] # 0
           /\ adds' = {[conn |-> c, source |-> Built(c), cached |-> TRUE]}
           /\ PutIfAbsent({c})
  <2>1. \A d \in Conn : cache'[d] # NoSource => d \in made
    BY <1>3, PutIfAbsentMade DEF SchemaInv
  <2> QED BY <1>3, <2>1 DEF HandleAdd, SchemaInv, MadeInv, DelsInv
<1> QED BY <1>1, <1>2, <1>3 DEF HandleAdd

LEMMA TakeSchema ==
  ASSUME TypeInv, SchemaInv, Take, UNCHANGED <<made, remote>>
  PROVE  SchemaInv'
<1>0. TypeOK
  BY DEF TypeInv
<1>1. Head(queue) \in Message
  BY <1>0, TailQueue DEF Take
<1>2. /\ adds = {} /\ item = NoItem /\ dels = {}
      /\ UNCHANGED <<made, remote, ds, item>>
      /\ queue # <<>> /\ queue' = Tail(queue)
  BY DEF Take, Idle
<1>3. DeletedInv'
  BY <1>0, <1>2, TailQueue DEF SchemaInv, DeletedInv, Gone
<1>4. MadeInv' /\ DelsInv'
  <2>1. CASE Head(queue).kind = "connected"
    BY <1>2, <2>1 DEF Take, SchemaInv, MadeInv, DelsInv
  <2>2. CASE Head(queue).kind \in {"created", "updated"}
    <3>1. Head(queue).conn \in Conn
      BY <1>1, <2>2, MessageTypes
    <3>2. HandleAdd(Head(queue).conn, TRUE) \/ HandleAdd(Head(queue).conn, FALSE)
      BY <2>2 DEF Take
    <3> QED BY <1>2, <3>1, <3>2, HandleAddSchema
  <2>3. CASE Head(queue).kind = "deleted"
    <3>1. Gone(Head(queue).conn)
      BY <1>0, <1>2, <2>3, TailQueue DEF SchemaInv, DeletedInv
    <3>2. dels' = {Head(queue).conn} /\ UNCHANGED <<adds, cache>>
      BY <2>3 DEF Take
    <3> QED BY <1>2, <3>1, <3>2 DEF SchemaInv, MadeInv, DelsInv, Gone
  <2> QED BY <1>1, <2>1, <2>2, <2>3, MessageTypes
<1> QED BY <1>3, <1>4 DEF SchemaInv

LEMMA FetchSchema ==
  ASSUME TypeInv, SchemaInv, Fetch, UNCHANGED <<made, remote>>
  PROVE  SchemaInv'
<1>1. UNCHANGED <<made, remote, queue, ds>> /\ item = NoItem
  BY DEF Fetch, TypeInv, ItemsOK
<1>2. ASSUME NEW bad \in SUBSET Conn, FetchAllBut(bad) PROVE MadeInv' /\ DelsInv'
  <2> DEFINE read == {c \in Conn \ bad : remote[c] # 0}
  <2>1. \A c \in Conn : cache'[c] # NoSource => c \in made
    BY <1>2, PutIfAbsentMade DEF FetchAllBut, SchemaInv
  <2>2. CASE Abort(FALSE)
    BY <1>1, <2>1, <2>2, AbortSchema
  <2>3. CASE /\ adds' = {[conn |-> c, source |-> Built(c),
                          cached |-> cache[c] = NoSource] : c \in read}
             /\ dels' = Removed(read)
             /\ unread' = bad
             /\ UNCHANGED item
    <3>1. \A c \in read : c \in made
      BY DEF SchemaInv, MadeInv
    <3>2. \A i \in adds' : i.conn \in read
      BY <2>3
    <3>3. ASSUME NEW c \in dels' PROVE c \in made /\ (remote[c] = 0 \/ c \in bad)
      <4>1. c \in Existing /\ c \notin read
        BY <2>3, <3>3 DEF Removed
      <4>2. c \in made
        BY <4>1 DEF Existing, SchemaInv, MadeInv
      <4>3. c \in Conn
        BY <4>1, NoSourceType
        DEF Existing, TypeInv, TypeOK, LocalOK, DataSource
      <4> QED BY <4>1, <4>2, <4>3
    <3>4. MadeInv'
      BY <1>1, <2>1, <2>3, <3>1, <3>2 DEF SchemaInv, MadeInv
    <3> QED BY <1>1, <2>3, <3>3, <3>4 DEF DelsInv
  <2> QED BY <1>2, <2>2, <2>3 DEF FetchAllBut
<1>3. ASSUME Abort(TRUE), UNCHANGED cache PROVE MadeInv' /\ DelsInv'
  <2>1. \A c \in Conn : cache'[c] # NoSource => c \in made
    BY <1>3 DEF SchemaInv, MadeInv
  <2> QED BY <1>1, <1>3, <2>1, AbortSchema
<1>4. MadeInv' /\ DelsInv'
  <2>1. \/ FetchAllBut({})
        \/ \E c \in Conn : FetchAllBut({c})
        \/ Abort(TRUE) /\ UNCHANGED cache
    BY DEF Fetch
  <2>2. \A c \in Conn : {c} \in SUBSET Conn
    OBVIOUS
  <2> QED BY <1>2, <1>3, <2>1, <2>2
<1> QED BY <1>1, <1>4, GoneKept DEF SchemaInv

LEMMA AddCheckSchema ==
  ASSUME SchemaInv, AddCheck, UNCHANGED <<made, remote>>
  PROVE  SchemaInv'
<1>1. UNCHANGED <<queue, cache, ds>>
  BY DEF AddCheck
<1>2. CASE Abort(FALSE)
  BY <1>1, <1>2, AbortSchema, GoneKept DEF SchemaInv, MadeInv
<1>3. CASE \E i \in adds : /\ adds' = adds \ {i}
                           /\ item' \in {i, item}
                           /\ UNCHANGED <<dels, unread>>
  <2>1. MadeInv' /\ DelsInv'
    BY <1>1, <1>3 DEF SchemaInv, MadeInv, DelsInv
  <2> QED BY <1>1, <2>1, GoneKept DEF SchemaInv
<1> QED BY <1>2, <1>3 DEF AddCheck

LEMMA ReplaceSchema ==
  ASSUME TypeInv, SchemaInv, Replace, UNCHANGED <<made, remote>>
  PROVE  SchemaInv'
<1>1. item \in Item /\ item # NoItem
  BY DEF TypeInv, TypeOK, TaskOK, ItemsOK, Replace
<1>2. item'.conn = item.conn
  BY <1>1 DEF Replace, Item
<1>3. \A c \in Conn : cache'[c] # NoSource => cache[c] # NoSource
  <2>1. \A c \in Conn : cache'[c] \in {NoSource, cache[c]}
    BY DEF Replace, RemoveDataSource, TypeInv, TypeOK, LocalOK
  <2> QED BY <2>1
<1>4. \A n \in Name : ds'[n].conn # Null => ds[n].conn = ds'[n].conn
  <2>1. \A n \in Name : ds'[n] \in {NoDataSource, ds[n]}
    BY DEF Replace, RemoveDataSource
  <2> QED BY <2>1, NoSourceType
<1>5. UNCHANGED <<queue, adds, dels, unread>>
  BY DEF Replace
<1>6. MadeInv' /\ DelsInv'
  BY <1>1, <1>2, <1>3, <1>4, <1>5 DEF SchemaInv, MadeInv, DelsInv
<1> QED BY <1>5, <1>6, GoneKept DEF SchemaInv

LEMMA RegisterSchema ==
  ASSUME TypeInv, SchemaInv, Register, UNCHANGED <<made, remote>>
  PROVE  SchemaInv'
<1>1. item \in Item /\ item # NoItem
  BY DEF TypeInv, TypeOK, TaskOK, Register
<1>2. item.conn \in Conn /\ item.conn \in made
  BY <1>1 DEF Item, SchemaInv, MadeInv
<1>3. \A c \in Conn : cache'[c] # NoSource => c \in made
  <2>1. \A c \in Conn \ {item.conn} : cache'[c] = cache[c]
    BY DEF Register, StoreName, TypeInv, TypeOK, LocalOK
  <2> QED BY <1>2, <2>1 DEF SchemaInv, MadeInv
<1>4. \A n \in Name : ds'[n].conn # Null => ds'[n].conn \in made
  <2>1. ASSUME NEW n \in Name, RegisterDataSource(n)
        PROVE  \A m \in Name : ds'[m].conn \in {item.conn, ds[m].conn}
    BY <2>1 DEF RegisterDataSource, TypeInv, TypeOK, LocalOK
  <2>2. item.source.name # Null => item.source.name \in Name
    BY <1>1 DEF Item, Source
  <2>3. UniqueName(item.conn) \subseteq Name
    BY <1>2, UniqueNameType
  <2>4. UNCHANGED ds \/ \E n \in Name : RegisterDataSource(n)
    BY <2>2, <2>3 DEF Register
  <2> QED BY <1>2, <2>1, <2>4 DEF SchemaInv, MadeInv
<1>5. UNCHANGED <<queue, adds, dels, unread>> /\ item' = NoItem
  BY DEF Register
<1>6. MadeInv' /\ DelsInv'
  BY <1>3, <1>4, <1>5 DEF SchemaInv, MadeInv, DelsInv
<1> QED BY <1>5, <1>6, GoneKept DEF SchemaInv

LEMMA DeleteSchema ==
  ASSUME TypeInv, SchemaInv, Delete, UNCHANGED <<made, remote>>
  PROVE  SchemaInv'
<1>1. /\ UNCHANGED <<queue, adds, item, unread>>
      /\ dels' \subseteq dels
  BY DEF Delete
<1>2. UNCHANGED <<cache, ds>> \/ \E c \in Conn : RemoveDataSource(c, cache[c])
  BY DEF Delete, TypeInv, TypeOK, TaskOK
<1>3. \A c \in Conn : cache'[c] # NoSource => cache[c] # NoSource
  <2>1. ASSUME NEW c \in Conn, RemoveDataSource(c, cache[c])
        PROVE  \A d \in Conn : cache'[d] \in {NoSource, cache[d]}
    BY <2>1 DEF RemoveDataSource, TypeInv, TypeOK, LocalOK
  <2> QED BY <1>2, <2>1
<1>4. \A n \in Name : ds'[n].conn # Null => ds[n].conn = ds'[n].conn
  <2>1. ASSUME NEW c \in Conn, RemoveDataSource(c, cache[c])
        PROVE  \A n \in Name : ds'[n] \in {NoDataSource, ds[n]}
    BY <2>1 DEF RemoveDataSource
  <2> QED BY <1>2, <2>1, NoSourceType
<1>5. MadeInv' /\ DelsInv'
  BY <1>1, <1>3, <1>4 DEF SchemaInv, MadeInv, DelsInv
<1> QED BY <1>1, <1>5, GoneKept DEF SchemaInv

LEMMA RestartSchema == SchemaInv /\ Restart => SchemaInv'
<1> SUFFICES ASSUME SchemaInv, Restart PROVE SchemaInv'
  OBVIOUS
<1>1. /\ \A c \in Conn : cache'[c] = NoSource
      /\ \A n \in Name : ds'[n] = NoDataSource
      /\ queue' = <<>> /\ adds' = {} /\ item' = NoItem /\ dels' = {}
      /\ UNCHANGED <<made, remote>>
  BY DEF Restart
<1>2. DeletedInv'
  BY <1>1, EmptySeq DEF DeletedInv
<1>3. MadeInv' /\ DelsInv'
  BY <1>1, NoSourceType DEF SchemaInv, MadeInv, DelsInv
<1> QED BY <1>2, <1>3 DEF SchemaInv

LEMMA SchemaInvariant == Spec => []SchemaInv
<1>1. TypeInv /\ SchemaInv /\ [Next]_vars => SchemaInv'
  <2> SUFFICES ASSUME TypeInv, SchemaInv, [Next]_vars PROVE SchemaInv'
    OBVIOUS
  <2>1. CASE UNCHANGED vars
    BY <2>1, GoneKept DEF vars, SchemaInv, MadeInv, DelsInv
  <2>2. CASE ExecutorStep
    <3>1. UNCHANGED <<made, remote>>
      BY <2>2 DEF ExecutorStep
    <3> QED BY <2>2, <3>1, TakeSchema, FetchSchema, AddCheckSchema, ReplaceSchema,
               RegisterSchema, DeleteSchema DEF ExecutorStep
  <2> QED BY <2>1, <2>2, SyndesisSchema, PublishingSchema, SocketSchema,
             PeriodicSchema, RestartSchema DEF Next
<1> QED BY <1>1, InitSchema, TypeInvariant, PTL DEF Spec

\* No step takes the row of a connection that Syndesis still has, unless the
\* running synchronization could not read it.
THEOREM LiveSchemaKept == Spec => SchemaKept
<1>1. TypeInv /\ SchemaInv /\ [Next]_vars
        => [\A c \in Conn : rows[c] # Null /\ rows'[c] = Null =>
               remote[c] = 0 \/ c \in unread]_vars
  <2> SUFFICES ASSUME TypeInv, SchemaInv, Next,
                      NEW c \in Conn, rows[c] # Null, rows'[c] = Null
               PROVE  remote[c] = 0 \/ c \in unread
    BY DEF vars
  <2>1. CASE UNCHANGED rows
    BY <2>1
  <2>2. CASE Register /\ \E n \in UniqueName(item.conn) : StoreName(n)
    <3>1. item.conn \in Conn
      BY <2>2 DEF Register, TypeInv, TypeOK, TaskOK, Item
    <3>2. \A n \in UniqueName(item.conn) : n # Null
      BY <3>1, UniqueNameType
    <3> QED BY <2>2, <3>1, <3>2 DEF StoreName, TypeInv, TypeOK, LocalOK
  <2>3. CASE Delete
    <3>1. PICK d \in dels : rows' = [rows EXCEPT ![d] = Null] \/ UNCHANGED rows
      BY <2>3 DEF Delete
    <3>2. c = d
      BY <3>1 DEF TypeInv, TypeOK, LocalOK
    <3> QED BY <3>2 DEF SchemaInv, DelsInv
  <2> QED BY <2>1, <2>2, <2>3
          DEF Next, Syndesis, Publishing, SocketStep, PeriodicStep, Periodic, ExecutorStep,
              Take, Fetch, AddCheck, Replace, Register, Restart
<1> QED BY <1>1, SchemaInvariant, TypeInvariant, PTL DEF Spec, SchemaKept
-----------------------------------------------------------------------------
(* Names and data sources. No two rows have one name, and a data source is *)
(* filed under the name of its row; a row goes with its data source, unless*)
(* the object in the cache does not know the name.                         *)

OwnInv ==
    /\ \A c, d \in Conn : rows[c] = rows[d] /\ rows[c] # Null => c = d
    /\ \A n \in Name : ds[n] # NoDataSource => rows[ds[n].conn] = n

LEMMA InitOwn == Init => OwnInv
BY DEF Init, OwnInv

LEMMA OwnConn ==
  ASSUME TypeInv, NEW n \in Name, ds[n] # NoDataSource
  PROVE  ds[n].conn \in Conn
BY DEF TypeInv, TypeOK, LocalOK, DataSource

\* Data sources only go, and rows stay.
LEMMA OwnKept ==
  ASSUME OwnInv, UNCHANGED rows, \A n \in Name : ds'[n] \in {ds[n], NoDataSource}
  PROVE  OwnInv'
BY DEF OwnInv

LEMMA RegisterOwn == TypeInv /\ NamesInv /\ OwnInv /\ Register => OwnInv'
<1> SUFFICES ASSUME TypeInv, NamesInv, OwnInv, Register PROVE OwnInv'
  OBVIOUS
<1>1. item \in Item /\ item.conn \in Conn
  BY DEF TypeInv, TypeOK, TaskOK, Register, Item
<1>2. ASSUME NEW n \in Name, RegisterDataSource(n), rows'[item.conn] = n,
             \A c \in Conn \ {item.conn} : rows'[c] = rows[c],
             rows[item.conn] # Null => rows[item.conn] = n
      PROVE  \A m \in Name : ds'[m] # NoDataSource => rows'[ds'[m].conn] = m
  <2>1. ASSUME NEW m \in Name, ds[m] # NoDataSource PROVE rows'[ds[m].conn] = m
    <3>1. ds[m].conn \in Conn /\ rows[ds[m].conn] = m
      BY <2>1, OwnConn DEF OwnInv
    <3> QED BY <1>2, <3>1
  <2>2. ds'[n] # NoDataSource => rows'[ds'[n].conn] = n
    BY <1>1, <1>2, <2>1 DEF RegisterDataSource, TypeInv, TypeOK, LocalOK
  <2>3. \A m \in Name \ {n} : ds'[m] = ds[m]
    BY <1>2 DEF RegisterDataSource, TypeInv, TypeOK, LocalOK
  <2> QED BY <2>1, <2>2, <2>3
<1>3. CASE item.source.name # Null /\ RegisterDataSource(item.source.name) /\ UNCHANGED rows
  <2>1. item.source.name \in Name /\ rows[item.conn] = item.source.name
    BY <1>1, <1>3 DEF Item, Source, NamesInv
  <2> QED BY <1>2, <1>3, <2>1 DEF OwnInv
<1>4. ASSUME NEW n \in UniqueName(item.conn), StoreName(n),
             RegisterDataSource(n) \/ UNCHANGED ds
      PROVE  OwnInv'
  <2>1. n \in Name
    BY <1>1, <1>4, UniqueNameType DEF TypeInv
  <2>2. /\ rows'[item.conn] = n
        /\ \A c \in Conn \ {item.conn} : rows'[c] = rows[c]
    BY <1>1, <1>4 DEF StoreName, TypeInv, TypeOK, LocalOK
  <2>3. /\ rows[item.conn] # Null => rows[item.conn] = n
        /\ rows[item.conn] = Null => \A c \in Conn : rows[c] # n
    BY <1>4 DEF UniqueName
  <2>4. \A c, d \in Conn : rows'[c] = rows'[d] /\ rows'[c] # Null => c = d
    BY <1>1, <2>2, <2>3 DEF OwnInv
  <2>5. \A m \in Name : ds[m] # NoDataSource => rows'[ds[m].conn] = m
    <3> SUFFICES ASSUME NEW m \in Name, ds[m] # NoDataSource PROVE rows'[ds[m].conn] = m
      OBVIOUS
    <3>1. ds[m].conn \in Conn /\ rows[ds[m].conn] = m /\ m # Null
      BY OwnConn DEF OwnInv
    <3> QED BY <2>2, <2>3, <3>1
  <2>6. \A m \in Name : ds'[m] # NoDataSource => rows'[ds'[m].conn] = m
    BY <1>2, <1>4, <2>1, <2>2, <2>3, <2>5
  <2> QED BY <2>4, <2>6 DEF OwnInv
<1>5. CASE UNCHANGED localVars
  BY <1>5, OwnKept
<1> QED BY <1>3, <1>4, <1>5 DEF Register, OwnInv

\* What is deleted is known to the cache under the name of its row, if it has one.
LEMMA DeleteOwn == TypeInv /\ NamesInv /\ CacheIsNamed /\ OwnInv /\ Delete => OwnInv'
<1> SUFFICES ASSUME TypeInv, NamesInv, CacheIsNamed, OwnInv, Delete PROVE OwnInv'
  OBVIOUS
<1>1. PICK c \in dels :
        \/ UNCHANGED <<rows, ds>>
        \/ /\ cache[c] # NoSource
           /\ RemoveDataSource(c, cache[c])
           /\ rows' = [rows EXCEPT ![c] = Null] \/ UNCHANGED rows
  BY DEF Delete
<1>2. c \in Conn
  BY DEF TypeInv, TypeOK, TaskOK
<1>3. CASE UNCHANGED rows
  <2>1. \A n \in Name : ds'[n] \in {ds[n], NoDataSource}
    BY <1>1 DEF RemoveDataSource, TypeInv, TypeOK, LocalOK
  <2> QED BY <1>3, <2>1, OwnKept
<1>4. CASE /\ cache[c] # NoSource
           /\ RemoveDataSource(c, cache[c])
           /\ rows' = [rows EXCEPT ![c] = Null]
  <2>1. rows[c] # Null => cache[c].name = rows[c]
    BY <1>2, <1>4 DEF CacheIsNamed
  <2>2. \A d \in Conn \ {c} : rows'[d] = rows[d]
    BY <1>4 DEF TypeInv, TypeOK, LocalOK
  <2>3. ASSUME NEW n \in Name, ds'[n] # NoDataSource
        PROVE  rows'[ds'[n].conn] = n
    <3>1. n # cache[c].name /\ ds'[n] = ds[n]
      BY <1>4, <2>3 DEF RemoveDataSource
    <3>2. rows[ds[n].conn] = n /\ ds[n].conn \in Conn /\ n # Null
      BY <2>3, <3>1, OwnConn DEF OwnInv
    <3> QED BY <2>1, <2>2, <3>1, <3>2
  <2>4. rows'[c] = Null
    BY <1>2, <1>4 DEF TypeInv, TypeOK, LocalOK
  <2>5. \A d, e \in Conn : rows'[d] = rows'[e] /\ rows'[d] # Null => d = e
    BY <2>2, <2>4 DEF OwnInv
  <2> QED BY <2>3, <2>5 DEF OwnInv
<1> QED BY <1>1, <1>3, <1>4

LEMMA NextOwn ==
  TypeInv /\ NamesInv /\ CacheIsNamed /\ OwnInv /\ [Next]_vars => OwnInv'
<1> SUFFICES ASSUME TypeInv, NamesInv, CacheIsNamed, OwnInv, [Next]_vars PROVE OwnInv'
  OBVIOUS
<1>1. CASE UNCHANGED <<rows, ds>>
  BY <1>1, OwnKept
<1>2. CASE Replace
  <2>1. \A n \in Name : ds'[n] \in {ds[n], NoDataSource}
    BY <1>2 DEF Replace, RemoveDataSource, TypeInv, TypeOK, LocalOK
  <2> QED BY <1>2, <2>1, OwnKept DEF Replace
<1>3. CASE Restart
  BY <1>3, OwnKept DEF Restart
<1> QED BY <1>1, <1>2, <1>3, RegisterOwn, DeleteOwn
        DEF Next, vars, Syndesis, Publishing, SocketStep, PeriodicStep, Periodic,
            ExecutorStep, Take, Fetch, AddCheck

\* As long as the cache knows the names of what it holds, whoever asks for a data
\* source by the name of a connection gets that connection, however connections of
\* one name are made, deleted and read in between, and the server restarted.
THEOREM NamesServeTheirOwn == Spec => NamesServeOwn
<1>1. TypeInv /\ OwnInv => OwnName
  BY OwnConn DEF OwnInv, OwnName
<1>2. Spec /\ []CacheIsNamed => []OwnName
  BY <1>1, InitOwn, NextOwn, NamesInvariant, TypeInvariant, PTL DEF Spec
<1> QED BY <1>2, PTL DEF NamesServeOwn
=============================================================================
