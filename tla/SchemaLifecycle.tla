--------------------------- MODULE SchemaLifecycle ---------------------------
(***************************************************************************)
(* What the server promises of the rows that hold the schemas of           *)
(* connections, without threads, queues, load VDBs or restarts: there is   *)
(* no row before Syndesis has announced the connection and none is deleted *)
(* before Syndesis has dropped it; a schema, once stored, may be replaced  *)
(* but is never lost; and a row that has been deleted never comes back.    *)
(* Connections do not affect each other, and one step may be of several.   *)
(***************************************************************************)
CONSTANT Connection

VARIABLES
    wanted,    \* connection -> what Syndesis has said of it
    phase      \* connection -> what has become of its row

lifeVars == <<wanted, phase>>

LifeInit ==
    /\ wanted = [c \in Connection |-> "new"]
    /\ phase = [c \in Connection |-> "none"]

Keeps(c) == phase'[c] = phase[c]
Heard(c) == wanted'[c] = wanted[c]

Announce(c) == wanted[c] = "new" /\ wanted'[c] = "announced" /\ Keeps(c)

Create(c) ==
    wanted[c] # "new" /\ phase[c] = "none" /\ phase'[c] = "unloaded" /\ Heard(c)

Store(c) == phase[c] = "unloaded" /\ phase'[c] = "loaded" /\ Heard(c)

\* A row that has never been made will not be made any more.
Drop(c) ==
    /\ wanted[c] = "announced"
    /\ wanted'[c] = "dropped"
    /\ Keeps(c) \/ (phase[c] = "none" /\ phase'[c] = "deleted")

Delete(c) == wanted[c] = "dropped" /\ phase'[c] = "deleted" /\ Heard(c)

LifeStep(c) ==
    \/ Announce(c) \/ Create(c) \/ Store(c) \/ Drop(c) \/ Delete(c)
    \/ Heard(c) /\ Keeps(c)

LifeNext == \A c \in Connection : LifeStep(c)

Lifecycle == LifeInit /\ [][LifeNext]_lifeVars
=============================================================================
