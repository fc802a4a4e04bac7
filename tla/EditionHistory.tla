---------------------------- MODULE EditionHistory ----------------------------
(***************************************************************************)
(* What the server promises to who edits a virtualization and publishes    *)
(* it, without requests, versions of rows or a preview VDB: to publish is  *)
(* to take a picture of what is shown, all at once, and to call the        *)
(* virtualization unmodified until the next edit; an edition that has been *)
(* published stays as it is; and a revert that leaves the virtualization   *)
(* unmodified shows what the edition has.  Some edits are not told of; the *)
(* virtualization has drifted after them, until the next edit that is.     *)
(***************************************************************************)
CONSTANT Revision

VARIABLES
    live,       \* whether the virtualization exists
    shown,      \* what its views show
    modified,   \* whether it is said to have changed since it was published
    drifted,    \* whether it has drifted
    published   \* revision -> what its VDB and its export have

historyVars == <<live, shown, modified, drifted, published>>

HistoryInit == ~live /\ ~modified /\ ~drifted /\ DOMAIN published = {}

Create == ~live /\ live' /\ modified' /\ UNCHANGED <<drifted, published>>

Delete == live /\ ~live' /\ DOMAIN published' = {}

Edit == live /\ live' /\ modified' /\ ~drifted' /\ UNCHANGED published

Drift ==
    /\ live
    /\ drifted' = (drifted \/ shown' # shown)
    /\ UNCHANGED <<live, modified, published>>

\* There is one more edition.
Adds(r) ==
    /\ r \notin DOMAIN published
    /\ DOMAIN published' = DOMAIN published \union {r}
    /\ \A q \in DOMAIN published : published'[q] = published[q]

Publish(r) ==
    /\ live /\ modified
    /\ ~modified'
    /\ Adds(r)
    /\ ~drifted => published'[r] = [vdb |-> shown, export |-> shown]
    /\ UNCHANGED <<live, shown, drifted>>

\* What was not modified when the request began is published again, as it was
\* then, as it is now or in part; the virtualization may be another one by now.
Republish(r) == live /\ Adds(r) /\ UNCHANGED <<live, shown, modified, drifted>>

Revert(r) ==
    /\ live /\ live'
    /\ r \in DOMAIN published
    /\ ~modified' => shown' = published[r].export
    /\ drifted' => drifted \/ shown' # shown
    /\ UNCHANGED published

HistoryNext ==
    \/ Create \/ Delete \/ Edit \/ Drift
    \/ \E r \in Revision : Publish(r) \/ Republish(r) \/ Revert(r)

History == HistoryInit /\ [][HistoryNext]_historyVars
=============================================================================
