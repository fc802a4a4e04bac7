--------------------------- MODULE MCConnections ---------------------------
(***************************************************************************)
(* Connections for TLC: all connections have the same name in Syndesis, so *)
(* that names can clash, and what may go wrong is bounded together.        *)
(***************************************************************************)
EXTENDS Connections

CONSTANT MaxTrouble  \* bound: faults, broken sockets and restarts together

SameName == [c \in Conn |-> CHOOSE n \in Name : TRUE]

FewTroubles == faults + breaks + restarts <= MaxTrouble
=============================================================================
