--------------------------- MODULE MCSourceVdbs ---------------------------
(***************************************************************************)
(* SourceVdbs for TLC: all connections have one name, which only one of    *)
(* them can have at a time, and what may happen is bounded together.       *)
(***************************************************************************)
EXTENDS SourceVdbs

CONSTANT MaxTrouble  \* bound: all that may happen, together

OneName == [c \in Conn |-> CHOOSE n \in Name : TRUE]

FewTroubles == inputs + faults + restarts <= MaxTrouble
=============================================================================
