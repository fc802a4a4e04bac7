---------------------------- MODULE MCPublisher ----------------------------
(***************************************************************************)
(* Publisher for TLC: the threads of a kind are interchangeable, and jobs, *)
(* faults and deletes are bounded together.                                *)
(***************************************************************************)
EXTENDS Publisher, TLC

CONSTANT MaxEvents   \* bound: jobs, faults and delete requests taken together

Symmetry == Permutations(Client) \union Permutations(Worker)

FewEvents == njobs + faults + deletes <= MaxEvents
=============================================================================
