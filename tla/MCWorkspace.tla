----------------------------- MODULE MCWorkspace -----------------------------
(***************************************************************************)
(* Workspace for TLC: views, threads and texts are interchangeable within  *)
(* their sets, but for the text that is generated without sources, and no  *)
(* property of the runs is a liveness property.                            *)
(***************************************************************************)
EXTENDS Workspace, TLC

Symmetry ==
    Permutations(View) \union Permutations(Thread) \union Permutations(Good \ {Sourceless})

\* Either all views were generated, or all are a user's.
SomeFiles ==
    {[v \in View |-> [Imported(t) EXCEPT !.generated = b]] :
        t \in Good \ {Sourceless}, b \in BOOLEAN}
=============================================================================
