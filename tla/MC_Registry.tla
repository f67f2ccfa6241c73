---------------------------- MODULE MC_Registry ----------------------------
(* Model-checking instance of Registry: two user contexts, five wrappers. *)
EXTENDS Registry, TLC

CONSTANTS c1, c2

MC_Ctx == {c1, c2}
MC_MaxVals == 5

\* The user contexts are interchangeable handles.
MC_Symmetry == Permutations(MC_Ctx)
=============================================================================
