----------------------------- MODULE MC_Bridge -----------------------------
(* Model-checking instance of Bridge: two user contexts, five wrappers,  *)
(* three nested frames, one argument, one queued continuation.            *)
EXTENDS Bridge, TLC

CONSTANTS c1, c2

MC_Ctx == {c1, c2}
MC_MaxVals == 5
MC_MaxDepth == 3
MC_MaxArgs == 1
MC_MaxQueue == 1

\* A smaller instance for runs that let the host misbehave in every way.
MC_AnyHostVals == 4

\* The user contexts are interchangeable handles.
MC_Symmetry == Permutations(MC_Ctx)
=============================================================================
