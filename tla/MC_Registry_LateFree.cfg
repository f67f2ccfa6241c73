CONSTANTS
  c1 = c1
  c2 = c2
  Ctx <- MC_Ctx
  Internal = Internal
  NullCtx = NullCtx
  MaxVals <- MC_MaxVals
  HostMay = {"late_free"}
SYMMETRY MC_Symmetry
SPECIFICATION Spec
INVARIANT NoFreeAfterDispose
