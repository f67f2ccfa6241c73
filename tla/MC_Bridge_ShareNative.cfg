CONSTANTS
  c1 = c1
  c2 = c2
  Ctx <- MC_Ctx
  Internal = Internal
  NullCtx = NullCtx
  MaxVals <- MC_MaxVals
  MaxDepth <- MC_MaxDepth
  MaxArgs <- MC_MaxArgs
  MaxQueue <- MC_MaxQueue
  HostMay = {"share_native"}
SYMMETRY MC_Symmetry
SPECIFICATION BridgeSpec
INVARIANT CallbackFindsSandbox
