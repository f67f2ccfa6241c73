CONSTANTS
  c1 = c1
  c2 = c2
  Ctx <- MC_Ctx
  Internal = Internal
  NullCtx = NullCtx
  MaxVals <- MC_AnyHostVals
  MaxDepth <- MC_MaxDepth
  MaxArgs <- MC_MaxArgs
  MaxQueue <- MC_MaxQueue
  HostMay = {"refree", "late_free", "free_in_use", "share_native", "free_pending", "internal_then"}
SPECIFICATION BridgeSpec
INVARIANTS
  BridgeTypeOK
  RegistryExact
PROPERTY ImplementsArena
