CONSTANTS
  c1 = c1
  c2 = c2
  Ctx <- MC_Ctx
  Internal = Internal
  NullCtx = NullCtx
  MaxVals <- MC_MaxVals
  HostMay = {"refree", "late_free"}
SPECIFICATION Spec
INVARIANTS
  TypeOK
  RegistryExact
  WrapperLifetime
PROPERTY ImplementsArena
