CONSTANT MaxDepth <- MC_MaxDepth
SPECIFICATION ExecSpec
INVARIANT ExecTypeOK
PROPERTY TerminationEndsRun
