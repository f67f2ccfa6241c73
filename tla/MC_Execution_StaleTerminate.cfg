CONSTANT MaxDepth <- MC_MaxDepth
SPECIFICATION ExecSpec
INVARIANT TerminationTargetsCurrentRun
