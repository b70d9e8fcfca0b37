CONSTANTS
  Scripts = {s1, s2}
SPECIFICATION FairSpec
CHECK_DEADLOCK FALSE
INVARIANTS FlowTypeOK AllOkMeansClosed TimeoutAloneNeverDoubles AllOkIsFlatUnexcused
PROPERTIES EveryScriptEnds
