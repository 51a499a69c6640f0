SPECIFICATION FairSpec
CONSTANTS
  MaxCommandCount = 3
  MaxExecDepth = 2
  FirstPID <- MCFirstPID
  ExitCodes <- FewExitCodes
  SignalCodes <- FewSignals
  WaitArgs <- FewWaitArgs
  KillArgs <- FewKillArgs
  WaitsForward = FALSE
CHECK_DEADLOCK FALSE
PROPERTIES
  ExecReturns
