SPECIFICATION FairSpec
CONSTANTS
  MaxCommandCount = 3
  MaxExecDepth = 2
  FirstPID <- MCFirstPID
  ExitCodes <- MCExitCodes
  SignalCodes <- MCSignals
  WaitArgs <- MCWaitArgs
  KillArgs <- MCKillArgs
  WaitsForward = TRUE
INVARIANTS
  TypeOK
  NoJobOutlivesExec
  KilledStatus
  TimeoutReported
  CancellationReaches
PROPERTIES
  ImplementsTable
  ExecReturns
