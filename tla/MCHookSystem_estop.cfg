CONSTANTS
  Positions <- StrokeOrOverrun
  ReportedErrors <- NoErrors
  Buttons = {"CLOSE"}
  MAX_NUMBER_OF_COMMANDS = 1
  TIMEOUT_COMMAND = 5
  HomingRecovery = 1
  EackRemote = 2
  EackHook = 3
  StopRetry = 0
  MoveSetup = 1
  CloseSettle = 0
  JamCheck = 1
  enableTimer = 1
SPECIFICATION Spec
INVARIANT EstopStopsHoming
