CONSTANTS
  Positions <- StrokeToMid
  ReportedErrors <- Overloads
  Buttons = {"MID"}
  MAX_NUMBER_OF_COMMANDS = 1
  TIMEOUT_COMMAND = 4
  HomingRecovery = 0
  EackRemote = 1
  EackHook = 2
  StopRetry = 0
  MoveSetup = 1
  CloseSettle = 0
  JamCheck = 0
  enableTimer = 1
SPECIFICATION Spec
INVARIANTS ErrorStopsMotion WaitsAreOwn SystemInv
PROPERTIES StopIsKept
