CONSTANTS
  Positions <- StrokeOnly
  ReportedErrors <- Overloads
  Buttons = {"MID"}
  MAX_NUMBER_OF_COMMANDS = 3
  TIMEOUT_COMMAND = 5
  HomingRecovery = 0
  EackRemote = 1
  EackHook = 2
  StopRetry = 0
  MoveSetup = 0
  CloseSettle = 0
  JamCheck = 1
  enableTimer = 1
SPECIFICATION Spec
CONSTRAINT StaysConnected
INVARIANT SeekMeansNoMove
