CONSTANTS
  Positions <- StrokeOrOverrun
  ReportedErrors <- Overloads
  Buttons = {"CLOSE"}
  MAX_NUMBER_OF_COMMANDS = 1
  TIMEOUT_COMMAND = 6
  HomingRecovery = 1
  EackRemote = 1
  EackHook = 4
  StopRetry = 0
  MoveSetup = 1
  CloseSettle = 0
  JamCheck = 1
  enableTimer = 1
SPECIFICATION Spec
PROPERTY EackedMeansCleared
