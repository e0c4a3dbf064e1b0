CONSTANTS
  Positions <- StrokeOrOpen
  ReportedErrors <- NoErrors
  Buttons = {"CLOSE", "OPEN"}
  MAX_NUMBER_OF_COMMANDS = 2
  TIMEOUT_COMMAND = 5
  HomingRecovery = 0
  EackRemote = 1
  EackHook = 2
  StopRetry = 0
  MoveSetup = 1
  CloseSettle = 0
  JamCheck = 1
  enableTimer = 1
SPECIFICATION Spec
INVARIANTS DisabledMeansIdle LimiterMatchesMove
PROPERTIES StopNotDropped MoveAskedHomed CommandsAreQueued
