CONSTANTS
  ReportedPositions <- Limits
  ReportedErrors = {"NONE", "OVERLOAD"}
  StandstillReports = 10
  FrameSize = 4
  Headers = {1}
  MaxBuffer = 9
  MaxCuts = 3
  Byte = {0, 1, 200, 255}
  MaxBytes = 5
  max_blocklen = 2
  Word = 1531
SPECIFICATION ReportsSpec
INVARIANTS GettersSeeClasses StandstillLasts OneLostPerCut ResultIsChecksum NoOverflow
PROPERTIES ReportsAreDatabaseRuns FramesGoOn
