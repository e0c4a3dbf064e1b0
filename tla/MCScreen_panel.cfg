CONSTANTS
  Filtered = {"CLOSE", "OPEN"}
  Threshold = 2
  States = {"UNINITIALIZED", "CLOSED", "PARTIALLY_OPEN", "OPEN", "ERROR"}
  TimerValues = {0, 499, 500}
  line_MAX = 4
  chr_MAX = 20
  Width <- MCWidth
  Lines <- MCLines
SPECIFICATION ScreenSpec
INVARIANTS EstopReleased OneLed LineAgreesWithLed LinesShown
PROPERTIES FilteredPress LongPressExecutes PositionIsShown ReadyEnds
