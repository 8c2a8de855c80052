SPECIFICATION ReportSpec
CONSTANTS
  States <- UpAndDown
  Start = 1
  End = 5
  Shift = 1
  PAGE = 2
  MAX_CHANGES = 4
  Downtimes <- NoDowntimes
  Since = 0
  LIMIT = 0
  MaxDowntimes = 0
  MaxHistory = 2
INVARIANT SharesOfWindow
