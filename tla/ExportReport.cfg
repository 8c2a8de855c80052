SPECIFICATION ExportReportSpec
CONSTANTS
  c1 = c1
  c2 = c2
  c3 = c3
  Calls <- TwoCalls
  MaxPolls = 1
  MaxChanges = 2
  States <- UpAndDown
  Start = 1
  End = 4
  Shift = 0
  PAGE = 2
  MAX_CHANGES = 4
  Downtimes <- SomeDowntimes
  Since = 2
  LIMIT = 2
  MaxDowntimes = 3
  MaxHistory = 3
INVARIANTS DoneAfterOwnExport DoneRunsIfUnchanged MeasuresHistory PlannedOnce SharesOfWindow
PROPERTIES KeepsContract CallsReturn ReportReturns
