SPECIFICATION FairSpec
CONSTANTS
  d1 = d1
  d2 = d2
  Message = {m1, m2}
  EmailEnabled = TRUE
  MaxRetries = 3
  Credential = {d1, d2, d3}
  Interval <- MCInterval
  Day = 4
  StartSlack = 1
  RunTime = 1
  MaxFailures = 2
  Writer = {w1, w2}
  MaxRows = 3
  PerPage = 1
  ExportCap = 2
  Wanted = "refused"
  Days = 2
  DayLength = 1
  Address = {"home", "abroad"}
  Browser = {"one", "two"}
  Hour = {9, 21}
  Lengths = {4, 8, 12, 16, 128}
INVARIANT HighRiskAlerts
CHECK_DEADLOCK FALSE
