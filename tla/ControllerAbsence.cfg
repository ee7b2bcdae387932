\* One user, one helper: a helper that goes away while a connection is on record.
SPECIFICATION RetrySpec
CONSTANTS
  Tasks = {t1}
  NoTask = NoTask
  Modes = {split}
  NoMode = NoMode
  MaxConf = 1
  MaxFaults = 1
  Gated = TRUE
PROPERTIES
  AbsenceIsRetryable
