CONSTANTS
  t1 = t1
  t2 = t2
  cut = cut
  Text = {t1, t2, cut}
  Undecodable = {cut}
  MaxInFlight = 2
  MaxUpdates = 3
  MaxMisread = 2
  NULL = NULL
SPECIFICATION FairSpec
CHECK_DEADLOCK FALSE
INVARIANTS TypeOK Agreement MonitorLives HiddenIsRepeated
PROPERTIES  DisconnectNoticed
