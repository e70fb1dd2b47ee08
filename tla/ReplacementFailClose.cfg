\* A restore that fails, and the connection that fails with it.
SPECIFICATION Spec
CONSTANTS
  t1 = t1
  t2 = t2
  p = p
  q = q
  b1 = b1
  b2 = b2
  r1 = r1
  r2 = r2
  Terminals <- MCOneTerminal
  Paths <- MCPath
  Backups <- MCBackup
  Releases <- MCRelease
  Commands <- MCCommand1
  MaxActs = 0
  MaxStops = 2
  MaxVms = 3
PROPERTIES RestoreFailureStopsApp
CHECK_DEADLOCK FALSE
