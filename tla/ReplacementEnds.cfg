\* One command, rerun with the same arguments until it ends.  The command
\* may really stop for good: deadlock is not checked.
SPECIFICATION FairSpec
CONSTANTS
  t1 = t1
  t2 = t2
  p = p
  q = q
  b1 = b1
  b2 = b2
  r1 = r1
  r2 = r2
  Terminals <- MCOneTerminal
  Paths <- MCPath
  Backups <- MCBackup
  Releases <- MCRelease
  Commands <- MCCommand1
  MaxActs = 0
  MaxStops = 3
  MaxVms = 3
PROPERTIES ReplacementEnds
CHECK_DEADLOCK FALSE
