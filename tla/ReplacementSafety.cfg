\* Two terminals, five commands over two receipts, an operator who acts at any
\* time.  Every receipt may be written and every bound used up: deadlock is
\* not checked.
SPECIFICATION Spec
CONSTANTS
  t1 = t1
  t2 = t2
  p = p
  q = q
  b1 = b1
  b2 = b2
  r1 = r1
  r2 = r2
  Terminals <- MCTwoTerminals
  Paths <- MCPath
  Backups <- MCBackup
  Releases <- MCRelease
  Commands <- MCCommands
  MaxActs = 1
  MaxStops = 1
  MaxVms = 3
SYMMETRY Alike
INVARIANTS TypeOK AtMostOneApply TenantDataNeverLost
PROPERTIES ReceiptTrue
CHECK_DEADLOCK FALSE
