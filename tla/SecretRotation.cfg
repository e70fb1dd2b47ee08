\* One terminal; a value is rotated and its first version disabled.
SPECIFICATION Spec
CONSTANTS
  t = t
  u = u
  db = db
  pw = pw
  tx = tx
  Procs <- MCOne
  InternalNames <- MCInternal
  OtherNames <- MCOther
  Settable <- MCSettable
  Providers <- MCGcp
  ChecksMayFail = FALSE
  MaxOps = 4
  MaxStops = 0
  MaxDisabled = 1
PROPERTIES UpAfterVersionsExist
CHECK_DEADLOCK FALSE
