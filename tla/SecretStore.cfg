\* Two terminals, an operator who sets and disables versions.
SPECIFICATION Spec
CONSTANTS
  t = t
  u = u
  db = db
  pw = pw
  tx = tx
  Procs <- MCTwo
  InternalNames <- MCInternal
  OtherNames <- MCOther
  Settable <- MCSettable
  Providers <- MCClouds
  ChecksMayFail = TRUE
  MaxOps = 4
  MaxStops = 1
  MaxDisabled = 1
SYMMETRY Terminals
INVARIANTS TypeOK PinsCorrelated OperatorNotCovered
PROPERTIES AdoptsRotations
\* The system stops when every command within the bounds was given.
CHECK_DEADLOCK FALSE
