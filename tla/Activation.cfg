\* Two releases, two terminals, sessions lost while their scripts run on.
SPECIFICATION FairSpec
CONSTANTS
  t = t
  u = u
  r1 = r1
  r2 = r2
  f1 = f1
  f2 = f2
  q1 = q1
  q2 = q2
  q3 = q3
  None = None
  Procs <- MCProcs
  Releases <- MCReleases
  Admissible <- MCReleases
  Files <- MCFiles
  Paths <- MCPaths
  Commands <- MCCommands
  MaxOps = 3
  MaxTries = 2
  MaxStops = 1
  MaxEdits = 1
INVARIANTS TypeOK OnlyVerified AtMostOnce
PROPERTIES NodeIsReleased ReceiptTrue LicenceServed Recovers
\* The system stops when every path and operation within the bounds is used.
CHECK_DEADLOCK FALSE
