SPECIFICATION FairSpec
CONSTANTS
  db = db
  token = token
  oidc = oidc
  apiKey = apiKey
  publicKey = publicKey
  Requests <- AllRequests
  InternalNames <- MCInternal
  TelnyxNames <- MCTelnyx
  OperatorNames <- MCAnyone
  ProbesMayFail = TRUE
  MaxStops = 2
INVARIANTS
  TypeOK
  ReceiptHonest
  RunningHostHasSecrets
  LicensedAtFirstBoot
PROPERTIES
  ResumesInOrder
  EndsOrIsWedged
  UninterruptedCompletes
\* A torn launch receipt leaves no step: the command ends on it at once.
CHECK_DEADLOCK FALSE
