SPECIFICATION FairSpec
CONSTANTS
  db = db
  token = token
  oidc = oidc
  apiKey = apiKey
  publicKey = publicKey
  Requests <- BundledOnGcp
  InternalNames <- MCInternal
  TelnyxNames <- MCTelnyx
  OperatorNames = {}
  ProbesMayFail = FALSE
  MaxStops = 1
PROPERTY
  ResumesToCompletion
\* A torn launch receipt leaves no step: the command ends on it at once.
CHECK_DEADLOCK FALSE
