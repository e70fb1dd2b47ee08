\* A command line and an MCP server over one profile, two approvals.
SPECIFICATION FairSpec
CONSTANTS
  cli = cli
  mcp = mcp
  k1 = k1
  k2 = k2
  i1 = i1
  i2 = i2
  m = m
  n = n
  asked = asked
  None = None
  Procs <- MCProcs
  Keys <- MCKeys
  Ids <- MCIds
  Calls <- MCCalls
  AskedKeys <- MCAsked
  Commands <- MCCommands
  Drift <- MCDrift
  MaxStops = 1
  MaxChanges = 1
  MaxInvokes = 1
INVARIANTS TypeOK ProfileSigns ControlsKept AskedOnce
PROPERTIES PlansAreGoverned ApprovedIsPerformed
\* A profile torn by a stopped creation refuses every command.
CHECK_DEADLOCK FALSE
