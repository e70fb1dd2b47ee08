SPECIFICATION Spec
CONSTANTS
  t1 = t1
  t2 = t2
  c1 = c1
  c2 = c2
  None = None
  Procs <- MCProcs
  Configs <- MCConfigs
  MaxCommands = 5
  MaxStops = 1
  MaxEdits = 1
SYMMETRY Alike
INVARIANT TypeOK
PROPERTIES OnlyDestroyDestroys ReplacesExactly AsAsked StartsWithSecrets
\* Every command begun, edit and stop used up.
CHECK_DEADLOCK FALSE
