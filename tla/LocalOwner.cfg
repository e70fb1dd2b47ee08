\* Two launches of two directories on one VM.
SPECIFICATION Spec
CONSTANTS
  t = t
  u = u
  a = a
  b = b
  r1 = r1
  r2 = r2
  s1 = s1
  s2 = s2
  s3 = s3
  s4 = s4
  w1 = w1
  w2 = w2
  w3 = w3
  None = None
  Procs <- MCProcs
  Dirs <- MCDirs
  Releases <- MCReleases
  Batches <- MCBatches
  Passwords <- MCPasswords
  Commands <- MCCommands
  MaxStops = 1
  MaxWipes = 1
PROPERTIES OwnerUndisturbed
\* The bound on commands that cross ends the behaviours.
CHECK_DEADLOCK FALSE
