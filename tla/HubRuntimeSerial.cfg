\* One call at a time, three Starts and three Stops, every WorkDir.
CONSTANTS
  s1 = s1  s2 = s2  s3 = s3  t1 = t1  t2 = t2  t3 = t3
  None = None
  Relative = Relative
  Starts <- ThreeStarts
  Stops <- ThreeStops
  Serial = TRUE
  InitialWorkDirs <- AnyWorkDir
SPECIFICATION Spec
SYMMETRY Interchangeable
INVARIANTS
  CwdRestored
  ConfigDirStable
