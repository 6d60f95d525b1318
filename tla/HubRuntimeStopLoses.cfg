\* A Stop during a Start: the Start publishes all the same.
CONSTANTS
  s1 = s1  s2 = s2  s3 = s3  t1 = t1  t2 = t2  t3 = t3
  None = None
  Relative = Relative
  Starts <- TwoStarts
  Stops <- OneStop
  Serial = FALSE
  InitialWorkDirs <- NoWorkDir
SPECIFICATION Spec
INVARIANT StopBeatsStart
