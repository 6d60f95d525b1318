\* Two concurrent Starts and two concurrent Stops, without WorkDir: who owns what
\* was started, and that all of it ends.
CONSTANTS
  s1 = s1  s2 = s2  s3 = s3  t1 = t1  t2 = t2  t3 = t3
  None = None
  Relative = Relative
  Starts <- TwoStarts
  Stops <- TwoStops
  Serial = FALSE
  InitialWorkDirs <- NoWorkDir
SPECIFICATION FairSpec
INVARIANTS
  TypeOK
  OwnedServers
  TakenOnce
  WatcherOwned
  OneWatcherPerServer
PROPERTIES
  LeavesThroughStop
  ImplementsSlot
  UnpublishedSettles
  WatcherEnds
