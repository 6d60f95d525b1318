\* One SetPersistent at a time, with crashes: durable, and an atomic store.
CONSTANTS
  k1 = k1  k2 = k2  a = a  b = b  w1 = w1  w2 = w2
  Absent = Absent  Torn = Torn  NoFile = NoFile  Original = Original
  Keys <- TwoKeys
  Values <- TwoValues
  Defaults <- DefaultsK2
  Explicit <- ExplicitK2
  Overlays <- AnOverlay
  Writers <- TwoWriters
  SerialWriters = TRUE
  RenameMayFail = FALSE
  MaxCrashes = 2
SPECIFICATION FairSpec
INVARIANTS
  Durable
  RestartTransparent
PROPERTIES
  ImplementsStore
  TakesEffect
