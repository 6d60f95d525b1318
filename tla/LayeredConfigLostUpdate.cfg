\* Two SetPersistent calls at once: an acknowledged value is lost.
CONSTANTS
  k1 = k1  k2 = k2  a = a  b = b  w1 = w1  w2 = w2
  Absent = Absent  Torn = Torn  NoFile = NoFile  Original = Original
  Keys <- TwoKeys
  Values <- TwoValues
  Defaults <- DefaultsK2
  Explicit <- ExplicitK2
  Overlays <- AnOverlay
  Writers <- TwoWriters
  SerialWriters = FALSE
  RenameMayFail = FALSE
  MaxCrashes = 0
SPECIFICATION Spec
INVARIANT AcknowledgedStored
