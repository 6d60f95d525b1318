\* Three calls of any kind on two keys, at once, over connections that break.
CONSTANTS
  c1 = c1  c2 = c2  c3 = c3  k1 = k1  k2 = k2
  NoKey = NoKey  Absent = Absent  Unreadable = Unreadable  Nil = Nil
  Calls <- ThreeCalls
  Keys <- TwoKeys
SYMMETRY Interchangeable
SPECIFICATION Spec
INVARIANTS
  TypeOK
  LastAckedWins
  SchemaSettled
PROPERTY ImplementsDocStore
