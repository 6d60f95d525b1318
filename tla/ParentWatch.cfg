\* Three parent connections, one after the other, that break at any step.
CONSTANTS
  c1 = c1  c2 = c2  c3 = c3
  None = None
  Conns <- ThreeConns
SPECIFICATION FairSpec
INVARIANTS
  TypeOK
  RegisteredOnce
  NodeIDFirst
PROPERTIES
  Registers
  Ends
