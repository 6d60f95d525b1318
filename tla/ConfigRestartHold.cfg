\* Every input, every file, any sequence of calls and processes.
SPECIFICATION Spec
CONSTANTS
  Given <- MCGiven
  Stored <- MCStored
  Overrides <- MCOverrides
  Numbers <- MCNumbers
  Targets <- MCTargets
  NotGiven = NotGiven
  Absent = Absent
INVARIANTS TypeOK CallerWins FreshRestores
