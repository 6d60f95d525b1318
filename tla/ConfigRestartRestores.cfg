\* A Runtime that is restarted ignores what was stored meanwhile.
SPECIFICATION Spec
CONSTANTS
  Given <- MCGiven
  Stored <- MCPlain
  Overrides <- MCOverrides
  Numbers <- MCNumbers
  Targets <- MCTargets
  NotGiven = NotGiven
  Absent = Absent
INVARIANT RestartRestores
