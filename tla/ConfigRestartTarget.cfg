\* A stored target does not enable the parent in the configuration.
SPECIFICATION Spec
CONSTANTS
  Given <- MCGiven
  Stored <- MCPlain
  Overrides <- MCOverrides
  Numbers <- MCNumbers
  Targets <- MCTargets
  NotGiven = NotGiven
  Absent = Absent
PROPERTY TargetEnables
