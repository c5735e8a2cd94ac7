SPECIFICATION Spec
SYMMETRY InputSymmetry
CONSTANTS
  Input = {i1, i2, i3}
  Callers = {c1}
  None = None
  Behaviours = {"steer", "queue"}
  MaxRuns = 4
  MaxStarts = 1
  MaxStops = 0
  MaxFaults = 0
  MayClose = FALSE
INVARIANTS
  NoStrandedSteer
