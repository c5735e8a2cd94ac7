SPECIFICATION Spec
SYMMETRY InputSymmetry
CONSTANTS
  Input = {i1, i2}
  Callers = {c1}
  None = None
  Behaviours = {"steer"}
  MaxRuns = 3
  MaxStarts = 1
  MaxStops = 1
  MaxFaults = 0
  MayClose = FALSE
INVARIANTS
  EndedRunsDeregistered
