SPECIFICATION Spec
SYMMETRY InputSymmetry
CONSTANTS
  Input = {i1, i2, i3}
  Callers = {c1}
  None = None
  Behaviours = {"queue"}
  MaxRuns = 4
  MaxStarts = 1
  MaxStops = 2
  MaxFaults = 0
  MayClose = FALSE
INVARIANTS
  QueueIsFIFO
PROPERTIES
  StoppedRunKeepsQueue
