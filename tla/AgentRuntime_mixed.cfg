SPECIFICATION Spec
SYMMETRY InputSymmetry
CONSTANTS
  Input = {i1, i2}
  Callers = {c1}
  None = None
  Behaviours = {"steer", "queue"}
  MaxRuns = 4
  MaxStarts = 1
  MaxStops = 2
  MaxFaults = 1
  MayClose = FALSE
INVARIANTS
  TypeOK
  OneDisposition
  SteerConserved
  SteersInOrder
  ControlNeverRaises
  MutualExclusion
  InputDurableBeforeAgent
  QueueAccounted
PROPERTIES
  ImplementsLease
