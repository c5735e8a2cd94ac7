SPECIFICATION FairSpec
CONSTANTS
  Input = {i1, i2}
  Callers = {c1}
  None = None
  Behaviours = {"steer", "queue"}
  MaxRuns = 4
  MaxStarts = 1
  MaxStops = 0
  MaxFaults = 1
  MayClose = TRUE
PROPERTIES
  SteerDisposed
  QueueServed
  CloseTerminates
