SPECIFICATION ConnSpec
CONSTANTS
  Sockets = {s1, s2}
  NoSocket = none
  MaxAttempt = 30
INVARIANTS
  OneStream
PROPERTY
  Reconnects
