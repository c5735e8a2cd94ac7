SPECIFICATION Spec
SYMMETRY JournalSymmetry
CONSTANTS
  Sessions = {s1, s2}
  Calls = {c1, c2, c3, c4}
  None = None
  MaxCrashes = 1
INVARIANTS
  JournalTypeOK
  SeqsConsecutive
  ReturnedIsDurable
  BoundaryReadable
  DeletedStaysGone
PROPERTIES
  ImplementsLog
