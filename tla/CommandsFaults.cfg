SPECIFICATION Spec
CONSTANTS
  Commands = {c1, c2}
  Ackers = {a1}
  Verdicts = {"ACKED", "PENDING"}
  MaxAttempts = 2
  MaxStalls = 1
  Queues = {"redis", "memory"}
  MaxCrashes = 2
  None = None
SYMMETRY CommandSymmetry
INVARIANTS
  TypeOK
  AckedMeansDone
  CompletedIsSettled
  OrderKept
  AppliedBounded
CHECK_DEADLOCK FALSE
