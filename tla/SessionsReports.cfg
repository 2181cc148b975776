SPECIFICATION FairSpec
CONSTANTS
  Requests = {r1, r2}
  Users = {u1}
  MaxAttempts = 2
  MaxStalls = 1
  Queues = {"redis", "memory"}
  MaxCrashes = 2
  None = None
INVARIANTS
  TypeOK
  ReportInOrder
  AnsweredIsReported
PROPERTIES
  ImplementsDelivery
  DeliverySettles
CHECK_DEADLOCK FALSE
