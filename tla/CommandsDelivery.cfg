SPECIFICATION FairSpec
CONSTANTS
  Commands = {c1, c2}
  Ackers = {}
  Verdicts = {}
  MaxAttempts = 2
  MaxStalls = 1
  Queues = {"redis", "memory"}
  MaxCrashes = 2
  None = None
PROPERTIES
  ImplementsDelivery
  DeliverySettles
CHECK_DEADLOCK FALSE
