SPECIFICATION Spec
CONSTANTS
  Devices = {d1}
  Ips = {ip1, ip2}
  SensorMax = 2
  GeneralMax = 1
  Window = 2
SYMMETRY ClientSymmetry
INVARIANTS
  SlidingBudget
PROPERTIES
  RefusedOnlyWhenSpent
