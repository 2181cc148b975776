SPECIFICATION Spec
CONSTANTS
  Devices = {d1, d2}
  Ips = {ip1}
  SensorMax = 2
  GeneralMax = 2
  Window = 2
PROPERTIES
  LimitPerDevice
