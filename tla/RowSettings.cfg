SPECIFICATION FairSpec
CONSTANTS
  DeviceIds = {d1}
  Users = {u1}
  Slots = {s1, s2}
  Kinds = {"sensorData", "command", "ensure"}
  Names = {}
  Connections = {}
  Statuses = {"PROCESSING"}
  Times = {t1}
  Urls = {}
  Cameras = {}
  Settings = {g1, g2}
  None = None
  Undefined = Undefined
PROPERTIES
  EffectStored
  SettingsAccumulate
  Answered
