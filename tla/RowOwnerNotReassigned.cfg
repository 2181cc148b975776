SPECIFICATION FairSpec
CONSTANTS
  DeviceIds = {d1}
  Users = {u1, u2}
  Slots = {s1, s2}
  Kinds = {"ensure", "pair"}
  Names = {}
  Connections = {}
  Statuses = {}
  Times = {t1}
  Urls = {url1, url2}
  Cameras = {}
  Settings = {}
  None = None
  Undefined = Undefined
PROPERTIES
  OwnerNotReassigned
