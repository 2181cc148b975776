SPECIFICATION Spec
CONSTANTS
  DeviceIds = {d1}
  Users = {u1, u2}
  Slots = {s1, s2}
  Kinds = {"pair", "heartbeat", "registerCamera", "removeCamera", "updateDevice"}
  Names = {}
  Connections = {}
  Statuses = {}
  Times = {t1}
  Urls = {url1}
  Cameras = {cam1}
  Settings = {}
  None = None
  Undefined = Undefined
SYMMETRY SlotSymmetry
INVARIANTS
  IndInv
PROPERTIES
  OnlyOverlapLosesColumns
  OnlyOverlapChangesOwner
  OnlyOverlapReplacesCamera
  PatchByOwner
