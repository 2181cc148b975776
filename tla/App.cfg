SPECIFICATION AppSpec
CONSTANTS
  NumRequests = 3
  Settings = {"color"}
  Types = {"CLEANING"}
  Changes <- AppChanges
  Null = Null
  AsTime <- AppAsTime
  NoTime = NoTime
  Options <- AppOptions
  AttributeOf <- AppAttributeOf
  Wishes <- AppWishes
  Calls <- AppCalls
  Configs <- AppConfigs
  MaxTime = 2
  NaN = NaN
  Users = {u1, u2}
  Orders <- AppOrders
  QuickCommands <- AppQuickCommands
  MaxPairings = 2
  None = None
INVARIANTS
  AppTypeOK
  OneRowPerKey
  ReadsBack
  CharacterWhole
  AccountIsItsOwners
  CommandFollowsMessage
CHECK_DEADLOCK FALSE
