SPECIFICATION Spec
CONSTANTS
  Devices = {d1, d2}
  Users = {u1, u2}
  Amounts <- GramAmounts
  Formulas <- InstanceFormulas
  DayOffsets <- AroundToday
  FirstDay = 6
  LastDay = 8
  MonthStarts <- InstanceMonths
  Limit = 1
  MaxSessions = 2
  None = None
  Null = Null
SYMMETRY DeviceUserSymmetry
INVARIANT
  TargetIsFiveKilos
CHECK_DEADLOCK FALSE
