SPECIFICATION Spec
CONSTANTS
  Devices = {d1, d2}
  Users = {u1, u2}
  Amounts <- InstanceAmounts
  Formulas <- InstanceFormulas
  DayOffsets <- AroundToday
  FirstDay = 6
  LastDay = 8
  MonthStarts <- InstanceMonths
  Limit = 1
  MaxSessions = 3
  None = None
  Null = Null
SYMMETRY DeviceUserSymmetry
INVARIANTS
  TypeOK
  ScoreSound
  RankingAgreesWithWeek
PROPERTIES
  WeekRollsOver
  LateReportHidesNothing
CHECK_DEADLOCK FALSE
