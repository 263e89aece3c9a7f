SPECIFICATION HaSpec
CONSTANTS
  Days = {1, 2, 3}
  MonthOf <- RideMonthOf
  Fixes = {1, 2}
  Poor = {}
  AtHome = {1}
  Impossible = {}
  MaxDays = 1
  MaxFixes = 2
  MaxLapses = 1
  MaxHaTroubles = 2
INVARIANT StaleIsRemembered
CHECK_DEADLOCK FALSE
