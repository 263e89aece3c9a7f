SPECIFICATION DatesSpec
CONSTANTS
  Dates = {"May", "June"}
  Original = "May"
  MaxPlans = 1
  MaxDateTroubles = 0
INVARIANT FiledUnderItsDate
CHECK_DEADLOCK FALSE
