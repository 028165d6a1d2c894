SPECIFICATION CalendarSpec
CONSTANTS
  BaseYear = 2022
  BaseWeekday = 5
  FirstDate = 650
  LastDate = 930
  Retentions = {1, 2, 12}
  Ahead = 0
CHECK_DEADLOCK FALSE
INVARIANT QuarterComparedWithLast
