SPECIFICATION Spec
CONSTANTS
  DurationHours = 0
  DurationMinutes = 3
  StartHour = 0
  StartMinute = 1
  MaxWork = 2
  Horizon = 600
  Failing = TRUE
INVARIANTS TypeOK StartIsBoundary PlanningIsCurrent
PROPERTIES NeverBackward DaysImplemented
