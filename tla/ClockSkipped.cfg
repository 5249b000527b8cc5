SPECIFICATION Spec
CONSTANTS
  DurationHours = 0
  DurationMinutes = 3
  StartHour = 0
  StartMinute = 1
  MaxWork = 1
  Horizon = 600
  Failing = FALSE
INVARIANTS NextIsInitialized
