SPECIFICATION Spec
CONSTANTS
  MaxDuration = 4
  BufferingDuration = 2
  QuickStartDuration = 1
  NewMax = {2, 3, 4}
  NewBuffering = {3}
  NewQuick = {2}
  Durations <- AllDurations
INVARIANTS
  ShutForWant
  StarvedAdmitted
