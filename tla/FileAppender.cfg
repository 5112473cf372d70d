\* Two threads, days of three hours and a retention of one: the clock passes
\* midnight once, and an archive becomes overdue within a day.
CONSTANTS
  Writers = {w1, w2}
  RetainHours = 1
  HoursPerDay = 3
  MaxHour = 3
  MaxLines = 3
  MaxCrashes = 1
SPECIFICATION FairSpec
INVARIANTS
  NeverFiledEarly
  NoOverdueKept
PROPERTIES
  NoLineDestroyed
  YoungArchiveKept
  WriteReturns
CHECK_DEADLOCK FALSE
