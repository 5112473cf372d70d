\* Two threads.  The counter wraps after three sequential calls and two that
\* overlap, and three more calls show whether the macro still logs.
CONSTANTS
  Threads = {t1, t2}
  Levels = {3, 4}
  Priorities = {3}
  N = 3
  Wrap = 8
  MaxCalls = 2
  MaxEvery = 8
  MaxSignals = 1
SPECIFICATION LoggerSpec
INVARIANTS
  OnlyUnderflowSilences
  ExitLeavesTrace
PROPERTIES
  FatalEnds
CHECK_DEADLOCK FALSE
