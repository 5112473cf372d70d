\* Two readers, two Updates and one Reset: the third write meets buffers that
\* have been swapped twice.
CONSTANTS
  Readers = {r1, r2}
  Updaters = {u1, u2}
  Resetters = {z1}
  None = None
SPECIFICATION FairSpec
INVARIANTS
  OnlyOvertakenReadersConflict
  BothBuffersCurrent
PROPERTIES
  PublishedMovesForward
  UpdateReturns
CHECK_DEADLOCK FALSE
