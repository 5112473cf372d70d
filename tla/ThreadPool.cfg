\* Two workers, two clients, and three tasks that may enqueue each other.  Two
\* of them wait for the third.
CONSTANTS
  Workers = {w1, w2}
  Clients = {c1, c2}
  Tasks = {1, 2, 3}
  Awaits <- TwoWait
  None = None
SPECIFICATION FairSpec
INVARIANTS
  FifoExactlyOnce
  NoLostWakeup
PROPERTIES
  EveryFutureReady
  DestructorReturns
  ImplementsExecutor
