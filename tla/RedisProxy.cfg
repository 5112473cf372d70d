\* A call that times out, a call whose commands overtake its late ones, and a
\* third that reads; pipelines of two; one of the values is set with an expiry.
CONSTANTS
  Keys = {k1}
  Values = {v1, v2}
  Expiring = {v2}
  None = None
  MaxCalls = 3
  MaxPipe = 2
SPECIFICATION ProxySpec
INVARIANTS
  RepliesAreOwn
  AcknowledgedSetHolds
PROPERTIES
  CallReturns
CHECK_DEADLOCK FALSE
