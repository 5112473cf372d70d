\* Two threads of one process and a second process open the segment, a reader
\* reads; sizes of several MB wrap.
CONSTANTS
  Writers = {1, 2, 3}
  Process <- TwoAndOne
  Asks <- SomeAsks
  Readers = {r}
  MB = 2
  Wrap = 8
  Nodes <- SomeNodes
  Wrap64 = 16
SPECIFICATION Spec
INVARIANTS
  MappingBacked
  SizeAsAsked
PROPERTIES
  OpenReturns
  ReaderConnects
CHECK_DEADLOCK FALSE
