\* Two clients of one process, so that their receive threads share the static
\* buffer, and each receives while it sends.  Client 1 sends more than one read
\* of either program takes, in writes that need not fit the server's read.
CONSTANTS
  Clients = {1, 2}
  Units <- TwoSenders
  ReadCap = 2
  MaxWrite = 3
  Process <- OneProcess
  BufCap = 2
  Newlines <- LineEnds
  Nul = Nul
  Garbage = Garbage
  SockCap = 2
SPECIFICATION ChatSpec
INVARIANTS
  PrintsWhatItReads
  RelayInOrder
  StallNeedsFullRead
PROPERTIES
  JoinsReturn
CHECK_DEADLOCK FALSE
