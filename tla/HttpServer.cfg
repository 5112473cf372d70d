\* One connection (connections share nothing but the loop) with each script.
\* A last chunk has up to two units, so that a send can cut it; responses of
\* less than a chunk, one, more than one and two.
CONSTANTS
  Conns = {c1}
  Scripts <- MCScripts
  ReadCap = 3
  Chunk = 3
  MaxReq = 4
  RespLens = {2, 3, 5, 6}
SPECIFICATION Spec
INVARIANTS
  CursorTracksSocket
  OnlyLastChunkCut
  NoLostEdge
PROPERTIES
  Answered
CHECK_DEADLOCK FALSE
