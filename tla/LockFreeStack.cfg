\* Two threads, three nodes: a Pop that is overtaken by pops and pushes of the
\* node it has read needs no more.
CONSTANTS
  Threads = {t1, t2}
  Nodes = {n1, n2, n3}
  Null = Null
SPECIFICATION Spec
INVARIANTS
  OnlyAbaBreaksChain
  NodesConserved
CHECK_DEADLOCK FALSE
