\* Three levels: a mark may lie two levels above a leaf and be pushed twice.
CONSTANTS
  Height = 2
  Increments = {1, 3}
  MaxOps = 4
SPECIFICATION TreeSpec
INVARIANT QueriesAgree
CHECK_DEADLOCK FALSE
