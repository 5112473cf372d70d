\* Integers of 2 and 3 bits; every type of the library, and containers, pointers
\* and structures nested in each other.
CONSTANTS
  Bits32 = 2
  Bits64 = 3
  Names <- MCNames
  Junk = Junk
  Types <- MCTypes
  Values <- MCValues
  Documents <- MCDocuments
SPECIFICATION Spec
INVARIANTS
  RoundTrip
  TrueMeansRead
CHECK_DEADLOCK FALSE
