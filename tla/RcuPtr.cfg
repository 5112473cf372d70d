\* Two updaters against one user that loads and stores.  Each updater holds at
\* most two objects, the user one and sp_ one: six addresses never run out.
CONSTANTS
  Updaters = {u1, u2}
  Users = {s1}
  Addr = {a1, a2, a3, a4, a5, a6}
  Null = Null
SPECIFICATION Spec
INVARIANTS
  SwapIsCurrent
PROPERTIES
  SnapshotsAreImmutable
  ImplementsAtomicCell
