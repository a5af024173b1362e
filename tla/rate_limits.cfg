SPECIFICATION Spec
CONSTANTS
  Calls = {c1, c2, c3, c4, c5}
  Keys = {k1, k2}
  MaxAttempts = 1
  Window = 1
  MaxThreads = 2
  MaxTime = 4
SYMMETRY Symmetry
INVARIANTS
  WindowBound
  RefusedOnlyWhenFull
  OvershootBounded
