SPECIFICATION Spec
CONSTANTS
  Keys = {k1, k2}
  Files = {f0, f1}
  File0 = f0
  NoFile = NoFile
  NoKey = NoKey
  Entries = {e1, e2, e3}
  MaxTime = 1
  MaxLog = 3
  MaxMisses = 2
  MaxWork = 3
  k1 = k1
  k2 = k2
  f0 = f0
  f1 = f1
  e1 = e1
  e2 = e2
  e3 = e3
SYMMETRY Symmetry
INVARIANTS
  DeletedStaysDeleted
