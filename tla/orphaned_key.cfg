SPECIFICATION Spec
CONSTANTS
  None = None
  Keys = {k1}
  Bodies = {b1, b2}
  Acceptable = {b1, b2}
  Insertable = {b1}
  Calls = {c1, c2}
SYMMETRY Symmetry
INVARIANTS OrphanedOnlyByCrash
