SPECIFICATION Spec
CONSTANTS
  PAGE_SZ = 26
  LIST_1_MAX = 4
  LIST_2_MAX = 6
  LIST_3_MAX = 8
  Pages = 2
  Sizes = {0, 1, 7, 13, 26}
  Grants = {g1, g2, g3}
  Calls = 6
SYMMETRY Symmetry
CHECK_DEADLOCK FALSE
INVARIANT
  RegionsAreValid
