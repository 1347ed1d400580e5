\* Three windows: a group of two tabs and a third window to add, move or
\* merge, so that a window leaves one multi-tab group for another; two
\* identifiers, so that automatic tabbing can both join and refuse a group.
CONSTANTS
  Windows     = {w1, w2, w3}
  Identifiers = {i1, i2}
SPECIFICATION Spec
SYMMETRY MCSymmetry
INVARIANTS
  TypeOK
  TabGroupsPartition
  OneSelectedPerGroup
