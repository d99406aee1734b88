\* Three clusters, positions 201 and 202: the position counter wraps and meets
\* a position in use.
SPECIFICATION Spec
CONSTANTS
  b1 = b1
  b2 = b2
  b3 = b3
  Clusters = {b1, b2, b3}
  PosMin = 200
  PosMax = 202
  MaxFaults = 3
SYMMETRY MCSymmetry
INVARIANTS TypeOK NoOrphan PosUnique SearchEnds InfoBackedBelowMax
