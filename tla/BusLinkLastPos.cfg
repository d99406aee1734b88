\* Two clusters that reach the last position of the range.
SPECIFICATION Spec
CONSTANTS
  b1 = b1
  b2 = b2
  Clusters = {b1, b2}
  PosMin = 200
  PosMax = 202
  MaxFaults = 3
INVARIANTS InfoBacked
