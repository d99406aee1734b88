\* Two servers, one user, two connections on each; a restart.
SPECIFICATION Spec
CONSTANTS
  c1 = c1
  c2 = c2
  u1 = u1
  None = None
  Closed = Closed
  Unauth = Unauth
  Asked = Asked
  Servers = {c1, c2}
  Users = {u1}
  Orderly = TRUE
  InvalidTime = 1
  MaxPos = 2
  MaxLogins = 2
  MaxTime = 3
  MaxRestarts = 1
  MaxFaults = 1
SYMMETRY MCSymmetry
INVARIANTS RegistryMatchesConns SingleSession KickUnderWay NoGhost
CHECK_DEADLOCK FALSE
