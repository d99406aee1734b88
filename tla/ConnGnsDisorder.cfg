\* Clients that log in twice on a connection, restarts during a login.
SPECIFICATION Spec
CONSTANTS
  c1 = c1
  c2 = c2
  u1 = u1
  u2 = u2
  None = None
  Closed = Closed
  Unauth = Unauth
  Asked = Asked
  Servers = {c1, c2}
  Users = {u1, u2}
  Orderly = FALSE
  InvalidTime = 1
  MaxPos = 1
  MaxLogins = 2
  MaxTime = 2
  MaxRestarts = 1
  MaxFaults = 0
INVARIANTS RegistryMatchesConns
CHECK_DEADLOCK FALSE
