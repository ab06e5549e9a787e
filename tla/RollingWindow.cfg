SPECIFICATION Spec
CONSTANTS
  a = a
  b = b
  p = p
  q = q
  Conn <- MCConn
  Pubkey <- MCPubkey
  Managed <- MCManaged
  Sends <- OneSender
  RequireAuth = FALSE
  Interval = 1
  Window = 2
  StrikeLimit = 3
  SuspendFor = 2
  PruneAbove = 0
  MaxTime = 5
INVARIANTS
  RollingWindow
