SPECIFICATION Spec
CONSTANTS
  a = a
  b = b
  p = p
  q = q
  Conn <- MCConn
  Pubkey <- MCPubkey
  Managed <- MCManaged
  Sends <- MCSends
  RequireAuth = TRUE
  Interval = 1
  Window = 1
  StrikeLimit = 2
  SuspendFor = 2
  PruneAbove = 0
  MaxTime = 2
INVARIANTS
  TypeOK
  OnlyListedCharged
PROPERTIES
  SuspensionEarned
  OnlyAuthorsCharged
  RefinesBook
