SPECIFICATION Spec
CONSTANTS
  p = p
  q = q
  x = x
  y = y
  Event <- MCEvent
  Pubkey <- MCPubkey
  TagName <- MCTagName
  TagValue <- MCTagValue
  Author <- MCAuthor
  Kind <- MCKind
  CreatedAt <- MCCreatedAt
  Tags <- MCTags
  Expirations <- MCExpirations
  AllowedKinds <- MCAllowedKinds
  Requests <- MCRequests
  DefaultLimit = 3
  MaxFilterList = 3
  MaxChanges = 1
  MaxTime = 1
CHECK_DEADLOCK FALSE
INVARIANTS
  ExpiredNotReturned
