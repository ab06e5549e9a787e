SPECIFICATION Spec
CONSTANTS
  p = p
  q = q
  x = x
  MaxBatch = 2
  Event <- MCEvent
  Pubkey <- MCPubkey
  TagName <- MCTagName
  TagValue <- MCTagValue
  Author <- MCAuthor
  Kind <- MCKind
  CreatedAt <- MCCreatedAt
  Tags <- MCTags
INVARIANTS
  TypeOK
  IndexesAgree
  OneNewest
  ResultsTruthful
PROPERTIES
  RemovalsJustified
  RefinesStore
