SPECIFICATION FairSpec
CONSTANTS
  a = a
  b = b
  p = p
  s1 = s1
  Event <- MCEvent
  Pubkey <- MCPubkey
  TagName <- MCTagName
  TagValue <- MCTagValue
  Author <- MCAuthor
  Kind <- MCKind
  CreatedAt <- MCCreatedAt
  Tags <- MCTags
  Conn <- MCConn
  SubId <- MCSubId
  Offers <- SameFromBoth
  Asks <- OneReader
  MaxSubs = 1
  MaxDrain = 1
  BatchSize = 2
  QueueCap = 1
  BroadcastCap = 1
INVARIANTS
  NoGap
PROPERTIES
  EveryWriteAnswered
