SPECIFICATION Spec
CONSTANTS
  p = p
  x = x
  BatchSize = 3
  Messages <- MCMessages
  Event <- MCEvent
  Pubkey <- MCPubkey
  TagName <- MCTagName
  TagValue <- MCTagValue
  Author <- MCAuthor
  Kind <- MCKind
  CreatedAt <- MCCreatedAt
  Tags <- MCTags
INVARIANTS
  TypeOK
  WritesTheBest
  RoundIsOneTransaction
  ResultsRouted
PROPERTIES
  RefinesRound
