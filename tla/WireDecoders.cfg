SPECIFICATION Spec
CONSTANTS
  Texts <- MCTexts
  Chunkings <- MCChunkings
  Upgrades <- MCUpgrades
  MaxHeaderBytes = 18
  Responses <- MCResponses
INVARIANTS
  EventsMatchTheStream
  FramesMatchTheStream
  ResponseEndsWhereItEnds
CHECK_DEADLOCK FALSE
