\* Both relays over every stream of up to MaxLines lines.
SPECIFICATION FairSpec
CONSTANTS
  Items = {}
  NoItem = NoItem
  Sendable = {"text", "other", "untypedChunk", "empty", "garbage", "[DONE]"}
  Keepalive = TRUE
  Capacity = 1
  MaxLines = 4
INVARIANTS
  TypeOK
  NothingLost
PROPERTIES
  OnlyWritesResetTheTimer
  KeepsStreamContract
  SilenceIsBroken
  RelayEnds
\* A relay ends.
CHECK_DEADLOCK FALSE
