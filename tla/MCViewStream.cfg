SPECIFICATION FairSpec
CONSTANTS
  Capacity = 3
  MaxMessages = 7
INVARIANTS
  StreamInOrder
  RepliesAreTrue
PROPERTIES
  NoViewHangs
CHECK_DEADLOCK FALSE
