CONSTANTS
  HEX = 4
  RAND_MAX = 31
  Draws = 3
  KeyLength = 6
  Buffer2 = 4
  Letters = {"a", "b"}
  MAX_NAME = 4
  NameLists <- MCNameLists
  MaxLength = 7
CHECK_DEADLOCK FALSE
SPECIFICATION TextSpec
INVARIANTS NeverRootId FullDrawsReadBack FitsBuffer2 WalksTheNames FirstsAreTheNames OverrunIffLong
