CONSTANTS
  root = root
  hello1 = hello1
  hello2 = hello2
  hello3 = hello3
  drawn = drawn
  other = other
  Keys <- MCKeys
  FirstBytes <- MCFirstBytes
  Kind <- MCKind
  MaxBatch = 2
  MaxCalls = 3
  MaxFaults = 2
CHECK_DEADLOCK FALSE
SPECIFICATION IteratorSpec
INVARIANTS EachKeyOnce TotalIsRight WrongByFault
PROPERTIES Terminates
