CONSTANTS
  Names = {a, HEAD}
  HEAD = HEAD
  Ids = {i1}
  root_id = root_id
  NULL = NULL
  x = x
  NUL = NUL
  Bytes = {x, NUL}
  Junk = x
  MAX_ITEMS = 2
  MAX_BLOCK = 3
  Payloads <- MCPayloads
  MaxDepth = 1
  MaxOverread = 0
  Strangers = {c1, c2, c3}
  MaxFaults = 2
SPECIFICATION ContainerSpec
PROPERTIES ImplementsCkvfs ComesUp ExitsClean
