CONSTANTS
  Names = {n1, HEAD}
  HEAD = HEAD
  Ids = {i1, i2, i3, i4}
  root_id = root_id
  NULL = NULL
  n1 = n1
  n2 = HEAD
  x = x
  NUL = NUL
  Bytes = {x, NUL}
  Junk = x
  MAX_ITEMS = 2
  MAX_BLOCK = 7
  Payloads <- MCPayloads
  MaxDepth = 3
  MaxOverread = 0
  Threads = {t1, t2}
  Requests <- MCThreadRequests
  MaxFaults = 0
SYMMETRY CallsSymmetry
VIEW CallsView
SPECIFICATION CallsSpec
INVARIANTS UniqueNames SingleParent
PROPERTIES CallsImplementFileTree
