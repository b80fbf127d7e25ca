CONSTANTS
  Names = {n1, n2, HEAD}
  HEAD = HEAD
  Ids = {i1, i2, i3}
  root_id = root_id
  NULL = NULL
  n1 = n1
  n2 = n2
  x = x
  NUL = NUL
  Bytes = {x, NUL}
  Junk = x
  MAX_ITEMS = 2
  MAX_BLOCK = 5
  Payloads <- MCPayloads
  MaxDepth = 2
  MaxOverread = 0
  Threads = {t1}
  Requests <- MCRequests
  MaxFaults = 2
SYMMETRY CallsSymmetry
VIEW CallsView
SPECIFICATION CallsSpec
INVARIANTS UniqueNames SingleParent DanglingByFault
PROPERTIES StaysOnItsName RemovalSticks CallsImplementFileTree
