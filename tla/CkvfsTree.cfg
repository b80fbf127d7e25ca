CONSTANTS
  Names = {a, b, HEAD}
  HEAD = HEAD
  Ids = {i1, i2, i3, i4}
  root_id = root_id
  NULL = NULL
  x = x
  y = y
  NUL = NUL
  Bytes = {x, y, NUL}
  Junk = x
  MAX_ITEMS = 2
  MAX_BLOCK = 5
  Payloads <- MCPayloads
  MaxDepth = 2
  MaxOverread = 1
SYMMETRY Symmetry
VIEW StoreView
SPECIFICATION Spec
INVARIANTS TypeOK UniqueNames NoDangling SingleParent
PROPERTIES ImplementsFileTree
