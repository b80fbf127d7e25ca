CONSTANTS
  Names = {a, b, HEAD}
  HEAD = HEAD
  Ids = {i1, i2}
  root_id = root_id
  NULL = NULL
  x = x
  y = y
  NUL = NUL
  Bytes = {x, y, NUL}
  Junk = x
  MAX_ITEMS = 2
  MAX_BLOCK = 5
  Payloads <- MCPayloads
  MaxDepth = 1
  MaxOverread = 1
SYMMETRY Symmetry
SPECIFICATION Spec
PROPERTIES AppendKeepsData
