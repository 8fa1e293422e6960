CONSTANTS
  p1 = p1
  p2 = p2
  g1 = g1
  g2 = g2
  Gets <- MCGets
  Posts <- MCPosts
  Length <- MCLength
  Old = old
  OldLength = 3
  Zeros <- MCZeros
  NULL = null
  Hole = hole
  Junk = junk
  Block = 2
SPECIFICATION Spec
SYMMETRY Sym
INVARIANTS QuietGetIsExact JunkNeedsATruncation BytesKeepTheirPlace
CHECK_DEADLOCK FALSE
