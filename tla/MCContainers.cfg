CONSTANTS
  Elements = {a, b}
  NULL = null
  NullPtr = nullptr
  Wild = wild
  InitialMax = 2
  ExpandRate = 3
  PointerSize = 2
  MaxEnd = 8
  k1 = k1
  k2 = k2
  k3 = k3
  k4 = k4
  Keys <- MCKeys
  Hash <- MCHash
  Data = {d1, d2}
  Buckets = 2
  MaxNodes = 3
SPECIFICATION MCSpec
SYMMETRY Sym
INVARIANTS TypesOK RoomAndWritten FirstSetIsFound
PROPERTIES ImplementsList ImplementsMultimap
