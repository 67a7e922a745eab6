SPECIFICATION Spec
CONSTANTS
  NPage = 4
  NReserved = 1
  PageUnits = 8
  HeaderUnits = 2
  DESC_COUNT = 2
  BUF_COUNT = 1
  Size <- MCSize
  Count <- MCCount
INVARIANTS
    HeapRight
    NoIdlePage
PROPERTIES
    ImplementsAllocator
