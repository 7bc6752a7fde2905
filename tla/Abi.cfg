SPECIFICATION Spec
CONSTANTS
  Types <- MCTypes
  NoType = "-"
  MaxFlatParams = 4
  MaxFlatResults = 1
  MaxTypeDepth = 4
  AddrMax = 255
  PageSize = 64
  Calls <- MCCalls
  Allocators = {"fixed", "grows", "astray", "absent"}
  MemSize = 64
  Mark = 170
INVARIANTS CarriedExactly WritesStayInBlocks
CHECK_DEADLOCK FALSE
