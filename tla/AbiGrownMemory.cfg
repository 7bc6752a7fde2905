SPECIFICATION Spec
CONSTANTS
  Types <- MCTypes
  NoType = "-"
  MaxFlatParams = 4
  MaxFlatResults = 1
  MaxTypeDepth = 4
  AddrMax = 255
  PageSize = 16
  Calls <- TextCalls
  Allocators = {"grows"}
  MemSize = 16
  Mark = 170
INVARIANTS GrantedMemoryIsUsable
CHECK_DEADLOCK FALSE
