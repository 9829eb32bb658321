\* ks_buffer without a ceiling (max_len = 0), every call.
CONSTANTS
  n0 = n0
  cr = cr
  lf = lf
  NUL <- n0
  CR <- cr
  LF <- lf
  Bytes <- MC_Bytes
  LoopCounts <- MC_LoopCounts
  StartLen = 1
  MaxLen = 0
  BlockSize = 1
  AllocMayFail = TRUE
  MaxWrite = 2
  MaxRead = 3
  MaxCap = 4
  LoopFloor <- MC_LoopFloor
SPECIFICATION Spec
INVARIANTS
  TypeOK
  OccupiedLayout
PROPERTIES
  ZWriteContract
  PacketCountDrops
