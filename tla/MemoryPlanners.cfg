SPECIFICATION PlannersSpec
CONSTANTS
  Sizes = {1, 2}
  Times = {0, 1, 2}
  OfflineOffsets = {1}
  MaxBufferCount = 4
  kMaxBufferCount = 4
INVARIANTS
  NoOverlap
  NeverWorseThanLinear
PROPERTIES
  LowestFreePlace
