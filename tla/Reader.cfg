SPECIFICATION Spec
CONSTANTS
  Files <- OverlappingFiles
  Options <- EveryOption
  Topics = {"odd", "even", "none"}
  TopicOf <- TopicMap
  NoFilter = NoFilter
  Defects = {"none", "size", "compression", "records"}
  OverflowChecks = FALSE
  MaxUsize = 7
  MaxFaults = 1
  Chunks = 3
  ChunkLength = 2
  FileLength = 3
  Stamps <- ThreeStamps
CHECK_DEADLOCK FALSE
INVARIANTS
  SlotsConsistent
  YieldsInOrder
PROPERTIES
  Finishes
