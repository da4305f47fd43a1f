SPECIFICATION Spec
CONSTANTS
  PCs <- MCPCs
  Blocks <- MCBlocks
  Capacity = 3
  FirstSlot <- MCFirstSlot
  ArenaBytes = 8
  PageBytes = 4
  Align = 2
  Quantum = 3
  MaxGeneration = 2
  CallerRetries = FALSE
CHECK_DEADLOCK FALSE
INVARIANTS
  TypeOK
  CacheSound
  LinkSound
  RunsSealed
  ChainBounded
PROPERTIES
  RetiredExact
  FollowsGuest
