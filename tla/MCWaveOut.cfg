CONSTANTS
  h1 = h1
  h2 = h2
  Tokens <- MCTokens
  QueueBlocks = 3
  CompletionSlots = 2
  MaxBlocks = 2
  MaxSubmits = 3
  MaxGeneration = 2
  HeaderSlots = 2
  MessageSlots = 1
  GuestRewrites = FALSE
  ClosesPrepared = FALSE
SPECIFICATION Spec
INVARIANTS TypeOK TokensAccounted DeviceOwned RingHasRoom
PROPERTIES ServiceContract DoneMeansPlayed BuffersComplete TeardownFinishes
CHECK_DEADLOCK FALSE
