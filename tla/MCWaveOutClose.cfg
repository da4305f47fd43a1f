CONSTANTS
  h1 = h1
  h2 = h2
  Tokens <- MCTokens
  QueueBlocks = 2
  CompletionSlots = 2
  MaxBlocks = 1
  MaxSubmits = 2
  MaxGeneration = 2
  HeaderSlots = 2
  MessageSlots = 1
  GuestRewrites = FALSE
  ClosesPrepared = TRUE
SPECIFICATION Spec
INVARIANTS OpenMeansOpened
CHECK_DEADLOCK FALSE
