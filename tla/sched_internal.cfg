SPECIFICATION SchedSpec
CONSTANTS
  UseQueue = FALSE
  Models = {"tokens"}
  Requests = {1, 2, 3}
  Blocks = {b1, b2}
  NoBlock = NoBlock
  PromptLens = {0, 2}
  MaxTokens = 3
  TokenBudget = 2
  MaxPreempt = 1
  MaxBatch = 3
  MaxFailures = 1
  MaxLate = 0
  MayStop = FALSE
INVARIANTS
  BlocksAccounted
  CachePosition
  OutputCapped
PROPERTIES
  ServesRequests
  EveryClientAnswered
