SPECIFICATION SchedSpec
CONSTANTS
  UseQueue = TRUE
  Models = {"tokens"}
  Requests = {1, 2}
  Blocks = {b1, b2}
  NoBlock = NoBlock
  PromptLens = {1}
  MaxTokens = 2
  TokenBudget = 2
  MaxPreempt = 1
  MaxBatch = 2
  MaxFailures = 0
  MaxLate = 1
  MayStop = FALSE
PROPERTIES
  EveryClientServed
