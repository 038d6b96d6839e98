SPECIFICATION SchedSpec
CONSTANTS
  UseQueue = TRUE
  Models = {"tokens", "text"}
  Requests = {1, 2}
  Blocks = {b1, b2}
  NoBlock = NoBlock
  PromptLens = {1}
  MaxTokens = 2
  TokenBudget = 2
  MaxPreempt = 1
  MaxBatch = 2
  MaxFailures = 1
  MaxLate = 2
  MayStop = TRUE
INVARIANTS
  SchedTypeOK
  BlocksAccounted
  NoClientStranded
  NoJobWithoutMessage
PROPERTIES
  ServesRequests
  EveryMessageSettles
CHECK_DEADLOCK FALSE
