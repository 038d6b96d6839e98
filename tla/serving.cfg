SPECIFICATION ServingSpec
CONSTANTS
  tokA = tokA
  tokB = tokB
  NoTenant = NoTenant
  NoBlock = NoBlock
  Tenants = {A, B}
  Token = {tokA, tokB}
  Requests = {r1, r2, r3}
  MaxTokens = 2
  NPages = 3
  PageSize = 1
  MaxPagesPerRequest = 2
  PrefixTrack = 4
  SizeMax = 99
  NBlocks = 2
  MaxPos = 3
  MaxRewind = 0
  Prompts <- SharedPrompts
  Quotas <- FullPool
INVARIANTS
  ServingTypeOK
  ReadsOwnHistoryOtherwise
  CacheHoldsItsTokens
  PositionsAgree
  PageTablesBounded
CONSTRAINT UntilDefect
SYMMETRY Symmetry
CHECK_DEADLOCK FALSE
