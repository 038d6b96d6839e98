SPECIFICATION ServingSpec
CONSTANTS
  tokA = tokA
  tokB = tokB
  NoTenant = NoTenant
  NoBlock = NoBlock
  Tenants = {A, B}
  Token = {tokA, tokB}
  Requests = {r1, r2, r3}
  MaxTokens = 2
  NPages = 2
  PageSize = 2
  MaxPagesPerRequest = 2
  PrefixTrack = 4
  SizeMax = 99
  NBlocks = 2
  MaxPos = 4
  MaxRewind = 0
  Prompts <- TwoPagePrompts
  Quotas <- FullPool
INVARIANT ReadsOwnHistory
CONSTRAINT UntilOtherDefect
SYMMETRY Symmetry
CHECK_DEADLOCK FALSE
