SPECIFICATION Spec
CONSTANTS
  tokA = tokA
  tokB = tokB
  NoTenant = NoTenant
  Tenants = {A, B}
  Token = {tokA, tokB}
  NPages = 2
  PageSize = 1
  MaxPagesPerRequest = 2
  PrefixTrack = 4
  SizeMax = 99
  NBlocks = 2
  MaxPos = 2
  MaxRewind = 0
  Prompts <- PagePrompts
  Quotas <- FullPool
INVARIANT IndexNamesItsPage
