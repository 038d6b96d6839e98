SPECIFICATION Spec
CONSTANTS
  MaxRequests = 2
  Sids = {s1}
  NoSid = NoSid
  tokA = tokA
  EndToken = EndToken
  Token = {tokA, EndToken}
  Failed = Failed
  Nobody = Nobody
  MaxSessions = 2
  MaxSeq = 4
  MaxSteps = 2
  MaxTokens = {3}
  Conversations <- TurnChats
  SystemPrompt <- Prompted
INVARIANT
  CacheIsHistory
