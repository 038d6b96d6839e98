SPECIFICATION Spec
CONSTANTS
  MaxRequests = 2
  Sids = {s1}
  NoSid = NoSid
  tokA = tokA
  EndToken = EndToken
  Token = {tokA, EndToken}
  Failed = Failed
  Nobody = Nobody
  MaxSessions = 2
  MaxSeq = 2
  MaxSteps = 2
  MaxTokens = {3}
  Conversations <- Chats
  SystemPrompt <- Prompted
INVARIANTS
  SessionTypeOK
  ExclusiveUse
  StoreWhole
  HistoryIsPrompt
  CacheNeverAhead
  CacheFollowsHistory
PROPERTIES
  FittingNeverRefused
  SessionGivenBack
