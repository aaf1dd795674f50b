SPECIFICATION FairSpec
CONSTANTS
  Clients = {c1, c2}
  RetryN = 2
  MaxTokens <- TwoAndOne
  RetryOk = TRUE
  NoKey = NoKey
INVARIANTS LostOnlyByExpiry TwoChances
PROPERTY LocksEnd
