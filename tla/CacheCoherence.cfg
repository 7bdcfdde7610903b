\* Two request scopes, a user and a profile row, the profile's entry and a count, blocks nested once.
SPECIFICATION LiveSpec
CONSTANTS
  s1 = s1
  s2 = s2
  user = user
  profile = profile
  kUser = kUser
  kProfile = kProfile
  kCount = kCount
  Session = {s1, s2}
  Row = {user, profile}
  CacheKey = {kProfile, kCount}
  Reads <- MCReadsOf
  Invalidates <- MCInvalidatesOf
  Primary <- MCPrimaryOf
  NoRow = NoRow
  NoKey = NoKey
  NoEntry = NoEntry
  NoOp = NoOp
  Delete = Delete
  MaxVersion = 2
  MaxDepth = 2
INVARIANTS
  TypeOK
  CacheHoldsCommitted
  AllOrNothing
  StaleExplained
PROPERTIES
  CacheConverges
  ImplementsReadThrough
