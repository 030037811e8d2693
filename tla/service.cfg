CONSTANTS
  h1 = h1
  h2 = h2
  r1 = r1
  r2 = r2
  v = v
  Hosts = {h1, h2}
  NoAddr = NoAddr
  Registers = {r1, r2}
  Required = {r1}
  Defaulted = {r2}
  Values = {v}
  Default = Default
  NoValue = NoValue
  NoJob = NoJob
  CallIds = {0, 1}
  MaxCalls = 2
  Conns = {h1}
  IdSpan = 2
  MaxSent = 2
  MaxLosses = 1
SPECIFICATION MCFairSpec
INVARIANT TypeOK
 
INVARIANT StoppedKeepsAsking
INVARIANT SlotHasOwner
INVARIANT SentToSomeone
PROPERTY AtMostOneResponse
PROPERTY SlotIsFreed
 
PROPERTY DialCompletes
