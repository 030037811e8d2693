CONSTANTS
  c1 = c1
  c2 = c2
  Callers = {c1, c2}
  IdSpan = 2
  MaxAge = 2
  MaxCalls = 3
  PromptWake = TRUE
  good = good
  bad = bad
  Descriptions = {good, bad}
  Compatible = good
  e1 = e1
  e2 = e2
  Endpoints = {e1, e2}
  FirstEndpoint = e1
  Nothing = Nothing
  MaxRestarts = 2
  MaxLosses = 2
SPECIFICATION MCFairSpec
INVARIANT ConnectionTypeOK
INVARIANT LossIsNoticedUnlessOvertaken
PROPERTY KeepsPromise
PROPERTY FindsUnlessOvertaken
