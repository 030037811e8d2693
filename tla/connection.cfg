CONSTANTS
  good = good
  bad = bad
  Descriptions = {good, bad}
  Compatible = good
  e1 = e1
  e2 = e2
  Endpoints = {e1, e2}
  Nothing = Nothing
  LateStart = TRUE
  QuickRediscovery = FALSE
  MaxRestarts = 2
  MaxLosses = 2
SPECIFICATION MCFairSpec
INVARIANT TypeOK
INVARIANT StateHasInterest
INVARIANT DataOnlyWhenConnected
INVARIANT DiscoveredUnlessOvertaken
INVARIANT MatchesUnlessOvertaken
 
