CONSTANTS
  good = good
  Descriptions = {good}
  Compatible = good
  e1 = e1
  Endpoints = {e1}
  Nothing = Nothing
  LateStart = FALSE
  QuickRediscovery = TRUE
  MaxRestarts = 1
  MaxLosses = 1
SPECIFICATION MCSpec
INVARIANT ConnectedIsDiscovered
