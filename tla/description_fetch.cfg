CONSTANTS
  N = 2
  Managed = {2}
  Advertisement = 1
  Intervals = {0, 1, 2}
  Wrap = 8
  MaxBlock = 2
  MaxPackets = 1
  MaxChanges = 1
  h1 = h1
  Hosts = {h1}
  MaxPart = 2
  PartInterval = 2
  FETCH_TIMEOUT = 2
  FETCH_RETRY = 3
  FETCH_MAX_WINDOWS = 3
  MaxFaults = 0
  Descriptions = {3}
SPECIFICATION MCSpec
INVARIANT FailsOnlyOnFaults
