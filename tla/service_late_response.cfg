CONSTANTS
  h1 = h1
  h2 = h2
  Hosts = {h1, h2}
  NoAddr = NoAddr
  Registers = {}
  Required = {}
  Defaulted = {}
  Values = {}
  Default = Default
  NoValue = NoValue
  NoJob = NoJob
  CallIds = {0, 1}
  MaxCalls = 2
SPECIFICATION Spec
INVARIANT LateResponseRejected
