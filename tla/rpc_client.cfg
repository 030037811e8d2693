CONSTANTS
  c1 = c1
  c2 = c2
  Callers = {c1, c2}
  NoCaller = NoCaller
  IdSpan = 2
  MaxAge = 2
  MaxCalls = 3
  Io = Io
  nobody = nobody
  Parameters <- MCParameters
  Items <- MCItems
  Arguments <- MCArguments
  MaxTransactions = 2
SPECIFICATION MCFairSpec
INVARIANT TypeOK
INVARIANT ResponseBufferAlive
INVARIANT SleeperHasWaker
INVARIANT OwnResponse
INVARIANT WholeOrNothing
INVARIANT CallArrives
PROPERTY PromiseWhileAlone
PROPERTY CallReturns
PROPERTY ConfigurationDone
