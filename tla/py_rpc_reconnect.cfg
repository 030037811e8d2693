CONSTANTS
  c1 = c1
  Callers = {c1}
  IdSpan = 3
  MaxAge = 3
  MaxCalls = 3
  PromptWake = FALSE
SPECIFICATION Spec
INVARIANT ReturnsItsResponse
