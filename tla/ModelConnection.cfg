\* One connection to a model: the client of a route, or two tasks that share it.
SPECIFICATION FairSpec
CONSTANTS
  c1 = c1
  c2 = c2
  None = None
  Callers = {c1, c2}
  Me = c1
  Ids = {1}
  MaxCalls = 5
  MaxTaskCalls = 3
  Histories = {TRUE}
  MaxChunk = 2
  MaxEpisodes = 2
CHECK_DEADLOCK FALSE
INVARIANTS
  ResponsesMatch
  RouteAgreed
  
PROPERTIES
  KeepsLifecycle
  PumpedCallsReturn
