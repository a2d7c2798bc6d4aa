\* A call made after the pump failed the waiters, before the sending side is closed.
SPECIFICATION FairSpec
CONSTANTS
  c1 = c1
  c2 = c2
  None = None
  Callers = {c1, c2}
  Me = c1
  Ids = {1}
  MaxCalls = 2
  MaxTaskCalls = 1
  Histories = {FALSE}
  MaxChunk = 1
  MaxEpisodes = 1
PROPERTIES
  StreamEndFailsAll
CHECK_DEADLOCK FALSE
