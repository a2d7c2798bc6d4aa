\* Two fair Join streams compete for the slot of a lane environment, with edition pins,
\* deadlines and a response channel of one.
SPECIFICATION FairSpec
CONSTANTS
  NumEnvs = 2
  MaxInterrupted = 1
  None = None
  Streams = {s1, s2}
  SupportsLanes = TRUE
  Autoreset = "DISABLED"
  Faults = {}
  Deadlines = TRUE
  LaneLists <- SingleLanes
  Kinds = {"configure", "reset", "close"}
  Pins = {"base", "unknown"}
  ChannelCap = 1
  MaxRequests = 2
CHECK_DEADLOCK FALSE
INVARIANTS
  SlotExclusive
  ReleaseBarrier
  SessionsApart
PROPERTIES
  SessionsProgress
