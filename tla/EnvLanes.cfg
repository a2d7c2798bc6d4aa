\* One session on a lane environment: lanes served concurrently, alone and in batches,
\* that fail on their own; malformed lane lists; a buffer of one.
SPECIFICATION Spec
CONSTANTS
  NumEnvs = 2
  MaxInterrupted = 1
  None = None
  Streams = {s1}
  SupportsLanes = TRUE
  Autoreset = "DISABLED"
  Faults = {"recoverable", "fatal"}
  Deadlines = FALSE
  LaneLists <- MixedLanes
  Kinds = {"reset", "step", "close"}
  Pins = {}
  ChannelCap = 2
  MaxRequests = 3
CHECK_DEADLOCK FALSE
INVARIANTS
  EpisodesAccounted
  TrackerFollowsEnv
