\* One session on a NEXT_STEP vector environment that may fail and break its contract.
SPECIFICATION Spec
CONSTANTS
  NumEnvs = 2
  MaxInterrupted = 1
  None = None
  Streams = {s1}
  SupportsLanes = FALSE
  Autoreset = "NEXT_STEP"
  Faults = {"recoverable", "fatal", "contract"}
  Deadlines = FALSE
  LaneLists <- OneLane
  Kinds = {"reset", "step", "render", "close"}
  Pins = {}
  ChannelCap = 2
  MaxRequests = 5
CHECK_DEADLOCK FALSE
INVARIANTS
  EpisodesAccounted
  TrackerFollowsEnv
