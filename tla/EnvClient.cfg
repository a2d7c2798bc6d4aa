\* Two clones of one client, or one of each of two clients, at one server.
SPECIFICATION FairSpec
CONSTANTS
  A = A
  B = B
  h1 = h1
  h2 = h2
  None = None
  Clients = {A, B}
  Handles = {h1, h2}
  Layouts <- MCLayouts
  MaxStreams = 2
  MaxCalls = 3
  MaxBroken = 1
CHECK_DEADLOCK FALSE
INVARIANTS
  RepliesMatch
  JoinsInTurn
PROPERTIES
  LosesOwnSession
  NobodyWaits
