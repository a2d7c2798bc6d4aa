\* One autoreset lane with one-step episodes and chunks of up to three frames.
SPECIFICATION Spec
CONSTANTS
  NumEnvs = 1
  SubsetStep = FALSE
  DriverOwned = FALSE
  MaxEpisodes = 3
  StepCap = 2
  TimeCap = FALSE
  MaxChunk = 3
  Lead = 0
  Fuses = FALSE
  Eager = TRUE
  History = FALSE
  HistoryCap = 4
  Horizon = 1
INVARIANTS
  PlanMatchesEpisode
