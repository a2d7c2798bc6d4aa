\* A lockstep vector of two lanes that the env autoresets, one lane past the budget.
SPECIFICATION FairSpec
CONSTANTS
  NumEnvs = 2
  SubsetStep = FALSE
  DriverOwned = FALSE
  MaxEpisodes = 3
  StepCap = 2
  TimeCap = FALSE
  MaxChunk = 3
  Lead = 1
  Fuses = FALSE
  Eager = TRUE
  History = TRUE
  HistoryCap = 4
  Horizon = 3
INVARIANTS
  EndedOnce
  DeferredSettle
PROPERTIES
  KeepsLedger
  RouteEnds
