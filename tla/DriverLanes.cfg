\* Two lanes stepped on their own, driver-owned resets, fused predicts,
\* history rows, any scheduler.
SPECIFICATION FairSpec
CONSTANTS
  NumEnvs = 2
  SubsetStep = TRUE
  DriverOwned = TRUE
  MaxEpisodes = 3
  StepCap = 3
  TimeCap = TRUE
  MaxChunk = 3
  Lead = 1
  Fuses = TRUE
  Eager = FALSE
  History = TRUE
  HistoryCap = 4
  Horizon = 2
INVARIANTS
  TypeOK
  EvictionsSettle
  PlanMatchesEpisode
  DeliveredExactlyOnce
PROPERTIES
  KeepsLifecycle
  KeepsLedger
  RouteEnds
