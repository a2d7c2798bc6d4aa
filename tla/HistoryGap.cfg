\* Autoreset lanes, a fusing history model and prefetch.
SPECIFICATION Spec
CONSTANTS
  NumEnvs = 2
  SubsetStep = TRUE
  DriverOwned = FALSE
  MaxEpisodes = 3
  StepCap = 2
  TimeCap = FALSE
  MaxChunk = 3
  Lead = 1
  Fuses = TRUE
  Eager = TRUE
  History = TRUE
  HistoryCap = 4
  Horizon = 3
INVARIANTS
  DeliveredExactlyOnce
