\* Two lanes stepped on their own that the env autoresets, history rows.
SPECIFICATION Spec
CONSTANTS
  NumEnvs = 2
  SubsetStep = TRUE
  DriverOwned = FALSE
  MaxEpisodes = 2
  StepCap = 2
  TimeCap = FALSE
  MaxChunk = 3
  Lead = 1
  Fuses = FALSE
  Eager = TRUE
  History = TRUE
  HistoryCap = 4
  Horizon = 3
INVARIANTS
  NeverStalls
  DeliveredExactlyOnce
PROPERTIES
  KeepsLifecycle
