SPECIFICATION Spec
CONSTANTS
  Rubbish = Rubbish
  Unset = Unset
  HybridSkills <- Hybrid
  Sources <- Snapshots
  WindowOptions <- Options
  Skills <- SomeSkills
  MaxCalls = 4
INVARIANTS
  TotalsMatch
  DetailsAddUp
  GroupsNest
  EndNotBeforeStart
CHECK_DEADLOCK FALSE
