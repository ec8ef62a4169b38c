CONSTANTS
  N = 3
  Locks <- MCLocks
SPECIFICATION PlanSpec
INVARIANTS
  DependencyFirst
  CycleIsReal
  IndexHolds
  VerdictIsRight
  SelectionIsClosure
  LayersAreMinimal
  LiveIsExact
PROPERTIES
  BuildEnds
CHECK_DEADLOCK FALSE
