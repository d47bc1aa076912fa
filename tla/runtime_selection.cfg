SPECIFICATION Spec
CONSTANTS
  Runtimes <- MCRuntimes
  Capacity <- MCCapacity
  Ceiling <- MCCeiling
  MayFail = {"k8s"}
  CounterSize = 4
  MaxPicks = 9
  MaxMoves = 2
INVARIANTS
  TypeOK
  RoundRobinIsBalanced
  ChoiceIsNearlyLowest
  UnavailableIsJustified
