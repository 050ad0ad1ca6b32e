\* A sidecar of two panes is replaced at any moment; any request is refused.
SPECIFICATION Spec
CONSTANTS
  Panes = {1, 2}
  Units = {"e1", "e2", "y"}
  Sources <- TwoPanes
  Callers = {t1, t2}
  Free = free
  Unbound = "none"
  Grids = {0, 1}
  Faults = {"refused"}
  OrderedHost = TRUE
  MaxGeneration = 2
  MaxMoves = 1
  MaxVerbs = 0
  MaxCrashes = 1
SYMMETRY AnyCaller
INVARIANTS
  SettledWhenUnlocked
  TokenOfThisOpening
  LiveIsTruthful
  SurfacesTended
PROPERTIES
  FailureKept
