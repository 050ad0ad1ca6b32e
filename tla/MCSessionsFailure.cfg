\* A failed Start, when the host runs an older Start after it.
SPECIFICATION Spec
CONSTANTS
  Panes = {1}
  Units = {"e1", "e2", "y"}
  Sources <- OnePane
  Callers = {t1, t2}
  Free = free
  Unbound = "none"
  Grids = {0, 1}
  Faults = {"refused"}
  OrderedHost = FALSE
  MaxGeneration = 2
  MaxMoves = 0
  MaxVerbs = 0
  MaxCrashes = 0
PROPERTIES
  FailureKept
