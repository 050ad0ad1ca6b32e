\* Input, with no lock, beside openings, restarts, Stops and Resizes of its pane.
SPECIFICATION VerbsSpec
CONSTANTS
  Panes = {1}
  Units = {"e1", "y"}
  Sources <- OneSource
  Callers = {t1, t2}
  Free = free
  Unbound = "none"
  Grids = {0, 1}
  Faults = {"refused", "lost"}
  OrderedHost = TRUE
  MaxGeneration = 1
  MaxMoves = 0
  MaxVerbs = 2
  MaxCrashes = 1
  Clients = {"c"}
  MaxAsked = 1
SYMMETRY AnyCaller
INVARIANTS
  VerbsTypeOK
  LiveIsTruthful
  InputOnce
  GridsAgree
PROPERTIES
  StepsOfLifecycle
