\* Declarations that cross: the host runs Starts and Removes in any order, beside a
\* Stop or a Resize; every call returns.
SPECIFICATION FairSpec
CONSTANTS
  Panes = {1}
  Units = {"e1", "y"}
  Sources <- OneSource
  Callers = {t1, t2}
  Free = free
  Unbound = "none"
  Grids = {0, 1}
  Faults = {"refused"}
  OrderedHost = FALSE
  MaxGeneration = 2
  MaxMoves = 0
  MaxVerbs = 1
  MaxCrashes = 0
INVARIANTS
  TypeOK
  LockGuardsRecord
  RemovesOnlyItsOwn
  NoFailureHidden
PROPERTIES
  NewestWins
  FollowsLifecycle
  CallsReturn
  StartsSettle
