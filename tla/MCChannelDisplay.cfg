\* One pane and its sidecar: rings, frames, restarts, views bound and unbound.
SPECIFICATION Spec
CONSTANTS
  Panes = {1}
  Sidecars = {"s"}
  Hosts <- OneHost
  Slots = {0, 1}
  Views = {"v"}
  Callers = {"main", "other"}
  Main = "main"
  Committer = "main"
  Receiver = "receiver"
  Free = "free"
  Nobody = "nobody"
  NoView = "none"
  LookupFails = TRUE
  QueueSize = 2
  MaxLives = 2
  MaxRings = 2
  MaxMessages = 6
  MaxCalls = 3
INVARIANTS
  TypeOK
  ReferencesBalanced
  DisplayedIsKept
  EveryIndexGoesBack
  NewestIsShown
