\* Two frames of one ring, the view bound.
SPECIFICATION Spec
CONSTANTS
  Panes = {1}
  Sidecars = {"s"}
  Hosts <- OneHost
  Slots = {0, 1}
  Views = {"v"}
  Callers = {"main", "other"}
  Main = "main"
  Committer = "main"
  Receiver = "receiver"
  Free = "free"
  Nobody = "nobody"
  NoView = "none"
  LookupFails = FALSE
  QueueSize = 2
  MaxLives = 1
  MaxRings = 1
  MaxMessages = 6
  MaxCalls = 3
PROPERTIES
  NeverReleasesOnScreen
