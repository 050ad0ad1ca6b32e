\* A surface declared, declared anew and removed while a sidecar draws its pane.
SPECIFICATION FairSystemSpec
CONSTANTS
  Panes = {1}
  Sidecars = {"s"}
  Hosts <- OneHost
  Slots = {0, 1}
  Views = {1, 2}
  Callers = {"main", "other"}
  Main = "main"
  Committer = "main"
  Receiver = "receiver"
  Free = "free"
  Nobody = "nobody"
  NoView = 0
  LookupFails = TRUE
  QueueSize = 1
  MaxLives = 1
  MaxRings = 1
  MaxMessages = 4
  MaxCalls = 4
  Declarable <- Twice
  Heights = {10}
  MaxCommits = 2
  MaxViews = 2
  MaxFailures = 1
  MaxResizes = 0
INVARIANTS
  ReferencesBalanced
  LeasedFromTheLiving
  DeclaredPaneIsDrawn
PROPERTIES
  CallsReturn
  CommitsReturn
  ReceiverReturns
