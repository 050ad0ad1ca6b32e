\* Any sequence of commits, with views the driver fails to create.
SPECIFICATION Spec
CONSTANTS
  Panes = {1, 2}
  Declarable <- Moving
  Heights = {10, 12}
  NoView = 0
  MaxCommits = 5
  MaxViews = 7
  MaxFailures = 2
  MaxResizes = 1
INVARIANTS
  TypeOK
  InventoryApplied
  OneViewPerSurface
  BoundViewsAreAlive
  EveryPaneHasItsView
  ReportsMatchOwners
  CrashOnlyAfterFailure
PROPERTIES
  ReportsInOrder
