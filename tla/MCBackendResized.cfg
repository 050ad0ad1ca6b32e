\* The window changes its height, then one of two surfaces is moved.
SPECIFICATION Spec
CONSTANTS
  Panes = {1, 2}
  Declarable <- Standing
  Heights = {10, 12}
  NoView = 0
  MaxCommits = 3
  MaxViews = 3
  MaxFailures = 0
  MaxResizes = 1
PROPERTIES
  HostsAtDeclaredFrame
