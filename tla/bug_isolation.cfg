SPECIFICATION Spec
CONSTANTS
  SystemFails = FALSE
  PluginFails = FALSE
  MaxLoads = 2
INVARIANTS
  IsolatedLoadSucceeds
