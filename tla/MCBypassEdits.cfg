SPECIFICATION Spec
CONSTANTS
  Ports <- MCPorts
  Originals <- MCOriginals
  MaxChanges = 2
INVARIANT
  BypassEditsAreKept
CONSTRAINT
  Judged
