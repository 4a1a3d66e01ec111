SPECIFICATION Spec
CONSTANTS
  Ports <- MCPorts
  Originals <- MCOriginals
  MaxChanges = 2
INVARIANTS
  Journaled
  SettingsReturn
PROPERTIES
  AutoKeepsOut
CONSTRAINT
  Judged
