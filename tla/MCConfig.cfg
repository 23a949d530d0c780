SPECIFICATION Spec
CONSTANTS
  Contexts = {"prod", "test"}
  Broken = {"test"}
  Outputs = {"", "json", "text"}
  Flags = {"", "sarif", "json"}
  Levels = {"", "loud"}
  MaxEdits = 1
INVARIANTS ContextAsSaid OutputAsSaid
