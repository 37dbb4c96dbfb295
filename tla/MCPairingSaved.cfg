\* Bounds: one command, any row of the table.
CONSTANTS
  Table <- AllCommands
  MaxCommands = 1
  None = None
SPECIFICATION Spec
INVARIANTS PairingSaved
CHECK_DEADLOCK FALSE
