\* Bounds: two commands, each any row of the table.
CONSTANTS
  Table <- AllCommands
  MaxCommands = 2
  None = None
SPECIFICATION Spec
INVARIANTS TypeOK Understood NothingLeftOpen
PROPERTIES CommandEnds
CHECK_DEADLOCK FALSE
