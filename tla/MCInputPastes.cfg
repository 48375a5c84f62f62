CONSTANTS
  Commands <- MCCommands
  Themed <- MCThemed
  Values <- MCValues
  MaxLine = 6
  MaxPastes = 2
  MaxEdits = 4
SPECIFICATION Spec
INVARIANTS PromptsCarryTheirPastes
CHECK_DEADLOCK FALSE
