CONSTANTS
  Undefined = Undefined
  Fieldss <- JsonFieldss
  CellValues <- MCCellValues
  Optionss <- PlainOptionss
  Configs <- PlainConfigs
  EarlierQueries <- NoEarlierQueries
SPECIFICATION Spec
INVARIANT RowDecodesAsSent
CHECK_DEADLOCK FALSE
