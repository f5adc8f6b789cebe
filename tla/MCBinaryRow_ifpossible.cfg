CONSTANTS
  Undefined = Undefined
  Fieldss <- BigFieldss
  CellValues <- MCCellValues
  Optionss <- IfPossibleBigOptionss
  Configs <- PlainConfigs
  EarlierQueries <- NoEarlierQueries
SPECIFICATION Spec
INVARIANT RowDecodesAsSent
CHECK_DEADLOCK FALSE
