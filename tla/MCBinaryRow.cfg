CONSTANTS
  Undefined = Undefined
  Fieldss <- PassFieldss
  CellValues <- MCCellValues
  Optionss <- PassOptionss
  Configs <- PassConfigs
  EarlierQueries <- PassEarlierQueries
SPECIFICATION MCSpec
INVARIANTS
  TypeOK
  CursorWithinFrame
  RowDecodesAsSent
PROPERTY
  RefinesRowParse
CHECK_DEADLOCK FALSE
