\* A binary-charset BLOB on the default path (no typeCast, no binaryCast).
CONSTANTS
  Undefined = Undefined
  Fieldss <- BlobFieldss
  CellValues <- MCCellValues
  Optionss <- PlainOptionss
  Configs <- PlainConfigs
  EarlierQueries <- NoEarlierQueries
SPECIFICATION Spec
INVARIANT RowDecodesAsSent
CHECK_DEADLOCK FALSE
