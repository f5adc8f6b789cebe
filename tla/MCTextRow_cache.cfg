\* A query with its own typeCast callback, after a query on the same columns
\* that used the connection's callback.
CONSTANTS
  Undefined = Undefined
  Fieldss <- CastFieldss
  CellValues <- MCCellValues
  Optionss <- OwnCastOptionss
  Configs <- CastConfigs
  EarlierQueries <- CallbackEarlierQueries
SPECIFICATION Spec
INVARIANT RowDecodesAsSent
CHECK_DEADLOCK FALSE
