CONSTANTS
  Undefined = Undefined
  Itemss <- MCItemss
  Sizings = {"mock"}
SPECIFICATION Spec
INVARIANTS
  TypeOK
  RoundTrip
  WritesCanonical
CHECK_DEADLOCK FALSE
