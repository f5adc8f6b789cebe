\* lengthCodedNumberLength sizes a 0xfd number as 5 bytes; writeLengthCodedNumber writes 4.
CONSTANTS
  Undefined = Undefined
  Itemss <- Range24Itemss
  Sizings = {"static"}
SPECIFICATION Spec
INVARIANT RoundTrip
CHECK_DEADLOCK FALSE
