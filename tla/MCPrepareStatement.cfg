CONSTANTS
  Undefined = Undefined
  Queries <- MCQueries
  SequenceIds <- MCSequenceIds
SPECIFICATION Spec
INVARIANTS
  TypeOK
  FrameAnnouncesBody
CHECK_DEADLOCK FALSE
