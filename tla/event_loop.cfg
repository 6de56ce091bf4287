SPECIFICATION Spec
CONSTANTS
  Dir = {d1, d2}
  HashSize = 2
  BatchLimit = 2
  QueueLimit = 2
  MaxFiles <- TwoThenOne
  Faults <- AnyFault
INVARIANTS
  DueFlushed
  PollExitExplained
  IInv
PROPERTIES
  NotifierSpec
  UnreadKept
  EventsPublished
  StopsWhenTold
CHECK_DEADLOCK FALSE
