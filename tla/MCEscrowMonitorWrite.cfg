SPECIFICATION MCSpec
CONSTANTS
  Loop = {l1, l2}
  Length = 4
  Layouts <- Dense
  PageSize = 2
  Window = 2
  MaxFailures = 1
  None = None
  Shared = Shared
PROPERTIES
  EventsArriveAfterFailedWrite
\* Polling may be stopped, and every start used up.
CHECK_DEADLOCK FALSE
