SPECIFICATION MCSpec
CONSTANTS
  Loop = {l1, l2}
  Length = 3
  Layouts <- MCLayouts
  PageSize = 2
  Window = 2
  MaxFailures = 2
  None = None
  Shared = Shared
INVARIANTS
  TypeOK
  NothingSkipped
PROPERTIES
  ImplementsStream
  EventsArrive
\* Polling may be stopped, and every start used up.
CHECK_DEADLOCK FALSE
