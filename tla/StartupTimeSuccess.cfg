\* The code's five waits; nothing fails or gets lost, one restart.
CONSTANTS
  AssignedID = 7
  PortHigh = 31
  PortLow = 144
  retry_max = 5
  MailboxSize = 2
  Restarts = 1
  Lossy = FALSE
  Reordering = FALSE
  Faults = FALSE
SPECIFICATION Spec
INVARIANT TimeSuccessReported
\* app_main returns or waits for ever.
CHECK_DEADLOCK FALSE
