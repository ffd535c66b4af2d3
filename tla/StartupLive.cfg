\* A network that loses nothing but may reorder; nothing fails but the time.
CONSTANTS
  AssignedID = 7
  PortHigh = 31
  PortLow = 144
  retry_max = 5
  MailboxSize = 3
  Restarts = 1
  Lossy = FALSE
  Reordering = TRUE
  Faults = FALSE
SPECIFICATION FairSpec
PROPERTIES
  StartSignalKept
  StartupEnds
CHECK_DEADLOCK FALSE
