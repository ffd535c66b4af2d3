\* Every socket and datagram may fail or get lost, one restart.  The delay for
\* the time is cut to three tries and a mailbox to two datagrams.
CONSTANTS
  AssignedID = 7
  PortHigh = 31
  PortLow = 144
  retry_max = 3
  MailboxSize = 2
  Restarts = 1
  Lossy = TRUE
  Reordering = FALSE
  Faults = TRUE
SPECIFICATION Spec
INVARIANT InitUdpReportsFailure
\* app_main returns or waits for ever.
CHECK_DEADLOCK FALSE
