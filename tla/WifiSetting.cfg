\* The code's five retries; the link may fail, come and go without limit.
CONSTANTS
  Task = {"main", "event"}
  ESP_MAXIMUM_RETRY = 5
SPECIFICATION FairSpec
INVARIANTS
  TypeOK
  FailMeansAbandoned
  FailureIsFinal
PROPERTIES
  UndisturbedShown
  JoinEnds
\* The station may be abandoned, and app_main returns or waits for ever.
CHECK_DEADLOCK FALSE
