CONSTANTS
  Task = {"main", "event"}
  ESP_MAXIMUM_RETRY = 5
SPECIFICATION Spec
INVARIANT LatestShown
CHECK_DEADLOCK FALSE
