CONSTANTS
  MaxAlerts = 3
  MaxTime = 3
  Limit = 2
  Notifications = {TRUE}
  MaxRestarts = 0
SPECIFICATION Spec
INVARIANT MarkMeansProcessed
