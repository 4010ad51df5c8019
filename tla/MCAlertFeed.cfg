CONSTANTS
  MaxAlerts = 3
  MaxTime = 2
  Limit = 2
  Notifications <- MCNotifications
  MaxRestarts = 1
SPECIFICATION FairSpec
INVARIANTS
  NoSevereAlertPassedOver
PROPERTIES
  EveryAlertHandled
