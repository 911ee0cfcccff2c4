SPECIFICATION FairSpec
CONSTANTS
  MaxAlerts = 4
  MaxOutages = 2
  MaxErrors = 1
PROPERTIES
  ImplementsMailbox
  AlertsSettle
CHECK_DEADLOCK FALSE
