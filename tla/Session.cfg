SPECIFICATION FairSpec
CONSTANTS
  driver = driver
  boss = boss
  None = None
  Users <- MCUsers
  Role <- MCRole
  Superuser <- MCSuperuser
  Openable = {"login", "signup", "shared", "newVehicle", "settings"}
  MaxTokens = 2
CHECK_DEADLOCK FALSE
INVARIANT MenuOpens
PROPERTIES VisitorStays RefusedTabsLeave ChecksEnd
