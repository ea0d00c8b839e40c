SPECIFICATION FairSpec
CONSTANTS
  driver = driver
  boss = boss
  None = None
  Users <- MCUsers
  Role <- MCRole
  Superuser <- MCSuperuser
  Openable = {"login", "trips"}
  MaxTokens = 2
PROPERTY OnlyRefusedTokensAreDropped
CHECK_DEADLOCK FALSE
