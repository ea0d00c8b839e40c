SPECIFICATION Spec
CONSTANTS
  boss = boss
  admin = admin
  dispatcher = dispatcher
  driver = driver
  None = None
  Idle = Idle
  Asked = Asked
  Users <- MCUsers
  Role <- MCRole
  Superuser <- MCSuperuser
  Scopes <- MCScopes
  MaxEvents = 2
INVARIANTS ReadYourWrites OffersArePermitted
CHECK_DEADLOCK FALSE
