\* What holds a join for ever is not excepted.
SPECIFICATION FairSpec
CONSTANTS
  ClientId = {1, 2}
  User = {"user0"}
  Known = {"user0"}
  UserOf <- OneUser
  Uploader = {1}
  NoSession = NoSession
PROPERTY StopAlwaysReturns
CHECK_DEADLOCK FALSE
