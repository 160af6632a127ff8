\* A hello with a client ID that is taken.
SPECIFICATION SpecRepeated
CONSTANTS
  ClientId = {1, 2}
  User = {"user0"}
  Known = {"user0"}
  UserOf <- OneUser
  Uploader = {1}
  NoSession = NoSession
INVARIANT UsersOutliveTheirUse
CHECK_DEADLOCK FALSE
