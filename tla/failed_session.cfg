\* A session whose own thread stops it is deleted under that thread.
SPECIFICATION Spec
CONSTANTS
  ClientId = {1, 2}
  User = {"user0"}
  Known = {"user0"}
  UserOf <- OneUser
  Uploader = {1}
  NoSession = NoSession
INVARIANT NoUseAtAll
CHECK_DEADLOCK FALSE
