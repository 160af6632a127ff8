\* A name that is not in the UserStore.
SPECIFICATION Spec
CONSTANTS
  ClientId = {1, 2}
  User = {"user0"}
  Known = {}
  UserOf <- OneUser
  Uploader = {1}
  NoSession = NoSession
INVARIANT NothingLeftBehind
CHECK_DEADLOCK FALSE
