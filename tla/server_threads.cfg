\* Two clients of one user: hellos, sessions, cleanup, and stop.
SPECIFICATION FairSpec
CONSTANTS
  ClientId = {1, 2}
  User = {"user0"}
  Known = {"user0"}
  UserOf <- OneUser
  Uploader = {1}
  NoSession = NoSession
INVARIANTS UsersOutliveTheirUse SessionsOutliveTheirThreads NothingLeftBehind
PROPERTIES StopReturns HellosAreHandled
CHECK_DEADLOCK FALSE
