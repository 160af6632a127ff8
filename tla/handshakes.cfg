\* Two connections, a wrong password, a network that delays, duplicates and
\* reorders (a datagram never delivered is a lost one), a user who stops the
\* client, another client that uploads.
SPECIFICATION Spec
CONSTANTS
  absent = absent
  Absent = absent
  NoFile = NoFile
  NoSession = NoSession
  File = {"f"}
  Folder = {}
  Root = "root"
  Above <- SomeAbove
  FolderOrder <- SomeOrder
  Version = {"a"}
  MaxParts = 1
  InitialTrees <- EmptyDirectory
  MaxChanges = 0
  LossyUp = {}
  LossyDown = {}
  MaxLosses = 0
  MaxDuplicates = 1
  Reorder = TRUE
  PromptReplies = FALSE
  MaxMessageTimeouts = 0
  MaxPingTimeouts = 1
  Passwords = {"good", "bad"}
  Password = "good"
  MaxConnects = 2
  MaxHellos = 2
  MaxSeq = 0
  MaxGarbled = 0
  MaxIds = 2
  OtherClients = TRUE
  MayStop = TRUE
INVARIANT AuthAgreement
CHECK_DEADLOCK FALSE
