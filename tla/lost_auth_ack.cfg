\* The acknowledgement of the AuthResult is lost.
SPECIFICATION Spec
CONSTANTS
  absent = absent
  Absent = absent
  NoFile = NoFile
  NoSession = NoSession
  File = {"f"}
  Folder = {}
  Root = "root"
  Above <- SomeAbove
  FolderOrder <- SomeOrder
  Version = {"a"}
  MaxParts = 1
  InitialTrees <- OneFileOnePart
  MaxChanges = 0
  LossyUp = {"Ack"}
  LossyDown = {}
  MaxLosses = 1
  MaxDuplicates = 0
  Reorder = FALSE
  PromptReplies = TRUE
  MaxMessageTimeouts = 1
  MaxPingTimeouts = 2
  Passwords = {"good"}
  Password = "good"
  MaxConnects = 1
  MaxHellos = 1
  MaxSeq = 12
  MaxGarbled = 0
  MaxIds = 1
  OtherClients = FALSE
  MayStop = FALSE
INVARIANT SessionKept
CHECK_DEADLOCK FALSE
