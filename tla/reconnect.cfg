\* The client reconnects when the answers to its messages are lost.
SPECIFICATION Spec
CONSTANTS
  absent = absent
  Absent = absent
  NoFile = NoFile
  NoSession = NoSession
  File = {"f"}
  Folder = {}
  Root = "root"
  Above <- SomeAbove
  FolderOrder <- SomeOrder
  Version = {"a"}
  MaxParts = 1
  InitialTrees <- OneFileOnePart
  MaxChanges = 0
  LossyUp = {"FileCreation"}
  LossyDown = {}
  MaxLosses = 2
  MaxDuplicates = 0
  Reorder = FALSE
  PromptReplies = TRUE
  MaxMessageTimeouts = 1
  MaxPingTimeouts = 2
  Passwords = {"good"}
  Password = "good"
  MaxConnects = 2
  MaxHellos = 1
  MaxSeq = 12
  MaxGarbled = 0
  MaxIds = 2
  OtherClients = FALSE
  MayStop = FALSE
INVARIANT Pings
CHECK_DEADLOCK FALSE
