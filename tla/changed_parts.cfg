\* A file of two parts is changed after it was uploaded.
SPECIFICATION Spec
CONSTANTS
  absent = absent
  Absent = absent
  NoFile = NoFile
  NoSession = NoSession
  File = {"f"}
  Folder = {}
  Root = "root"
  Above <- SomeAbove
  FolderOrder <- SomeOrder
  Version = {"a", "b"}
  MaxParts = 2
  InitialTrees <- OneFileTwoParts
  MaxChanges = 1
  LossyUp = {}
  LossyDown = {}
  MaxLosses = 0
  MaxDuplicates = 0
  Reorder = FALSE
  PromptReplies = TRUE
  MaxMessageTimeouts = 1
  MaxPingTimeouts = 2
  Passwords = {"good"}
  Password = "good"
  MaxConnects = 1
  MaxHellos = 1
  MaxSeq = 16
  MaxGarbled = 0
  MaxIds = 1
  OtherClients = FALSE
  MayStop = FALSE
PROPERTY MirrorAtEnd
CHECK_DEADLOCK FALSE
