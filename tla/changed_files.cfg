\* Files of one part, one of which the user changes during the upload or after it.
SPECIFICATION Spec
CONSTANTS
  absent = absent
  Absent = absent
  NoFile = NoFile
  NoSession = NoSession
  File = {"f", "g"}
  Folder = {}
  Root = "root"
  Above <- SomeAbove
  FolderOrder <- SomeOrder
  Version = {"a", "b"}
  MaxParts = 1
  InitialTrees <- OneFileOnePart
  MaxChanges = 1
  LossyUp = {"FileCreation", "FileTransfer"}
  LossyDown = {}
  MaxLosses = 1
  MaxDuplicates = 0
  Reorder = FALSE
  PromptReplies = TRUE
  MaxMessageTimeouts = 1
  MaxPingTimeouts = 2
  Passwords = {"good"}
  Password = "good"
  MaxConnects = 1
  MaxHellos = 1
  MaxSeq = 12
  MaxGarbled = 0
  MaxIds = 1
  OtherClients = FALSE
  MayStop = FALSE
PROPERTY MirrorAtEnd
CHECK_DEADLOCK FALSE
