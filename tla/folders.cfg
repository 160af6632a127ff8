\* Folders and the files in them come and go.
SPECIFICATION ActSpec
CONSTANTS
  absent = absent
  Absent = absent
  NoFile = NoFile
  NoSession = NoSession
  File = {"f", "g"}
  Folder = {"d"}
  Root = "root"
  Above <- SomeAbove
  FolderOrder <- SomeOrder
  Version = {"a"}
  MaxParts = 1
  InitialTrees <- SomeTrees
  MaxChanges = 1
  LossyUp = {"FileCreation"}
  LossyDown = {}
  MaxLosses = 1
  MaxDuplicates = 0
  Reorder = FALSE
  PromptReplies = TRUE
  MaxMessageTimeouts = 1
  MaxPingTimeouts = 2
  Passwords = {"good"}
  Password = "good"
  MaxConnects = 1
  MaxHellos = 1
  MaxSeq = 14
  MaxGarbled = 0
  MaxIds = 1
  OtherClients = FALSE
  MayStop = TRUE
INVARIANT ServerSurvives
PROPERTY ActsBeforeTheNext
CHECK_DEADLOCK FALSE
