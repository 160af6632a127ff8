\* The first synchronisation, over a network that loses file messages and
\* acknowledgements.
SPECIFICATION FairSpec
CONSTANTS
  absent = absent
  Absent = absent
  NoFile = NoFile
  NoSession = NoSession
  File = {"f", "g"}
  Folder = {"d"}
  Root = "root"
  Above <- SomeAbove
  FolderOrder <- SomeOrder
  Version = {"a"}
  MaxParts = 2
  InitialTrees <- SomeTrees
  MaxChanges = 0
  LossyUp = {"FileCreation", "FileTransfer", "Ping"}
  LossyDown = {"Ack"}
  MaxLosses = 1
  MaxDuplicates = 0
  Reorder = FALSE
  PromptReplies = TRUE
  MaxMessageTimeouts = 2
  MaxPingTimeouts = 2
  Passwords = {"good"}
  Password = "good"
  MaxConnects = 1
  MaxHellos = 1
  MaxSeq = 16
  MaxGarbled = 1
  MaxIds = 1
  OtherClients = FALSE
  MayStop = FALSE
INVARIANTS TypeOK Supervised Pings SessionKept
PROPERTIES StopAndWait AcksAreHonest MirrorAtEnd UploadCompletes
CHECK_DEADLOCK FALSE
