\* The client is killed while it sends a file again that the index of an earlier start names.
SPECIFICATION RestartSpec
CONSTANTS
  absent = absent
  Absent = absent
  NoFile = NoFile
  NoSession = NoSession
  File = {"f", "junk"}
  Folder = {}
  Root = "root"
  Above <- AllInRoot
  FolderOrder <- NoFolders
  Version = {"a", "b"}
  MaxParts = 1
  InitialTrees <- OneFile
  MaxChanges = 0
  LossyUp = {}
  LossyDown = {}
  MaxLosses = 0
  MaxDuplicates = 0
  Reorder = FALSE
  PromptReplies = TRUE
  MaxMessageTimeouts = 2
  MaxPingTimeouts = 2
  Passwords = {"good"}
  Password = "good"
  MaxConnects = 2
  MaxHellos = 1
  MaxSeq = 14
  MaxGarbled = 0
  MaxIds = 1
  OtherClients = FALSE
  MayStop = FALSE
  Junk = "junk"
  MaxStarts = 3
  StopsEarly = FALSE
  QuickIndexer = TRUE
  UserRemoves = FALSE
  Misreads = {2}
INVARIANT KnownIsStored
CHECK_DEADLOCK FALSE
