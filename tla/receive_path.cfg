SPECIFICATION FairSpec
CONSTANTS
  Owners = {"FileServer2", "FileServerClient", "FileClient2"}
  Messages <- SomeMessages
  MaxDatagrams <- SomeBounds
  MaxStarts = 2
INVARIANTS NoDanglingBuffer QuietAfterStop
PROPERTIES AcceptedInOrder StopEnds EntriesArePopped
CHECK_DEADLOCK FALSE
