-------------------------------- MODULE Restart --------------------------------
(***************************************************************************)
(* Stops, crashes and restarts.  The client writes an index of its files   *)
(* when it is stopped from its console (FilesystemClient::close) and reads *)
(* it when it is started.  Whatever the server's process knew is lost with *)
(* it, also when it is stopped: close() writes no entry into .csync.files, *)
(* because no name equals two others, and readFolderFile reads nothing,    *)
(* because a stream that was just opened is at 0.  Nothing is deleted by   *)
(* clearDirecotry either, which joins the path to itself.  What stays is   *)
(* the directory.                                                          *)
(*                                                                         *)
(* A client starts against a server that has had no other client since it  *)
(* was started: with a second one, uploads do not end (ClientToDo.cpp:28). *)
(***************************************************************************)
EXTENDS Session

CONSTANTS
  Junk,         \* a name that openFilesystem makes up: there is no such file
  MaxStarts,    \* bound: starts of the client
  StopsEarly,   \* the user may stop the client before all is sent
  QuickIndexer, \* an indexing takes less than MAX_WORKING_SET_AGE_IN_SEC
  UserRemoves,  \* the user also removes files
  Misreads      \* the starts, by their number, that may misread names in the index

ASSUME RestartAssumption ==
  /\ Junk \in File
  /\ MaxStarts \in Nat
  /\ StopsEarly \in BOOLEAN
  /\ QuickIndexer \in BOOLEAN
  /\ UserRemoves \in BOOLEAN
  /\ Misreads \subseteq Nat
  /\ \A tree \in InitialTrees : tree[1][Junk] = Absent

VARIABLES
  index,  \* .csync.files of the client: the hash of every file in it
  phase,  \* "running"; "stopped": the client is; "ready": the server was restarted
  starts  \* starts of the client so far

restartVars == <<index, phase, starts>>
rVars == <<vars, restartVars>>

RestartInit ==
  /\ Init
  /\ index = [f \in File |-> Absent]
  /\ phase = "running"
  /\ starts = 1

-----------------------------------------------------------------------------
(* The client *)

\* The process is gone; datagrams to its port are dropped.
ClientIsGone ==
  /\ phase' = "stopped"
  /\ cState' = "disconnected"
  /\ cTimer' = NewTimer
  /\ cQueue' = <<>>
  /\ cSeq' = 0
  /\ cMissed' = 0
  /\ cHellos' = 0
  /\ cIndexer' = "joined"
  /\ ended' = 0
  /\ down' = <<>>
  /\ lib' = [file |-> [f \in File |-> NoObject], folders |-> <<>>]
  /\ ws' = EmptyWorkingSet
  /\ UNCHANGED <<cPort, cId, cPw, garbled, disk, dirs, changes, serverVars, up, losses,
                 duplicates, starts>>

\* Mutant: the hashes are taken anew when the index is written.
RehashAtClose(l) ==
  [f \in File |-> IF l.file[f].known = "yes" THEN disk[f] ELSE Absent]

\* saveFilesystem: hash, size and CRCs of the files that are known, not the
\* parts that are still to be sent, and no folders.
SaveFilesystem(l) ==
  [f \in File |-> IF l.file[f].known = "yes" THEN l.file[f].hash ELSE Absent]

\* close() follows a null pointer that readFile has left in the map.
Closes(l) == \A f \in File : l.file[f].known # "null"

NothingToSend ==
  /\ cState \in {"connected", "ping"}
  /\ ended > 0
  /\ WorkingSetIsEmpty(ws, lib)
  /\ \A f \in File : lib.file[f].np = {}

\* The console command "stop": disconnect(), close(), end of main.
ClientStops ==
  /\ phase = "running"
  /\ cState \notin {"disconnected", "terminated"}
  /\ cIndexer # "running"
  /\ StopsEarly \/ NothingToSend
  /\ index' = IF Closes(lib) THEN SaveFilesystem(lib) ELSE index
  /\ ClientIsGone

\* The process is killed, or its machine goes down.
ClientCrashes ==
  /\ phase = "running"
  /\ cPort > 0
  /\ ClientIsGone
  /\ UNCHANGED index

(***************************************************************************)
(* openFilesystem makes strings from names without a final 0, and reads    *)
(* past the end of the index as it does not count the names.  So a file    *)
(* may be taken up under its name or not, and there may be one too many.   *)
(* Left out: one too many with an empty name, whose deletion would be that *)
(* of the user's whole directory and throw on the server.                  *)
(* The CRCs of a file whose stream is closed are never looked at again.    *)
(***************************************************************************)
RestoredObject(hash) ==
  [NoObject EXCEPT !.known = "yes", !.hash = hash, !.size = Len(hash)]

Restored(taken) ==
  [file    |-> [f \in File |-> IF f \notin taken THEN NoObject
                               ELSE IF f = Junk THEN RestoredObject(<<>>)
                               ELSE RestoredObject(index[f])],
   folders |-> <<>>]

InIndex == {f \in File : index[f] # Absent}

\* The constructors, and connect() from main: the ID and the port are drawn.
ClientStarts ==
  /\ phase = "ready"
  /\ starts < MaxStarts
  /\ phase' = "running"
  /\ starts' = starts + 1
  /\ cPort' = cPort + 1
  /\ cState' = "sendClientHello"
  /\ \E taken \in SUBSET (IF InIndex = {} THEN {} ELSE InIndex \cup {Junk}) :
       /\ starts' \notin Misreads => InIndex \subseteq taken
       /\ LET found == Index(Restored(taken), disk, dirs)
          IN ws' = found.ws /\ lib' = found.lib
  /\ UNCHANGED <<cTimer, cQueue, cSeq, cId, cPw, cMissed, cHellos, cIndexer, ended, garbled,
                 disk, dirs, changes, serverVars, netVars, index>>

-----------------------------------------------------------------------------
\* Mutant: clearDirecotry deletes what the index of the server does not name.
ServerRestartsEmpty ==
  /\ phase = "stopped"
  /\ phase' = "ready"
  /\ sessions' = [id \in ClientId |-> NoSession]
  /\ serverUp' = TRUE
  /\ sDisk' = [f \in File |-> Absent]
  /\ sLast' = [f \in File |-> 0]
  /\ handled' = {}
  /\ up' = <<>>
  /\ down' = <<>>
  /\ UNCHANGED <<clientVars, fsClientVars, authed, sDirs, losses, duplicates,
                 index, starts>>

\* The server is stopped or killed, and started again.  Killed between the
\* acknowledgement of the last message and its writing it would lose what it has
\* promised: left out, as the two are one step.
ServerRestarts ==
  /\ phase = "stopped"
  /\ phase' = "ready"
  /\ sessions' = [id \in ClientId |-> NoSession]
  /\ serverUp' = TRUE
  /\ sLast' = [f \in File |-> 0]
  /\ handled' = {}
  /\ up' = <<>>
  /\ down' = <<>>
  /\ UNCHANGED <<clientVars, fsClientVars, authed, sDisk, sDirs, losses, duplicates,
                 index, starts>>

\* The user leaves alone what he may not touch.
UserIsCareful ==
  /\ disk'[Junk] = Absent
  /\ UserRemoves \/ \A f \in File : disk[f] # Absent => disk'[f] # Absent

\* The age of a working set counts from the begin of its indexing: only a slow
\* one is outdated when it is joined, and is then dropped for a new one.
IndexerIsQuick == QuickIndexer => ~(cIndexer = "finished" /\ cIndexer' = "running")

RunsOn == Next /\ UserIsCareful /\ IndexerIsQuick /\ UNCHANGED restartVars

RestartNext ==
  \/ RunsOn
  \/ ClientStops
  \/ ClientCrashes
  \/ ServerRestarts
  \/ ClientStarts

RestartSpec == RestartInit /\ [][RestartNext]_rVars /\ Fairness

-----------------------------------------------------------------------------
(***************************************************************************)
(* Whatever was stopped, crashed, forgotten or restored before, and        *)
(* whatever the user saved meanwhile: when a client announces the end of    *)
(* its transfer, the server holds the user's directory, as long as nothing *)
(* was sent again with something else in it.                               *)
(***************************************************************************)
MirrorAfterRestart == [][ended' > ended => garbled > 0 \/ Mirrored]_rVars

(***************************************************************************)
(* What the index makes a client believe is true: when it has nothing to   *)
(* send, the server holds every file it knows, with the hash it knows -     *)
(* also files that it was only told of by an earlier process of its own,    *)
(* as long as nothing was sent again with something else in it.            *)
(***************************************************************************)
KnownIsStored ==
  garbled = 0 /\ cState \in {"connected", "ping"} /\ WorkingSetIsEmpty(ws, lib) =>
    \A f \in File \ {Junk} : lib.file[f].known = "yes" => sDisk[f] = lib.file[f].hash

(***************************************************************************)
(* A client that was started gets to where it has nothing left to send,    *)
(* unless it is stopped: no trace of an earlier process, on either side,    *)
(* keeps it from that.                                                     *)
(***************************************************************************)
EveryStartCompletes ==
  (cState = "sendClientHello") ~>
    (phase # "running" \/ (cState = "connected" /\ WorkingSetIsEmpty(ws, lib)))

=============================================================================
