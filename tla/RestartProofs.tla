----------------------------- MODULE RestartProofs -----------------------------
(***************************************************************************)
(* A client that is killed, stopped and started again, as often as one     *)
(* likes, against a server that is restarted with it.  Its user neither    *)
(* stops it early nor changes the directory, and no start but the last     *)
(* misreads names in the index.  Then what the index makes a client        *)
(* believe is true, and so is what it announces at the end of a transfer.  *)
(*                                                                         *)
(* Within one run of the client this rests on the invariants of a first    *)
(* synchronisation, which hold in every run as they ask nothing of the     *)
(* port and of what the server has.  What goes from one run to the next is *)
(* the index and the directory of the server: once there is an index, it   *)
(* names the files of the user, the server has them, and no message that   *)
(* would empty or write a file is left anywhere - until a client misreads  *)
(* the index, sends files again, and so makes it unfit for a further one.  *)
(* What the server has is known as long as no message was sent again with  *)
(* something else in it (garbled = 0).                                     *)
(***************************************************************************)
EXTENDS Restart, FirstSyncProofs

\* What the theorems ask of the constants: no start comes after one that may
\* misread the index, and no stop before all is sent.
LateStops ==
  /\ FirstSync
  /\ \A n \in Misreads : n >= MaxStarts
  /\ ~StopsEarly

-----------------------------------------------------------------------------
(* The invariant. *)

\* The index before it is written for the first time.
NoIndex == [f \in File |-> Absent]

\* The server has no file and no folder that the user does not have.
Harmless ==
  garbled = 0 =>
    /\ \A f \in File : disk[f] = Absent => sDisk[f] = Absent
    /\ sDirs \subseteq dirs

\* A message that empties a file or writes to one.
IsFileMessage(m) ==
  m.type = "FileTransfer" \/ (m.type = "FileCreation" /\ m.kind = "ft_file")

NoFileMessage == \A i \in DOMAIN up : ~IsFileMessage(up[i])

\* The server has all files, and the client knows that.
AllStored ==
  /\ ws.files = {} /\ ws.cur = NoFile
  /\ sDisk = disk
  /\ NoFileMessage
  /\ cIndexer = "joined" \/ FilesAreKnown(lib)

Kept == index = NoIndex \/ (index = disk /\ (garbled = 0 => AllStored))

\* As long as another client may read the index, it is true.
ReadRight == starts \notin Misreads => Kept

\* There is no client.
AtRest ==
  /\ Gone
  /\ cTimer = NewTimer /\ cSeq = 0 /\ cIndexer = "joined"
  /\ ws = EmptyWorkingSet /\ lib = EmptyLibrary

\* A restarted server has heard of nothing.
Phases ==
  /\ phase \in {"running", "stopped", "ready"}
  /\ phase # "running" => AtRest
  /\ phase = "ready" => serverUp /\ Quiet /\ up = <<>> /\ down = <<>> /\ sLast = [f \in File |-> 0]

RestartInv == SyncInv /\ Mirroring /\ disk[Junk] = Absent /\ Harmless /\ ReadRight /\ Phases

-----------------------------------------------------------------------------
(* What a datagram does to the files of the server. *)

\* Only two messages touch files, and they do it in four ways.
LEMMA FilesTouched ==
  ASSUME TypeOK, Calm, garbled = 0, NEW m \in UpMessage, IsCalm(m), ServerReceive(m)
  PROVE  \/ UNCHANGED fsServerVars
         \/ m.type = "FileCreation" /\ m.kind = "ft_folder" /\ m.fid \in dirs \cup {Root} /\ GenFolder(m.fid)
         \/ /\ m.type = "FileCreation" /\ m.kind = "ft_file" /\ m.fid \in File /\ disk[m.fid] # Absent
            /\ GenFile(m.fid)
         \/ /\ m.type = "FileCreation" /\ m.kind = "ft_del_file" /\ m.fid \in File
            /\ disk[m.fid] = Absent /\ DelFile(m.fid)
         \/ m.type = "FileTransfer" /\ WriteFilePart(sessions[1].cur, m.part, m.data)
<1>1. CASE m.type = "ClientHello"
  BY <1>1 DEF ServerReceive, OnClientHello, serverVars
<1>2. CASE m.type # "ClientHello"
  <2>1. m.to = 1 /\ FitsDirectory(m, disk, dirs) /\ SessionReceive(m)
    BY <1>2 DEF IsCalm, IsHarmless, ServerReceive
  <2>2. CASE ~Active(1)
    BY <2>1, <2>2 DEF SessionReceive, serverVars
  <2>3. CASE Active(1) /\ m.type \in {"AuthRequest", "Ack", "Ping", "FileStatus", "TransferEnded"}
    BY <2>1, <2>3 DEF SessionReceive, OnAuthRequest, OnClientAck, OnPing, OnFileStatusRequest,
                      OnTransferEnded, serverVars
  <2>4. CASE Active(1) /\ m.type = "FileCreation"
    <3>1. OnFileCreation(1, m)
      BY <2>1, <2>4 DEF SessionReceive
    <3>2. CASE m.kind = "ft_file" /\ m.fid \in File /\ disk[m.fid] # Absent
      <4>1. m.fid # BadPath
        BY <3>2, FilesystemAssumption
      <4>. QED
        BY <2>4, <3>1, <3>2, <4>1 DEF OnFileCreation, CarryOut
    <3>3. CASE m.kind = "ft_folder" /\ m.fid \in dirs \cup {Root}
      <4>1. m.fid # BadPath
        BY <3>3, FilesystemAssumption DEF Path, TypeOK, FilesTypeOK
      <4>. QED
        BY <2>4, <3>1, <3>3, <4>1 DEF OnFileCreation, CarryOut
    <3>4. CASE m.kind = "ft_del_file" /\ m.fid \in File /\ disk[m.fid] = Absent
      <4>1. m.fid # BadPath /\ m.fid \notin Folder
        BY <3>4, FilesystemAssumption DEF Path
      <4>. QED
        BY <2>4, <3>1, <3>4, <4>1 DEF OnFileCreation, CarryOut
    <3>. QED
      BY <2>1, <2>4, <3>2, <3>3, <3>4 DEF FitsDirectory
  <2>5. CASE Active(1) /\ m.type = "FileTransfer"
    BY <2>1, <2>5 DEF SessionReceive, OnFileTransfer
  <2>6. m.type \in {"AuthRequest", "Ack", "Ping", "FileStatus", "TransferEnded", "FileCreation",
                    "FileTransfer"}
    BY <1>2 DEF UpMessage
  <2>. QED
    BY <2>2, <2>3, <2>4, <2>5, <2>6
<1>. QED
  BY <1>1, <1>2

\* None of them makes a file the user does not have, and no other than those two
\* kinds changes a file that is as the user has it.
LEMMA ServerIsHarmless ==
  ASSUME TypeOK, Calm, InFolders, Harmless, garbled = 0, UNCHANGED <<disk, dirs>>,
         NEW m \in UpMessage, IsCalm(m), ServerReceive(m)
  PROVE  Harmless' /\ (sDisk = disk /\ ~IsFileMessage(m) => sDisk' = sDisk)
<1>0. sDisk \in [File -> Seq(Data) \cup {Absent}] /\ dirs \subseteq Folder /\ Root \notin Folder
  BY ServerFacts, FilesystemAssumption DEF FsServerTypeOK, TypeOK, FilesTypeOK
<1>1. CASE UNCHANGED fsServerVars
  BY <1>1 DEF fsServerVars, Harmless
<1>2. CASE m.fid \in dirs \cup {Root} /\ GenFolder(m.fid)
  BY <1>0, <1>2 DEF GenFolder, Harmless, InFolders
<1>3. CASE IsFileMessage(m) /\ m.fid \in File /\ disk[m.fid] # Absent /\ GenFile(m.fid)
  BY <1>0, <1>3 DEF GenFile, Harmless
<1>4. CASE m.fid \in File /\ disk[m.fid] = Absent /\ DelFile(m.fid)
  BY <1>0, <1>4 DEF DelFile, Harmless
<1>5. CASE IsFileMessage(m) /\ WriteFilePart(sessions[1].cur, m.part, m.data)
  BY <1>0, <1>5 DEF WriteFilePart, fsServerVars, Harmless
<1>. QED
  BY <1>1, <1>2, <1>3, <1>4, <1>5, FilesTouched DEF IsFileMessage

\* So no step of the system does.
LEMMA HarmlessStep ==
  ASSUME FirstSync, TypeOK, Calm, InFolders, Harmless, garbled = 0, Next
  PROVE  Harmless' /\ (sDisk = disk /\ NoFileMessage => sDisk' = sDisk)
<1>0. UNCHANGED <<disk, dirs>>
  BY FewActions
<1>1. CASE UNCHANGED fsServerVars
  BY <1>0, <1>1 DEF fsServerVars, Harmless
<1>2. CASE DeliverUp
  <2>1. PICK i \in DOMAIN up : ServerReceive(up[i])
    BY <1>2 DEF DeliverUp, Deliverable
  <2>2. up[i] \in UpMessage /\ IsCalm(up[i])
    BY ClientFacts, ElementOfSeq, LenProperties DEF Calm
  <2>. QED
    BY <1>0, <2>1, <2>2, ServerIsHarmless DEF NoFileMessage
<1>3. CASE SessionTicks \/ CleansUp
  BY <1>1, <1>3, TicksKeepFile DEF KeepsFile
<1>4. UNCHANGED serverVars => UNCHANGED fsServerVars
  BY DEF serverVars
<1>. QED
  BY <1>1, <1>2, <1>3, <1>4, FewActions
     DEF Connects, Stops, SaysHello, Indexes, ClientTicks, TimerEnds, ClientThreads, DeliverDown

-----------------------------------------------------------------------------
(* A client that knows that the server has all files sends none. *)

\* An indexing that finds what the client knows.
LEMMA KnownAgain ==
  ASSUME FilesTypeOK, FilesAreKnown(lib)
  PROVE  LET found == Index(lib, disk, dirs) IN
         found.ws.files = {} /\ found.ws.cur = NoFile /\ FilesAreKnown(found.lib)
<1>. DEFINE fresh == {f \in File : disk[f] # Absent /\
                        (lib.file[f].known # "yes" \/ IsChanged(lib.file[f], disk[f]))}
            files == [f \in File |-> IndexedObject(lib.file[f], disk[f])]
            found == Index(lib, disk, dirs)
<1>1. \A f \in File : disk[f] # Absent => lib.file[f].known = "yes" /\ ~IsChanged(lib.file[f], disk[f])
  BY DEF FilesAreKnown, IsChanged
<1>2. fresh = {}
  BY <1>1
<1>3. \A f \in File : files[f] = lib.file[f]
  BY <1>1 DEF IndexedObject, FilesAreKnown
<1>4. found.lib.file = files /\ found.ws.files = fresh /\ found.ws.cur = NoFile
  BY DEF Index
<1>. HIDE DEF fresh, files, found
<1>5. FilesAreKnown(found.lib)
  BY <1>3, <1>4 DEF FilesAreKnown
<1>. QED
  BY <1>2, <1>4, <1>5 DEF found

\* The client is connected, or connects.
Online == Greeting \/ Authenticating \/ Talking

\* When such a client has no file to send, the server has all of them.
LEMMA OnlineIsStored ==
  TypeOK /\ garbled = 0 /\ Online /\ Mirrors /\ ws.files = {} /\ ws.cur = NoFile => AllStored
<1>. SUFFICES ASSUME TypeOK, garbled = 0, Online, Mirrors, ws.files = {}, ws.cur = NoFile
              PROVE  AllStored
  OBVIOUS
<1>1. sDisk = disk
  <2>1. sDisk \in [File -> Seq(Data) \cup {Absent}] /\ disk \in [File -> Content \cup {Absent}]
    BY ServerFacts DEF FsServerTypeOK, TypeOK, FilesTypeOK
  <2>2. \A f \in File : f # NoFile
    BY FilesystemAssumption
  <2>3. \A f \in File : sDisk[f] = disk[f]
    BY <2>2 DEF Mirrors, FileIsSent, Fresh, Sending, Done
  <2>. QED
    BY <2>1, <2>3
<1>2. NoFileMessage
  <2>1. CASE Greeting \/ Authenticating
    <3>1. up \in {<<>>, <<ClientHello>>, <<AuthRequest(0)>>}
      BY <2>1 DEF Greeting, Authenticating
    <3>2. DOMAIN <<>> = {} /\ \A m : DOMAIN <<m>> = {1} /\ <<m>>[1] = m
      OBVIOUS
    <3>3. ~IsFileMessage(ClientHello) /\ ~IsFileMessage(AuthRequest(0))
      BY DEF ClientHello, AuthRequest, IsFileMessage
    <3>. QED
      BY <3>1, <3>2, <3>3 DEF NoFileMessage
  <2>2. CASE Talking
    <3>1. SUFFICES ASSUME NEW i \in DOMAIN up, IsFileMessage(up[i]) PROVE FALSE
      BY DEF NoFileMessage
    <3>2. i \in Requests
      BY <2>2, <3>1 DEF IsFileMessage, Requests, RequestTypes
    <3>3. PICK k \in DOMAIN cQueue : cQueue[k].msg = up[i]
      BY <2>2, <3>2 DEF Talking, OneUnderWay, StandsFor
    <3>4. OneFileMessage
      BY <2>2, <3>1, <3>3 DEF Talking, OnlyPings, OneStatus, IsFileMessage
    <3>5. up[i] = Asked
      <4>1. k = 1
        BY <3>4, ClientFacts, LenProperties DEF OneFileMessage
      <4>. QED
        BY <3>3, <4>1 DEF Asked
    <3>6. AsksForFolder \/ AsksForDeletion
      BY <3>4 DEF Mirrors, OneFileMessage
    <3>. QED
      BY <3>1, <3>5, <3>6 DEF AsksForFolder, AsksForDeletion, IsFileMessage
  <2>. QED
    BY <2>1, <2>2 DEF Online
<1>3. FilesAreKnown(lib)
  BY DEF Online, Greeting, Authenticating, Talking, Indexed
<1>. QED
  BY <1>1, <1>2, <1>3 DEF AllStored

LEMMA OnlineIsStoredNext ==
  (TypeOK /\ garbled = 0 /\ Online /\ Mirrors /\ ws.files = {} /\ ws.cur = NoFile)' => AllStored'
BY OnlineIsStored, PTL

\* Going on, it still has none to send.
LEMMA GoesOnWithout ==
  ASSUME TypeOK, Indexed, ws.files = {}, ws.cur = NoFile,
         NEW tm \in {NewTimer, Ticking}, NEW out,
         EnterSendingFS("consumer", tm, <<>>, out, cSeq)
  PROVE  ws'.files = {} /\ ws'.cur = NoFile /\ cState' # "disconnected"
<1>1. SendsSomething(out, cSeq)
  BY NextMessage
<1>2. ws \in WorkingSet /\ Rest = ws /\ ~CurFileHasParts(ws, lib)
  BY DEF TypeOK, FilesTypeOK, Rest, DropSentCurFile, CurFileHasParts
<1>3. CASE SendsDeletion(out, cSeq)
  BY <1>2, <1>3 DEF SendsDeletion, SendAndWait, WorkingSet
<1>4. CASE SendsFolder(out, cSeq)
  BY <1>2, <1>4 DEF SendsFolder, SendAndWait
<1>5. CASE SendsEnd(out, cSeq)
  BY <1>5 DEF SendsEnd, EmptyWorkingSet
<1>. QED
  BY <1>1, <1>2, <1>3, <1>4, <1>5 DEF SendsSomething, SendsPart, SendsStatus

\* What is under way without a file message stays without, when something is
\* delivered or lost.
LEMMA NoFileMessageStays ==
  ASSUME TypeOK, NoFileMessage, up' = up \/ \E i \in DOMAIN up : up' = RemoveAt(up, i)
  PROVE  NoFileMessage'
<1>1. up \in Seq(UpMessage)
  BY ClientFacts
<1>2. \A j \in DOMAIN up' : \E k \in DOMAIN up : up'[j] = up[k]
  BY <1>1, RemoveAtPlaces
<1>. QED
  BY <1>2 DEF NoFileMessage, IsFileMessage

\* What the claim below says of one step.
SendsNoFile ==
  /\ ws'.files = {} /\ ws'.cur = NoFile
  /\ cState' = "disconnected" => NoFileMessage' /\ (cIndexer' = "joined" \/ FilesAreKnown(lib)')

\* The client stops.
LEMMA StopSendsNoFile ==
  ASSUME TypeOK, Online, AllStored, Stops
  PROVE  SendsNoFile
<1>1. UNCHANGED <<disk, dirs, lib, ws, up>>
  BY DEF Stops, UserStop, fsClientVars
<1>2. FilesAreKnown(lib)
  BY DEF Online, Greeting, Authenticating, Talking, Indexed
<1>. QED
  BY <1>1, <1>2, NoFileMessageStays DEF AllStored, SendsNoFile, FilesAreKnown

\* Before the client is logged in.
LEMMA LoginSendsNoFile ==
  ASSUME FirstSync, TypeOK, Calm, Greeting \/ Authenticating, AllStored, Next
  PROVE  SendsNoFile
<1>0. /\ cPort >= 1 /\ cState \in {"sendClientHello", "clientAuth"} /\ cIndexer = "joined"
      /\ Indexed /\ ws.files = {} /\ ws.cur = NoFile
  BY DEF Greeting, Authenticating, AllStored
<1>1. CASE UNCHANGED ws /\ cState' # "disconnected"
  BY <1>0, <1>1 DEF SendsNoFile
<1>2. CASE EnterConnected("consumer", Ticking, <<>>, <<UpAck(0)>>, cSeq)
  <2>1. CASE EnterSendingFS("consumer", Ticking, <<>>, <<UpAck(0)>>, cSeq)
    BY <1>0, <2>1, GoesOnWithout DEF SendsNoFile
  <2>2. CASE UNCHANGED ws /\ cState' = "connected"
    BY <1>1, <2>2
  <2>. QED
    BY <1>2, <2>1, <2>2, TickingTicks DEF EnterConnected
<1>3. CASE Stops
  BY <1>3, StopSendsNoFile DEF Online
<1>4. CASE Authenticating /\ DeliverDown
  <2>1. CASE UNCHANGED <<lib, ws>> /\ cState' = "disconnected" /\ up' = Append(up, UpAck(0))
    <3>1. UpAck(0) \in UpMessage /\ ~IsFileMessage(UpAck(0)) /\ up \in Seq(UpMessage)
      BY ClientFacts, UpMessages DEF UpAck, IsFileMessage
    <3>2. NoFileMessage'
      <4>1. \A i \in DOMAIN up' : ~IsFileMessage(up'[i])
        BY <2>1, <3>1, AppendPlaces DEF AllStored, NoFileMessage
      <4>. QED
        BY <4>1 DEF NoFileMessage, IsFileMessage
    <3>3. FilesAreKnown(lib)'
      BY <1>0, <2>1, FewActions DEF Indexed, FilesAreKnown
    <3>. QED
      BY <1>0, <2>1, <3>2, <3>3 DEF SendsNoFile
  <2>. QED
    BY <1>2, <1>4, <2>1, LoginAnswered
<1>5. CASE Greeting /\ DeliverDown
  <2>1. PICK i \in DOMAIN down : ClientReceive(down[i])
    BY <1>5 DEF DeliverDown, Deliverable
  <2>2. down[i].type = "ServerHello"
    BY <1>5 DEF Greeting, Accepted, ServerHello
  <2>3. OnServerHello(down[i]) \/ Ignored
    BY <2>1, <2>2 DEF ClientReceive
  <2>4. UNCHANGED ws /\ cState' \in {cState, "clientAuth"}
    BY <2>3 DEF OnServerHello, Ignored, clientVars, fsClientVars
  <2>. QED
    BY <1>0, <1>1, <2>4
<1>6. CASE ~Stops /\ ~DeliverDown
  <2>1. ~Connects /\ ~Indexes
    BY <1>0 DEF Connects, UserConnect, Indexes, IndexerEnds
  <2>2. CASE ClientTicks
    <3>1. TickAwaiting
      BY <1>0, <2>2 DEF ClientTicks, ClientTick, TickConnected, TickPing
    <3>2. ~Reconnect
      BY <1>0, ClientFacts, ClientAssumption DEF FirstSync, Reconnect, Connect
    <3>. QED
      BY <1>0, <1>1, <3>1, <3>2 DEF TickAwaiting, fsClientVars
  <2>3. CASE SaysHello \/ TimerEnds
    BY <1>0, <1>1, <2>3 DEF SaysHello, SendClientHello, TimerEnds, TimerThreadEnds, fsClientVars
  <2>4. CASE UNCHANGED <<clientVars, fsClientVars>>
    BY <1>0, <1>1, <2>4 DEF clientVars, fsClientVars
  <2>5. SessionTicks \/ CleansUp \/ DeliverUp => UNCHANGED <<clientVars, fsClientVars>>
    BY DEF SessionTicks, CleansUp, DeliverUp, ServerThreads
  <2>. QED
    BY <1>6, <2>1, <2>2, <2>3, <2>4, <2>5, FewActions
<1>. QED
  BY <1>3, <1>4, <1>5, <1>6

\* When it is logged in.
LEMMA TalkSendsNoFile ==
  ASSUME FirstSync, TypeOK, Calm, Talking, AllStored, Next
  PROVE  SendsNoFile
<1>0. /\ cPort >= 1 /\ Indexed /\ ws.files = {} /\ ws.cur = NoFile
      /\ cState \in {"connected", "ping", "reqestedFileStatus", "awaitingAck"} /\ ~LeavesLoop(cTimer)
  BY TalkingFacts, NewTimerRests, TickingTicks DEF Talking, AllStored
<1>1. ASSUME UNCHANGED ws, Talking' PROVE SendsNoFile
  BY <1>0, <1>1 DEF SendsNoFile, Talking, OnlyPings, OneStatus, OneFileMessage
<1>2. UNCHANGED <<disk, dirs>> /\ ~Connects /\ ~SaysHello /\ ~TimerEnds /\ ~CleansUp
  BY <1>0, FewActions, TalkingStays
     DEF Connects, UserConnect, SaysHello, SendClientHello, TimerEnds, TimerThreadEnds
<1>3. CASE Stops
  BY <1>3, StopSendsNoFile DEF Online
<1>4. CASE ClientTicks
  <2>1. TickConnected \/ TickAwaiting \/ TickPing
    BY <1>4 DEF ClientTicks, ClientTick
  <2>2. Talking'
    BY <1>2, <1>4, <2>1, TickConnectedTalks, TickAwaitingTalks, TickPingTalks
  <2>. QED
    BY <1>1, <1>4, <2>2, ClientTickKeeps
<1>5. CASE Indexes
  BY <1>1, <1>2, <1>5, IndexTalks, IndexKeeps
<1>6. CASE SessionTicks \/ DeliverUp
  <2>1. UNCHANGED ws
    BY <1>6 DEF SessionTicks, DeliverUp, ServerThreads, fsClientVars
  <2>. QED
    BY <1>1, <1>2, <1>6, <2>1, SessionTickTalks, DeliverUpTalks
<1>7. CASE (LoseUp \/ LoseDown) /\ UNCHANGED <<clientVars, fsClientVars, serverVars>>
  <2>1. UNCHANGED ws
    BY <1>7 DEF fsClientVars
  <2>. QED
    BY <1>1, <1>2, <1>7, <2>1, LoseUpTalks, LoseDownTalks
<1>8. CASE DeliverDown
  <2>1. ~OneStatus
    BY <1>0 DEF OneStatus
  <2>2. CASE EnterSendingFS("consumer", Ticking, <<>>, <<>>, cSeq)
    BY <1>0, <2>2, GoesOnWithout DEF SendsNoFile
  <2>3. CASE UNCHANGED ws /\ cState' = "connected"
    BY <1>0, <2>3 DEF SendsNoFile
  <2>. QED
    BY <1>8, <2>1, <2>2, <2>3, Answered
<1>. QED
  BY <1>2, <1>3, <1>4, <1>5, <1>6, <1>7, <1>8, FewActions

\* When it is gone.
LEMMA GoneSendsNoFile ==
  ASSUME FirstSync, TypeOK, Calm, Gone, AllStored, Next
  PROVE  SendsNoFile
<1>0. UNCHANGED <<disk, dirs>> /\ up \in Seq(UpMessage)
  BY FewActions, ClientFacts
<1>1. ~Connects /\ ~Stops /\ ~SaysHello /\ ~ClientTicks
  BY DEF Gone, Connects, UserConnect, Stops, UserStop, SaysHello, SendClientHello, ClientTicks,
         ClientTick, TickConnected, TickAwaiting, TickPing
<1>2. ASSUME UNCHANGED <<ws, lib, cIndexer>>, up' = up \/ \E i \in DOMAIN up : up' = RemoveAt(up, i)
      PROVE  SendsNoFile
  BY <1>0, <1>2, NoFileMessageStays DEF AllStored, SendsNoFile, FilesAreKnown
<1>3. CASE Indexes
  <2>. DEFINE found == Index(lib, disk, dirs)
  <2>1. cIndexer = "running" /\ ws' = found.ws /\ lib' = found.lib /\ up' = up
    BY <1>3 DEF Indexes, IndexerEnds
  <2>2. found.ws.files = {} /\ found.ws.cur = NoFile /\ FilesAreKnown(found.lib)
    BY <2>1, KnownAgain DEF AllStored, TypeOK
  <2>. HIDE DEF found
  <2>3. FilesAreKnown(lib)'
    BY <1>0, <2>1, <2>2 DEF FilesAreKnown
  <2>. QED
    BY <2>1, <2>2, <2>3, NoFileMessageStays DEF AllStored, SendsNoFile
<1>4. CASE TimerEnds
  BY <1>2, <1>4 DEF TimerEnds, TimerThreadEnds, fsClientVars
<1>5. CASE SessionTicks \/ CleansUp \/ DeliverUp
  BY <1>2, <1>5 DEF SessionTicks, CleansUp, DeliverUp, Deliverable, ServerThreads, clientVars,
                    fsClientVars
<1>6. CASE (LoseUp \/ LoseDown) /\ UNCHANGED <<clientVars, fsClientVars, serverVars>>
  BY <1>2, <1>6 DEF LoseUp, LoseDown, clientVars, fsClientVars
<1>7. CASE DeliverDown
  <2>1. Ignored
    BY <1>7 DEF DeliverDown, Deliverable, ClientReceive, Gone
  <2>. QED
    BY <1>2, <2>1 DEF Ignored, clientVars, fsClientVars
<1>. QED
  BY <1>1, <1>3, <1>4, <1>5, <1>6, <1>7, FewActions

-----------------------------------------------------------------------------
(* The steps of a run. *)

\* The index stays true.
LEMMA KeptStep ==
  ASSUME FirstSync, SyncInv, Mirroring, Harmless, Kept, Next, index' = index
  PROVE  Kept'
<1>1. CASE index = NoIndex
  BY <1>1 DEF Kept, NoIndex
<1>2. CASE index # NoIndex /\ garbled' # 0
  BY <1>2, FewActions DEF Kept, SyncInv
<1>3. CASE index # NoIndex /\ garbled' = 0
  <2>0. garbled = 0
    BY <1>3, NoneGarbled DEF SyncInv
  <2>1. index = disk /\ AllStored
    BY <1>3, <2>0 DEF Kept
  <2>2. TypeOK /\ Calm /\ Conversation /\ (cPort >= 1 \/ cPort = 0)
    <3>1. cPort >= 1 \/ cPort = 0
      BY DEF SyncInv, Conversation, Before, Greeting, Authenticating, Talking, Gone
    <3>. QED
      BY <3>1 DEF SyncInv
  <2>3. cPort >= 1
    BY <1>3, <2>1, <2>2 DEF Mirroring, AllStored, NoIndex
  <2>4. SendsNoFile
    BY <2>1, <2>2, <2>3, LoginSendsNoFile, TalkSendsNoFile, GoneSendsNoFile DEF Conversation, Before
  <2>5. disk' = disk /\ sDisk' = sDisk
    BY <2>0, <2>1, <2>2, FewActions, HarmlessStep DEF AllStored, Mirroring
  <2>6. SyncInv' /\ Mirroring'
    BY SyncStep, MirrorStep
  <2>7. CASE cState' = "disconnected"
    BY <2>1, <2>4, <2>5, <2>7 DEF Kept, AllStored, SendsNoFile
  <2>8. CASE cState' # "disconnected"
    <3>1. Online'
      BY <2>6, <2>8 DEF SyncInv, Conversation, Before, Gone, Online
    <3>2. Mirrors'
      BY <1>3, <2>6, <2>8, <3>1 DEF Mirroring, Online, Greeting, Authenticating, Talking
    <3>3. AllStored'
      BY <1>3, <2>4, <2>6, <3>1, <3>2, OnlineIsStoredNext DEF SendsNoFile, SyncInv
    <3>. QED
      BY <2>1, <2>5, <3>3 DEF Kept
  <2>. QED
    BY <2>7, <2>8
<1>. QED
  BY <1>1, <1>2, <1>3

\* Without a client nothing happens but what is under way.
LEMMA RestStep ==
  ASSUME FirstSync, TypeOK, Calm, AtRest, Next
  PROVE  AtRest'
<1>1. Gone /\ Gone'
  BY GoneStep DEF AtRest
<1>2. ~Connects /\ ~Stops /\ ~SaysHello /\ ~ClientTicks /\ ~Indexes /\ ~TimerEnds
  BY <1>1, NewTimerRests
     DEF AtRest, Gone, Connects, UserConnect, Stops, UserStop, SaysHello, SendClientHello, ClientTicks,
         ClientTick, TickConnected, TickAwaiting, TickPing, Indexes, IndexerEnds, TimerEnds,
         TimerThreadEnds
<1>3. DeliverDown => Ignored
  BY <1>1 DEF DeliverDown, Deliverable, ClientReceive, Gone
<1>4. UNCHANGED <<clientVars, fsClientVars>>
  BY <1>2, <1>3, FewActions DEF SessionTicks, CleansUp, DeliverUp, ServerThreads, Ignored
<1>. QED
  BY <1>1, <1>4 DEF AtRest, clientVars, fsClientVars, EmptyLibrary

\* With a restarted server nothing happens at all.
LEMMA ReadyRests ==
  ASSUME FirstSync, TypeOK, Calm, AtRest, Quiet, up = <<>>, down = <<>>
  PROVE  ~Next
<1>1. SUFFICES ASSUME Next PROVE FALSE
  OBVIOUS
<1>2. ~Connects /\ ~Stops /\ ~SaysHello /\ ~ClientTicks /\ ~Indexes /\ ~TimerEnds
  BY NewTimerRests
     DEF AtRest, Gone, Connects, UserConnect, Stops, UserStop, SaysHello, SendClientHello, ClientTicks,
         ClientTick, TickConnected, TickAwaiting, TickPing, Indexes, IndexerEnds, TimerEnds,
         TimerThreadEnds
<1>3. ~DeliverUp /\ ~DeliverDown /\ ~LoseUp /\ ~LoseDown
  <2>1. DOMAIN <<>> = {}
    OBVIOUS
  <2>. QED
    BY <2>1 DEF DeliverUp, DeliverDown, LoseUp, LoseDown, Deliverable
<1>. QED
  BY <1>1, <1>2, <1>3, NoSessionRests, FewActions

\* A step of the client, the server or the network.
LEMMA RunStep ==
  ASSUME FirstSync, RestartInv, RunsOn
  PROVE  RestartInv'
<1>1. SyncInv /\ TypeOK /\ Calm /\ Mirroring /\ Harmless /\ ReadRight /\ Phases /\ Next
  BY DEF RestartInv, SyncInv, RunsOn
<1>2. UNCHANGED <<index, phase, starts>> /\ disk'[Junk] = Absent
  BY DEF RunsOn, restartVars, UserIsCareful
<1>3. SyncInv' /\ Mirroring'
  BY <1>1, SyncStep, MirrorStep
<1>4. Harmless' /\ ReadRight'
  <2>1. Harmless'
    <3>1. CASE garbled' = 0
      BY <1>1, <3>1, NoneGarbled, HarmlessStep DEF Mirroring
    <3>2. CASE garbled' # 0
      BY <3>2 DEF Harmless
    <3>. QED
      BY <3>1, <3>2
  <2>2. ReadRight'
    BY <1>1, <1>2, KeptStep DEF ReadRight
  <2>. QED
    BY <2>1, <2>2
<1>5. Phases'
  <2>1. phase # "ready"
    BY <1>1, ReadyRests DEF Phases
  <2>. QED
    BY <1>1, <1>2, <2>1, RestStep DEF Phases
<1>. QED
  BY <1>2, <1>3, <1>4, <1>5 DEF RestartInv

-----------------------------------------------------------------------------
(* The client goes and comes. *)

\* Whatever ends the process leaves what is under way and what the server has.
LEMMA GoesAway ==
  ASSUME FirstSync, RestartInv, cPort >= 1, ClientIsGone,
         starts \notin Misreads =>
           index' = NoIndex \/ (index' = disk /\ (garbled = 0 => sDisk = disk /\ NoFileMessage))
  PROVE  RestartInv'
<1>1. SyncInv /\ TypeOK /\ Calm /\ Mirroring /\ Harmless
  BY DEF RestartInv, SyncInv
<1>2. /\ UNCHANGED <<disk, dirs, changes, cPort, cId, cPw, garbled, sessions, serverUp, authed,
                     handled, sDisk, sDirs, sLast, up, losses, duplicates>>
      /\ starts' = starts
      /\ phase' = "stopped" /\ cState' = "disconnected" /\ cTimer' = NewTimer /\ cQueue' = <<>>
      /\ cSeq' = 0 /\ cMissed' = 0 /\ cHellos' = 0 /\ cIndexer' = "joined" /\ ended' = 0
      /\ down' = <<>> /\ lib' = EmptyLibrary /\ ws' = EmptyWorkingSet
  BY DEF ClientIsGone, serverVars, fsServerVars, EmptyLibrary
<1>3. TypeOK'
  <2>1. ClientTypeOK'
    BY <1>1, <1>2, ClientAssumption DEF TypeOK, ClientTypeOK, ClientStates, NewTimer, TimerType
  <2>2. FilesTypeOK'
    <3>1. EmptyLibrary \in Library
      BY NoObjectType DEF EmptyLibrary, Library
    <3>2. EmptyWorkingSet \in WorkingSet
      BY DEF EmptyWorkingSet, WorkingSet, FileKey
    <3>. QED
      BY <1>1, <1>2, <3>1, <3>2 DEF TypeOK, FilesTypeOK
  <2>3. ServerTypeOK' /\ NetTypeOK'
    BY <1>1, <1>2 DEF TypeOK, ServerTypeOK, FsServerTypeOK, NetTypeOK
  <2>. QED
    BY <2>1, <2>2, <2>3 DEF TypeOK
<1>4. Calm'
  BY <1>1, <1>2, OthersKeepCalm
<1>5. Gone' /\ AtRest'
  BY <1>2 DEF Gone, AtRest, EmptyLibrary
<1>6. SyncInv' /\ Mirroring'
  BY <1>1, <1>2, <1>3, <1>4, <1>5 DEF SyncInv, Conversation, Mirroring, InFolders
<1>7. Harmless' /\ disk'[Junk] = Absent
  BY <1>1, <1>2 DEF Harmless, RestartInv
<1>8. ReadRight'
  <2>1. ws'.files = {} /\ ws'.cur = NoFile
    BY <1>2 DEF EmptyWorkingSet
  <2>2. NoFileMessage => NoFileMessage'
    BY <1>1, <1>2, NoFileMessageStays
  <2>. QED
    BY <1>2, <2>1, <2>2 DEF ReadRight, Kept, AllStored, NoIndex
<1>9. Phases'
  BY <1>2, <1>5 DEF Phases
<1>. QED
  BY <1>6, <1>7, <1>8, <1>9 DEF RestartInv

\* A client that is idle has nothing to send, and the server has all files.
LEMMA IdleIsStored ==
  ASSUME SyncInv, Mirroring, cState \in {"connected", "ping"}
  PROVE  cPort >= 1 /\ Talking /\ (garbled = 0 => AllStored)
<1>1. cPort >= 1 /\ Talking
  BY DEF SyncInv, Conversation, Before, Greeting, Authenticating, Gone, Talking
<1>2. ws = EmptyWorkingSet
  BY <1>1 DEF Talking, OnlyPings, OneStatus, OneFileMessage
<1>3. garbled = 0 => Mirrors
  BY <1>1 DEF Mirroring
<1>. QED
  BY <1>1, <1>2, <1>3, OnlineIsStored DEF EmptyWorkingSet, Online, SyncInv

\* A client that is stopped when it has sent everything writes an index of the
\* files that the user and the server have.
LEMMA StopWritesAll ==
  ASSUME LateStops, RestartInv, ClientStops
  PROVE  RestartInv'
<1>1. cState \in {"connected", "ping"} /\ ClientIsGone
  BY DEF ClientStops, NothingToSend, LateStops
<1>2. cPort >= 1 /\ Talking /\ (garbled = 0 => AllStored)
  BY <1>1, IdleIsStored DEF RestartInv
<1>3. FilesAreKnown(lib) /\ disk \in [File -> Content \cup {Absent}]
  BY <1>2 DEF Talking, Indexed, RestartInv, SyncInv, TypeOK, FilesTypeOK
<1>4. \A f \in File : IF disk[f] = Absent THEN lib.file[f].known = "no"
                      ELSE lib.file[f].known = "yes" /\ lib.file[f].hash = disk[f]
  BY <1>3 DEF FilesAreKnown, NoObject
<1>5. Closes(lib)
  BY <1>4 DEF Closes
<1>6. SaveFilesystem(lib) = disk
  BY <1>3, <1>4 DEF SaveFilesystem
<1>7. index' = disk
  BY <1>5, <1>6 DEF ClientStops
<1>. QED
  BY <1>1, <1>2, <1>7, GoesAway DEF LateStops, AllStored

\* A client that is killed writes nothing.
LEMMA CrashLosesNothing ==
  ASSUME FirstSync, RestartInv, ClientCrashes
  PROVE  RestartInv'
<1>1. cPort >= 1 /\ ClientIsGone /\ index' = index
  BY ClientFacts DEF ClientCrashes, RestartInv, SyncInv
<1>. QED
  BY <1>1, GoesAway DEF RestartInv, ReadRight, Kept, AllStored

\* A restarted server has its directory and nothing else.
LEMMA ServerComesBack ==
  ASSUME FirstSync, RestartInv, ServerRestarts
  PROVE  RestartInv'
<1>1. TypeOK /\ Calm /\ Mirroring /\ Harmless /\ ReadRight /\ AtRest
  BY DEF RestartInv, SyncInv, Phases, ServerRestarts
<1>2. /\ UNCHANGED <<clientVars, fsClientVars, authed, sDisk, sDirs, losses, duplicates, index,
                     starts>>
      /\ phase' = "ready" /\ sessions' = [id \in ClientId |-> NoSession] /\ serverUp' = TRUE
      /\ sLast' = [f \in File |-> 0] /\ handled' = {} /\ up' = <<>> /\ down' = <<>>
  BY DEF ServerRestarts
<1>3. UNCHANGED <<cState, cTimer, cQueue, cSeq, cPort, cId, cPw, cMissed, cHellos, cIndexer, ended, garbled,
                  disk, dirs, changes, lib, ws>>
  BY <1>2 DEF clientVars, fsClientVars
<1>4. TypeOK'
  <2>1. ClientTypeOK' /\ FilesTypeOK'
    BY <1>1, <1>3 DEF TypeOK, ClientTypeOK, FilesTypeOK
  <2>2. ServerTypeOK'
    BY <1>1, <1>2, FilesystemAssumption DEF TypeOK, ServerTypeOK, FsServerTypeOK, Part
  <2>3. NetTypeOK'
    BY <1>1, <1>2 DEF TypeOK, NetTypeOK
  <2>. QED
    BY <2>1, <2>2, <2>3 DEF TypeOK
<1>5. Quiet'
  BY <1>2 DEF Quiet
<1>6. Calm' /\ NoFileMessage'
  <2>1. DOMAIN up' = {}
    BY <1>2
  <2>. QED
    BY <1>1, <1>2, <1>3, <1>5, <2>1 DEF Calm, Quiet, NoFileMessage
<1>7. AtRest' /\ Gone'
  BY <1>1, <1>3 DEF AtRest, Gone, EmptyLibrary
<1>8. SyncInv' /\ Mirroring'
  BY <1>1, <1>2, <1>3, <1>4, <1>6, <1>7 DEF SyncInv, Conversation, Mirroring, InFolders, Gone
<1>9. Harmless' /\ disk'[Junk] = Absent
  BY <1>1, <1>2, <1>3 DEF Harmless, RestartInv
<1>10. ReadRight'
  BY <1>1, <1>2, <1>3, <1>6, <1>7 DEF ReadRight, Kept, AllStored, NoIndex, AtRest
<1>11. Phases'
  BY <1>2, <1>5, <1>7 DEF Phases
<1>. QED
  BY <1>8, <1>9, <1>10, <1>11 DEF RestartInv

\* What openFilesystem has made of an index that is true.
LEMMA RestoredFacts ==
  ASSUME FilesTypeOK, disk[Junk] = Absent, index = NoIndex \/ index = disk,
         NEW taken \in SUBSET (IF InIndex = {} THEN {} ELSE InIndex \cup {Junk})
  PROVE  LET l == Restored(taken) IN
         /\ l \in Library /\ l.folders = <<>>
         /\ \A f \in File : l.file[f].known = "yes" /\ disk[f] # Absent =>
              index = disk /\ l.file[f] = RestoredObject(disk[f]) /\ l.file[f].hash = disk[f]
         /\ InIndex \subseteq taken =>
              \A f \in File : index = disk /\ disk[f] # Absent => l.file[f].known = "yes"
<1>. DEFINE l == Restored(taken)
<1>1. disk \in [File -> Content \cup {Absent}] /\ Absent \notin Content /\ Junk \in File
  BY FilesystemAssumption, RestartAssumption DEF FilesTypeOK
<1>2. index = NoIndex => taken = {}
  BY DEF NoIndex, InIndex
<1>3. \A c : RestoredObject(c).known = "yes" /\ RestoredObject(c).hash = c
  BY DEF RestoredObject, NoObject
<1>4. \A c \in Content : RestoredObject(c) \in FileObject
  <2>1. \A c \in Content : Len(c) \in 0..MaxParts
    BY ContentFacts
  <2>2. NoObject \in FileObject
    BY NoObjectType
  <2>. QED
    BY <2>1, <2>2 DEF RestoredObject, FileObject
<1>5. /\ l.folders = <<>>
      /\ l.file = [f \in File |-> IF f \notin taken THEN NoObject
                                  ELSE IF f = Junk THEN RestoredObject(<<>>)
                                  ELSE RestoredObject(index[f])]
      /\ l = [file |-> l.file, folders |-> <<>>]
  BY DEF Restored
<1>6. \A f \in taken : f # Junk => index = disk /\ disk[f] \in Content
  BY <1>1, <1>2 DEF InIndex
<1>7. \A f \in File : l.file[f] \in FileObject
  BY <1>4, <1>5, <1>6, NoObjectType, EmptyContent
<1>8. l.file \in [File -> FileObject]
  BY <1>5, <1>7
<1>9. l \in Library
  <2>1. <<>> \in Seq(FolderObject)
    OBVIOUS
  <2>. HIDE DEF l
  <2>. QED
    BY <1>5, <1>8, <2>1 DEF Library
<1>10. NoObject.known = "no"
  BY DEF NoObject
<1>11. ASSUME NEW f \in File, l.file[f].known = "yes", disk[f] # Absent
       PROVE  index = disk /\ l.file[f] = RestoredObject(disk[f]) /\ l.file[f].hash = disk[f]
  BY <1>3, <1>5, <1>6, <1>10, <1>11
<1>12. ASSUME InIndex \subseteq taken, NEW f \in File, index = disk, disk[f] # Absent
       PROVE  l.file[f].known = "yes"
  BY <1>3, <1>5, <1>12 DEF InIndex
<1>. QED
  BY <1>5, <1>9, <1>11, <1>12

\* A client that is started knows what is on the server, or knows nothing.
LEMMA ClientComesBack ==
  ASSUME LateStops, RestartInv, ClientStarts
  PROVE  RestartInv'
<1>0. starts \notin Misreads
  <2>1. starts \in Misreads => starts \in Nat
    BY RestartAssumption
  <2>2. starts < MaxStarts /\ MaxStarts \in Nat
    BY RestartAssumption DEF ClientStarts
  <2>3. starts \in Misreads => starts >= MaxStarts
    BY DEF LateStops
  <2>. QED
    BY <2>1, <2>2, <2>3
<1>1. /\ TypeOK /\ Calm /\ Mirroring /\ Harmless /\ Kept /\ disk[Junk] = Absent
      /\ AtRest /\ Gone /\ serverUp /\ Quiet /\ up = <<>> /\ down = <<>> /\ sLast = [f \in File |-> 0]
  BY <1>0 DEF RestartInv, SyncInv, Phases, AtRest, ClientStarts, ReadRight
<1>2. PICK taken \in SUBSET (IF InIndex = {} THEN {} ELSE InIndex \cup {Junk}) :
        /\ starts' \notin Misreads => InIndex \subseteq taken
        /\ ws' = Index(Restored(taken), disk, dirs).ws
        /\ lib' = Index(Restored(taken), disk, dirs).lib
  BY DEF ClientStarts
<1>3. /\ phase' = "running" /\ cPort' = cPort + 1 /\ cState' = "sendClientHello"
      /\ UNCHANGED <<cTimer, cQueue, cSeq, cId, cPw, cMissed, cHellos, cIndexer, ended, garbled, disk, dirs,
                     changes, sessions, serverUp, authed, handled, sDisk, sDirs, sLast, up, down,
                     losses, duplicates, index>>
  BY DEF ClientStarts, serverVars, fsServerVars, netVars
<1>. DEFINE l == Restored(taken)
            found == Index(l, disk, dirs)
<1>4. index = NoIndex \/ index = disk
  BY <1>1 DEF Kept
<1>5. /\ l \in Library /\ l.folders = <<>>
      /\ \A f \in File : l.file[f].known = "yes" /\ disk[f] # Absent =>
           index = disk /\ l.file[f] = RestoredObject(disk[f]) /\ l.file[f].hash = disk[f]
      /\ starts' \notin Misreads =>
           \A f \in File : index = disk /\ disk[f] # Absent => l.file[f].known = "yes"
  <2>1. FilesTypeOK
    BY <1>1 DEF TypeOK
  <2>. QED
    BY <1>1, <1>2, <1>4, <2>1, RestoredFacts
<1>. HIDE DEF l
<1>6. /\ FilesAreKnown(found.lib) /\ FoldersAreListed(found.lib)
      /\ WorkExists(found.ws) /\ found.ws.cur = NoFile
      /\ found.ws.files = {f \in File : disk[f] # Absent /\ l.file[f].known # "yes"}
      /\ \A f \in File : disk[f] # Absent =>
           found.lib.file[f] = IF l.file[f].known = "yes" THEN l.file[f] ELSE NewObject(disk[f])
      /\ \A d \in dirs : \E i \in DOMAIN found.lib.folders :
           found.lib.folders[i].pending /\ found.lib.folders[i].path = d
  BY <1>1, <1>5, StartIndex DEF TypeOK
<1>7. found.lib \in Library /\ found.ws \in WorkingSet
  BY <1>1, <1>5, IndexType DEF TypeOK, FilesTypeOK
<1>8. ws' = found.ws /\ lib' = found.lib
  BY <1>2 DEF l
<1>. HIDE DEF found
<1>9. TypeOK'
  <2>1. ClientTypeOK'
    BY <1>1, <1>3 DEF TypeOK, ClientTypeOK, ClientStates
  <2>2. FilesTypeOK'
    BY <1>1, <1>3, <1>7, <1>8 DEF TypeOK, FilesTypeOK
  <2>3. ServerTypeOK' /\ NetTypeOK'
    BY <1>1, <1>3 DEF TypeOK, ServerTypeOK, FsServerTypeOK, NetTypeOK
  <2>. QED
    BY <2>1, <2>2, <2>3 DEF TypeOK
<1>10. cPort' >= 1
  BY <1>1, <1>3, ClientFacts
<1>11. Quiet' /\ DOMAIN up' = {} /\ DOMAIN down' = {} /\ Writing' = NoFile
  BY <1>1, <1>3, ClientIds DEF Quiet, Writing
<1>12. Calm'
  BY <1>1, <1>3, <1>11 DEF Calm, Quiet
<1>13. Indexed'
  <2>1. FilesAreKnown(lib)' /\ FoldersAreListed(lib)' /\ WorkExists(ws)'
    BY <1>3, <1>6, <1>8 DEF FilesAreKnown, FoldersAreListed, WorkExists
  <2>. QED
    BY <2>1 DEF Indexed
<1>14. Greeting'
  BY <1>1, <1>3, <1>6, <1>8, <1>10, <1>11, <1>13 DEF Greeting, AtRest, Gone
<1>15. ASSUME garbled = 0, NEW f \in File PROVE FileIsSent(f)'
  <2>0. f # NoFile /\ ws'.cur = NoFile
    BY <1>6, <1>8, FilesystemAssumption
  <2>1. CASE disk[f] = Absent
    BY <1>1, <1>3, <1>15, <2>1 DEF FileIsSent, Harmless
  <2>2. CASE disk[f] # Absent /\ l.file[f].known = "yes"
    <3>1. index = disk /\ lib'.file[f] = RestoredObject(disk[f]) /\ f \notin ws'.files
      BY <1>5, <1>6, <1>8, <2>2
    <3>2. sDisk[f] = disk[f]
      BY <1>1, <1>15, <2>2, <3>1 DEF Kept, AllStored, NoIndex
    <3>3. ReadsFile(f)'
      BY <1>3, <3>1 DEF ReadsFile, RestoredObject, NoObject, ClosedFd
    <3>4. Done(f)'
      BY <1>3, <2>0, <3>1, <3>2 DEF Done, RestoredObject, NoObject
    <3>. QED
      BY <1>3, <2>2, <3>3, <3>4 DEF FileIsSent
  <2>3. CASE disk[f] # Absent /\ l.file[f].known # "yes"
    <3>1. lib'.file[f] = NewObject(disk[f]) /\ f \in ws'.files
      BY <1>6, <1>8, <2>3
    <3>2. ReadsFile(f)'
      BY <1>3, <3>1 DEF ReadsFile, NewObject, ClosedFd
    <3>3. Fresh(f)'
      BY <1>1, <1>3, <1>11, <2>0, <3>1 DEF Fresh, NewObject
    <3>. QED
      BY <1>3, <2>3, <3>2, <3>3 DEF FileIsSent
  <2>. QED
    BY <2>1, <2>2, <2>3
<1>16. \A d \in dirs' : FolderIsSent(d)'
  BY <1>3, <1>6, <1>8 DEF FolderIsSent, IsPending
<1>17. garbled = 0 => Mirrors'
  <2>1. garbled = 0 => sDirs' \subseteq dirs' /\ ws'.cur = NoFile
    BY <1>1, <1>3, <1>6, <1>8 DEF Harmless
  <2>. QED
    BY <1>3, <1>11, <1>15, <1>16, <2>1 DEF Mirrors
<1>18. SyncInv' /\ Mirroring'
  BY <1>1, <1>3, <1>9, <1>10, <1>12, <1>14, <1>17 DEF SyncInv, Conversation, Mirroring, InFolders
<1>19. Harmless' /\ disk'[Junk] = Absent /\ Phases'
  BY <1>1, <1>3 DEF Harmless, Phases
<1>20. ReadRight'
  <2>1. SUFFICES ASSUME starts' \notin Misreads PROVE Kept'
    BY DEF ReadRight
  <2>2. CASE index = NoIndex
    BY <1>3, <2>2 DEF Kept, NoIndex
  <2>3. CASE index # NoIndex
    <3>1. index = disk /\ (garbled = 0 => AllStored)
      BY <1>1, <2>3 DEF Kept
    <3>2. ws'.files = {} /\ ws'.cur = NoFile
      BY <1>5, <1>6, <1>8, <2>1, <3>1
    <3>3. NoFileMessage' /\ cIndexer' = "joined"
      BY <1>1, <1>3, <1>11 DEF NoFileMessage, AtRest
    <3>. QED
      BY <1>3, <3>1, <3>2, <3>3 DEF Kept, AllStored
  <2>. QED
    BY <2>2, <2>3
<1>. QED
  BY <1>18, <1>19, <1>20 DEF RestartInv

-----------------------------------------------------------------------------
(* The theorems. *)

\* The invariant before the first connection.
LEMMA RestartStart == RestartInit => RestartInv
<1>. SUFFICES ASSUME RestartInit PROVE RestartInv
  OBVIOUS
<1>1. Init /\ index = NoIndex /\ phase = "running"
  BY DEF RestartInit, NoIndex
<1>2. SyncInv /\ Mirroring
  BY <1>1, SyncInit, MirrorInit
<1>3. Harmless
  BY <1>1 DEF Init, ServerInit, FilesystemServerInit, Harmless
<1>4. disk[Junk] = Absent
  BY <1>1, RestartAssumption DEF Init, FilesystemClientInit
<1>. QED
  BY <1>1, <1>2, <1>3, <1>4 DEF RestartInv, ReadRight, Kept, Phases

\* Every step keeps it.
LEMMA RestartStep ==
  ASSUME LateStops, RestartInv, [RestartNext]_rVars
  PROVE  RestartInv'
<1>0. FirstSync
  BY DEF LateStops
<1>1. CASE UNCHANGED rVars
  <2>1. UNCHANGED vars /\ UNCHANGED restartVars
    BY <1>1 DEF rVars
  <2>2. SyncInv' /\ Mirroring'
    BY <1>0, <2>1, SyncStep, MirrorStep DEF RestartInv
  <2>3. /\ UNCHANGED <<cState, cTimer, cQueue, cSeq, cPort, cIndexer, garbled, disk, dirs, lib, ws, sDisk, sDirs,
                       sLast, sessions, serverUp, up, down, index, phase, starts>>
    BY <2>1 DEF vars, restartVars, clientVars, fsClientVars, serverVars, fsServerVars, netVars
  <2>4. FilesAreKnown(lib)' <=> FilesAreKnown(lib)
    BY <2>3 DEF FilesAreKnown
  <2>5. Harmless' /\ disk'[Junk] = Absent /\ ReadRight'
    BY <2>3, <2>4 DEF RestartInv, Harmless, ReadRight, Kept, AllStored, NoFileMessage, IsFileMessage, NoIndex
  <2>6. Phases'
    BY <2>3 DEF RestartInv, Phases, AtRest, Gone, Quiet, EmptyLibrary
  <2>. QED
    BY <2>2, <2>5, <2>6 DEF RestartInv
<1>. QED
  BY <1>0, <1>1, RunStep, StopWritesAll, CrashLosesNothing, ServerComesBack, ClientComesBack
     DEF RestartNext

LEMMA RestartAlways == LateStops => (RestartSpec => []RestartInv)
<1>. SUFFICES ASSUME LateStops PROVE RestartSpec => []RestartInv
  OBVIOUS
<1>1. RestartInit => RestartInv
  BY RestartStart
<1>2. RestartInv /\ [RestartNext]_rVars => RestartInv'
  BY RestartStep
<1>. QED
  BY <1>1, <1>2, PTL DEF RestartSpec

(***************************************************************************)
(* What openFilesystem makes a client believe is true, in whatever run it  *)
(* is: when it has nothing to send, the server holds every file it knows,  *)
(* as long as nothing was sent again with something else in it.            *)
(***************************************************************************)
THEOREM RestartKnowsTruth == LateStops => (RestartSpec => []KnownIsStored)
<1>. SUFFICES ASSUME LateStops PROVE RestartSpec => []KnownIsStored
  OBVIOUS
<1>1. RestartInv => KnownIsStored
  <2>1. SUFFICES ASSUME RestartInv, garbled = 0, cState \in {"connected", "ping"}, NEW f \in File,
                        lib.file[f].known = "yes"
                 PROVE  sDisk[f] = lib.file[f].hash
    BY DEF KnownIsStored
  <2>2. Talking /\ AllStored
    BY <2>1, IdleIsStored DEF RestartInv
  <2>3. disk[f] # Absent /\ lib.file[f].hash = disk[f]
    BY <2>1, <2>2 DEF Talking, Indexed, FilesAreKnown, NoObject
  <2>. QED
    BY <2>2, <2>3 DEF AllStored
<1>. QED
  BY <1>1, RestartAlways, PTL

(***************************************************************************)
(* What .csync.files says is true: once close() has written it, it names   *)
(* the files of the server with the hashes of what they hold, whatever is  *)
(* killed and restarted then, until openFilesystem misreads a name or a    *)
(* message is sent again with something else in it.                        *)
(***************************************************************************)
THEOREM RestartIndexIsTrue ==
  LateStops => (RestartSpec =>
    [](starts \notin Misreads /\ garbled = 0 =>
         index = [f \in File |-> Absent] \/ index = sDisk))
<1>. DEFINE True == starts \notin Misreads /\ garbled = 0 =>
                      index = [f \in File |-> Absent] \/ index = sDisk
<1>. SUFFICES ASSUME LateStops PROVE RestartSpec => []True
  OBVIOUS
<1>1. RestartInv => True
  BY DEF RestartInv, ReadRight, Kept, AllStored, NoIndex
<1>. QED
  BY <1>1, RestartAlways, PTL

(***************************************************************************)
(* In every run of the client, the first or a later one: a client that     *)
(* waits is woken up unless the server has crashed, a session in use is    *)
(* not given up, and the server stays alive unless a name was sent again   *)
(* as something else.                                                      *)
(***************************************************************************)
THEOREM RestartIsSupervised ==
  LateStops => (RestartSpec => [](Supervised /\ SessionKept /\ ServerSurvives))
<1>. SUFFICES ASSUME LateStops
              PROVE  RestartSpec => [](Supervised /\ SessionKept /\ ServerSurvives)
  OBVIOUS
<1>1. RestartInv => Supervised /\ SessionKept /\ ServerSurvives
  BY PhasesAreSafe DEF RestartInv
<1>. QED
  BY <1>1, RestartAlways, PTL

(***************************************************************************)
(* Whatever was stopped, killed, forgotten or restored before: when the    *)
(* client says that the transfer has ended, the server holds the files and *)
(* folders of the user and nothing else, unless some message was sent      *)
(* again with something else in it.                                        *)
(***************************************************************************)
THEOREM RestartMirrors == LateStops => (RestartSpec => MirrorAfterRestart)
<1>. DEFINE Step == ended' > ended => garbled > 0 \/ Mirrored
<1>. SUFFICES ASSUME LateStops PROVE RestartSpec => MirrorAfterRestart
  OBVIOUS
<1>1. RestartInv /\ [RestartNext]_rVars => [Step]_rVars
  <2>0. RestartInv => ended \in Nat /\ (garbled = 0 \/ garbled > 0)
    BY ClientAssumption DEF RestartInv, SyncInv, TypeOK, ClientTypeOK
  <2>1. SUFFICES ASSUME RestartInv, RestartNext, garbled = 0, ended' > ended PROVE Mirrored
    BY <2>0
  <2>2. ended \in Nat
    BY <2>0, <2>1
  <2>3. ended' # 0 /\ ended' # ended
    BY <2>1, <2>2
  <2>4. RunsOn
    BY <2>1, <2>3 DEF RestartNext, ClientStops, ClientCrashes, ClientIsGone, ServerRestarts,
                      ClientStarts, clientVars
  <2>. QED
    BY <2>1, <2>4, EndsMirrored DEF LateStops, RestartInv, RunsOn
<1>. QED
  BY <1>1, RestartAlways, PTL DEF RestartSpec, MirrorAfterRestart
=============================================================================
