------------------------------- MODULE Session -------------------------------
(***************************************************************************)
(* One client synchronising its directory with the server: the client of   *)
(* FileClient2, the sessions of FileServerClient and the Network between.  *)
(***************************************************************************)
EXTENDS FileServerClient

CONSTANT MayStop  \* the user may stop the client from its console

ASSUME SessionAssumption == MayStop \in BOOLEAN

vars == <<clientVars, fsClientVars, serverVars, netVars>>

Init ==
  /\ NetworkInit
  /\ FilesystemClientInit
  /\ ClientInit
  /\ ServerInit

DeliverUp ==
  /\ \E i \in Deliverable(up, UpPort) :
       /\ up' = RemoveAt(up, i)
       /\ ServerReceive(up[i])
  /\ UNCHANGED <<clientVars, fsClientVars, losses, duplicates>>

DeliverDown ==
  /\ \E i \in Deliverable(down, DownPort) :
       /\ down' = RemoveAt(down, i)
       /\ ClientReceive(down[i])
  /\ UNCHANGED <<serverVars, losses, duplicates>>

ClientThreads == UNCHANGED <<serverVars, down, losses, duplicates>>
ServerThreads == UNCHANGED <<clientVars, fsClientVars, up, losses, duplicates>>

Connects == UserConnect /\ ClientThreads
Stops == MayStop /\ UserStop /\ ClientThreads
SaysHello == SendClientHello /\ ClientThreads
Indexes == IndexerEnds /\ ClientThreads
ClientTicks == ClientTick /\ ClientThreads
TimerEnds == TimerThreadEnds /\ ClientThreads
SessionTicks == \E id \in ClientId : SessionTick(id) /\ ServerThreads
CleansUp == \E id \in ClientId : Cleanup(id) /\ ServerThreads
OthersUpload == \E id \in ClientId : OtherClientUploads(id) /\ ServerThreads
UserChanges == UserChange /\ UNCHANGED <<clientVars, serverVars, netVars>>
Faults == NetworkFault /\ UNCHANGED <<clientVars, fsClientVars, serverVars>>

Next ==
  \/ Connects
  \/ Stops
  \/ SaysHello
  \/ Indexes
  \/ ClientTicks
  \/ TimerEnds
  \/ SessionTicks
  \/ CleansUp
  \/ OthersUpload
  \/ UserChanges
  \/ Faults
  \/ DeliverUp
  \/ DeliverDown

Spec == Init /\ [][Next]_vars

(***************************************************************************)
(* The threads that loop on both sides keep running: the hello thread, the *)
(* timer threads, the indexing thread and the socket readers with their    *)
(* consumers.  Nothing is assumed of the user, of faults, of other clients *)
(* and of the cleanup.                                                     *)
(***************************************************************************)
Fairness ==
  /\ WF_vars(Connects)
  /\ WF_vars(SaysHello)
  /\ WF_vars(Indexes)
  /\ WF_vars(ClientTicks)
  /\ WF_vars(TimerEnds)
  /\ WF_vars(SessionTicks)
  /\ WF_vars(DeliverUp)
  /\ WF_vars(DeliverDown)

FairSpec == Spec /\ Fairness

-----------------------------------------------------------------------------
(* Types *)

UpMessage ==
  [type : {"ClientHello"}, dst : Nat, id : ClientId] \cup
  [type : {"AuthRequest"}, seq : Nat, to : ClientId, pw : Passwords] \cup
  [type : {"Ack", "Ping"}, seq : Nat, to : ClientId] \cup
  [type : {"FileStatus"}, seq : Nat, to : ClientId, fid : FileKey] \cup
  [type : {"FileCreation"}, seq : Nat, to : ClientId, kind : {"ft_file"}, fid : FileKey] \cup
  [type : {"FileCreation"}, seq : Nat, to : ClientId, kind : {"ft_folder"},
   fid : NamesFor("ft_folder")] \cup
  [type : {"FileCreation"}, seq : Nat, to : ClientId, kind : {"ft_del_file"},
   fid : NamesFor("ft_del_file")] \cup
  [type : {"FileTransfer"}, seq : Nat, to : ClientId, part : Part, data : Data] \cup
  [type : {"TransferEnded"}, to : ClientId]

DownMessage ==
  [type : {"ServerHello"}, seq : Nat, dst : Nat, id : ClientId, flags : {"accepted", "idTaken"}] \cup
  [type : {"AuthResult"}, seq : Nat, dst : Nat, ok : BOOLEAN] \cup
  [type : {"Ack", "FileCreation"}, seq : Nat, dst : Nat] \cup
  [type : {"FileStatus"}, seq : Nat, dst : Nat, last : Part]

Entry(Message) == [seq : Nat, msg : Message, sendCount : Nat]

SessionRecord ==
  [state : SessionStates, dst : Nat, seq : Nat, cur : FileKey, todo : BOOLEAN,
   queue : Seq(Entry(DownMessage))]

ASSUME NoSessionAssumption == NoSession \notin SessionRecord

ClientTypeOK ==
  /\ cState \in ClientStates
  /\ cTimer \in TimerType
  /\ cQueue \in Seq(Entry(UpMessage))
  /\ cSeq \in 0..MaxSeq
  /\ cPort \in Nat
  /\ cId \in ClientId
  /\ cPw \in Passwords
  /\ cMissed \in Nat
  /\ cHellos \in 0..MaxHellos
  /\ cIndexer \in {"joined", "running", "finished"}
  /\ ended \in Nat
  /\ garbled \in 0..MaxGarbled

ServerTypeOK ==
  /\ sessions \in [ClientId -> SessionRecord \cup {NoSession}]
  /\ serverUp \in BOOLEAN
  /\ authed \subseteq Nat
  /\ handled \subseteq UpMessage
  /\ FsServerTypeOK

NetTypeOK ==
  /\ up \in Seq(UpMessage)
  /\ down \in Seq(DownMessage)
  /\ losses \in 0..MaxLosses
  /\ duplicates \in 0..MaxDuplicates

TypeOK == ClientTypeOK /\ FilesTypeOK /\ ServerTypeOK /\ NetTypeOK

-----------------------------------------------------------------------------
(* Safety *)

(***************************************************************************)
(* A client that believes it is logged in (onAuthResultMessage) has been    *)
(* accepted by the server for this very connection, with the password of   *)
(* the user, whatever the network did to the handshakes of this connection *)
(* and of earlier ones.                                                    *)
(***************************************************************************)
AuthAgreement ==
  cState \in LoggedIn => cPort \in authed /\ cPw = Password

(***************************************************************************)
(* The server has taken up a message: its session has answered a datagram  *)
(* with the number of the message, and its consumer carries that out       *)
(* before it takes another.  It is the message the client meant unless     *)
(* something else was in a message that was sent again.                    *)
(***************************************************************************)
TakenUp(m) == \E h \in handled : SameMessage(h, m) /\ (garbled = 0 => h = m)

(***************************************************************************)
(* An answer takes a message off the client's queue (onAckMessage,         *)
(* onFileStatusMessage) only after the server has taken up that message.   *)
(***************************************************************************)
RemovedByAnswer(e) ==
  /\ Len(down') < Len(down)
  /\ cState' \in LoggedIn
  /\ e.msg.type # "AuthRequest"
  /\ \A j \in DOMAIN cQueue' : cQueue'[j].msg # e.msg

AcksAreHonest ==
  [][\A i \in DOMAIN cQueue : RemovedByAnswer(cQueue[i]) => TakenUp(cQueue[i].msg)]_vars

(***************************************************************************)
(* A client that waits for the server (clientAuth, reqestedFileStatus,     *)
(* awaitingAck) is woken up again, unless the server has crashed: an answer *)
(* to something it has filed is on its way, or its timer ticks and has a    *)
(* message to send once more.                                              *)
(***************************************************************************)
Supervised ==
  serverUp /\ cState \in {"clientAuth", "reqestedFileStatus", "awaitingAck"} =>
    \/ Ticks(cTimer) /\ cQueue # <<>>
    \/ \E i \in DOMAIN cQueue : EntryInTransit(cQueue[i])

\* A client that is connected pings the server: its timer ticks.
Pings == cState = "connected" => Ticks(cTimer)

(***************************************************************************)
(* sendNextFilePart goes on to the next message only when the server has    *)
(* taken up every file message sent before it: a new file message is never *)
(* sent past one that may be lost.                                         *)
(***************************************************************************)
FileMessage(m) == m.type \in {"FileStatus", "FileCreation", "FileTransfer"}

StopAndWait ==
  [][(cSeq' > cSeq /\ FileMessage(up'[Len(up')])) =>
       \A i \in DOMAIN cQueue : FileMessage(cQueue[i].msg) => TakenUp(cQueue[i].msg)]_vars

(***************************************************************************)
(* When the client announces the end of the transfer, the directory of the *)
(* server holds the files and folders of the user, and nothing else, once  *)
(* it has carried out what it has acknowledged - as long as nothing was     *)
(* sent again with something else in it.                                   *)
(***************************************************************************)
Mirrored ==
  /\ \A f \in File : sDisk[f] = disk[f]
  /\ sDirs = dirs

MirrorAtEnd == [][ended' > ended => garbled > 0 \/ Mirrored]_vars

\* What the program says with the end of a transfer, whatever was sent again.
EndMeansMirrored == [][ended' > ended => Mirrored]_vars

\* The process of the client never dies in std::terminate, which a second
\* indexing thread causes while the first is not joined (connect).
ClientSurvives == cState # "terminated"

\* No datagram of a client brings the server process down, unless a name was
\* sent again as something else.
ServerSurvives == garbled > 0 \/ serverUp

(***************************************************************************)
(* A session the client is logged in to is not given up by the server while *)
(* the client keeps it (fsc_error in onTimerTick).                         *)
(***************************************************************************)
SessionKept ==
  cState \in LoggedIn => \A id \in ClientId :
    (sessions[id] # NoSession /\ sessions[id].dst = cPort) => sessions[id].state # "fsc_error"

-----------------------------------------------------------------------------
(* Liveness *)

\* A connected client brings the upload of its directory to an end, unless the
\* server crashes.
UploadCompletes == <>(cPort > 0) => <>(ended > 0 \/ ~serverUp)

=============================================================================
