------------------------------ MODULE ActAfterAck ------------------------------
(***************************************************************************)
(* The same client and server, but a session acknowledges a message first  *)
(* and carries it out then (onFileCreationMessage, onFileTransferMessage). *)
(* In between the client may get the acknowledgement and go on, datagrams  *)
(* may be lost, and the timers tick; only the consumer of the session takes *)
(* no other datagram, as it is one thread.  What joins this thread waits    *)
(* for it: the removal of the session and its change to fsc_error.         *)
(*                                                                         *)
(* Session takes the two for one step.  Atomic says in which sense that is *)
(* right: one sees there what the session has promised with its            *)
(* acknowledgement as if it were done.                                     *)
(***************************************************************************)
EXTENDS Session

\* Two clients could be at the same file, and what they promised is not done
\* in the order of the promises.
ASSUME OneClient == MaxIds = 1

VARIABLE acting  \* what the session has acknowledged and not carried out: nothing or a message

actVars == <<vars, acting>>

ActInit == Init /\ acting = <<>>

\* Mutant: the next datagram is taken, and the message in hand forgotten.
ConsumerNeverWaits == Len(acting) <= 1

ConsumerIsIdle == acting = <<>>

\* The acknowledgement leaves; what to do is in hand.
TakesUp(m) ==
  /\ acting' = <<m>>
  /\ down' = Append(down, DownAck(m.seq, sessions[m.to].dst))
  /\ handled' = handled \cup {m}
  /\ UNCHANGED <<sessions, serverUp, authed, fsServerVars>>

\* A hello comes to another thread, but one that finds the ID taken removes the
\* session and has to wait for its consumer.
Receives(m) ==
  /\ ConsumerIsIdle
  /\ IF m.type \in {"FileCreation", "FileTransfer"} /\ Active(m.to)
     THEN TakesUp(m)
     ELSE ServerReceive(m) /\ UNCHANGED acting

\* The creation, deletion or writing that follows.
Acts ==
  /\ acting # <<>>
  /\ serverUp
  /\ acting' = <<>>
  /\ LET m == acting[1] IN
       IF m.type = "FileCreation" THEN CarryOut(m.to, m)
       ELSE WriteFilePart(sessions[m.to].cur, m.part, m.data) /\ UNCHANGED <<sessions, serverUp>>
  /\ UNCHANGED <<authed, handled, down>>

DeliverToServer ==
  /\ \E i \in Deliverable(up, UpPort) : up' = RemoveAt(up, i) /\ Receives(up[i])
  /\ UNCHANGED <<clientVars, fsClientVars, losses, duplicates>>

\* A session is not removed and does not change to fsc_error in the middle of it.
ServerKeepsTime ==
  /\ SessionTicks \/ CleansUp \/ OthersUpload
  /\ \A id \in ClientId : sessions'[id] = NoSession \/ sessions'[id].state = "fsc_error" =>
       sessions'[id] = sessions[id] \/ ConsumerIsIdle
  /\ UNCHANGED acting

Elsewhere ==
  /\ Connects \/ Stops \/ SaysHello \/ Indexes \/ ClientTicks \/ TimerEnds \/ UserChanges
     \/ Faults \/ DeliverDown
  /\ UNCHANGED acting

ActNext ==
  \/ DeliverToServer
  \/ Acts /\ ServerThreads
  \/ ServerKeepsTime
  \/ Elsewhere

ActSpec == ActInit /\ [][ActNext]_actVars

-----------------------------------------------------------------------------
(* What the server holds once it has done what it has acknowledged.        *)

Pending(type) == acting # <<>> /\ acting[1].type = type
PendingKind(kind) == Pending("FileCreation") /\ acting[1].kind = kind /\ acting[1].fid # BadPath
CurFile == sessions[acting[1].to].cur
PartFits == Pending("FileTransfer") /\ CurFile # NoFile

DiskDone ==
  CASE PartFits /\ sDisk[CurFile] # Absent ->
         [sDisk EXCEPT ![CurFile] = WithPart(@, acting[1].part, acting[1].data)]
    [] PendingKind("ft_file") /\ acting[1].fid # NoFile /\ Above[acting[1].fid] \subseteq sDirs ->
         [sDisk EXCEPT ![acting[1].fid] = <<>>]
    [] PendingKind("ft_del_file") /\ acting[1].fid \in File -> [sDisk EXCEPT ![acting[1].fid] = Absent]
    [] OTHER -> sDisk

LastDone ==
  IF ~PartFits THEN sLast
  ELSE [sLast EXCEPT ![CurFile] = IF sDisk[CurFile] = Absent THEN 0
                                   ELSE IF @ + 1 = acting[1].part THEN acting[1].part ELSE @]

DeletesFolder == PendingKind("ft_del_file") /\ acting[1].fid \in Folder

DirsDone ==
  CASE PendingKind("ft_folder") /\ acting[1].fid \in Folder ->
         sDirs \cup {acting[1].fid} \cup Above[acting[1].fid]
    [] DeletesFolder /\ FolderIsEmpty(acting[1].fid) -> sDirs \ {acting[1].fid}
    [] OTHER -> sDirs

SessionsDone ==
  IF PendingKind("ft_file") THEN [sessions EXCEPT ![acting[1].to].cur = acting[1].fid] ELSE sessions

UpDone ==
  /\ serverUp
  /\ ~(Pending("FileCreation") /\ acting[1].fid = BadPath)
  /\ ~(DeletesFolder /\ ~FolderIsEmpty(acting[1].fid))

Atomic == INSTANCE Session WITH
  sDisk <- DiskDone, sDirs <- DirsDone, sLast <- LastDone, sessions <- SessionsDone,
  serverUp <- UpDone

(***************************************************************************)
(* To acknowledge before acting makes no difference that anyone could see   *)
(* but in the directory of the server, which lags behind by one message:   *)
(* whatever the client does on the acknowledgement, and whatever is lost    *)
(* or ticks meanwhile, no datagram finds the server in a state that it      *)
(* would not be in if it had acted at once.                                *)
(***************************************************************************)
ActsBeforeTheNext == Atomic!Spec

=============================================================================
