--------------------------- MODULE FileServerClient ---------------------------
(***************************************************************************)
(* The server side: the sessions of one user (FileServerClient.cpp), and    *)
(* how FileServer2 accepts hellos and removes sessions (FileServer2.cpp,    *)
(* FileServerUser.cpp).  A session listens on a port computed from the     *)
(* client ID, so sessions are a function of the ID.  As in the client, a    *)
(* handler or a tick is one step.                                          *)
(***************************************************************************)
EXTENDS FileClient2, FilesystemServer

CONSTANTS
  NoSession,     \* no session has this client ID
  OtherClients   \* other clients of the user upload something

ASSUME ServerAssumption ==
  /\ OtherClients \in BOOLEAN
  /\ MaxIds >= 1

VARIABLES
  sessions,  \* the registered sessions by client ID
  serverUp,  \* FALSE once the server process has crashed
  authed,    \* history: listen ports of the clients whose password was accepted
  handled    \* history: the acknowledged messages the server has acted on

serverVars == <<sessions, serverUp, authed, handled, fsServerVars>>

ClientId == 1..MaxIds

SessionStates == {"fsc_awaitClientAuth", "fsc_awaitServerAuthAck", "fsc_connected",
                  "fsc_awaitingAck", "fsc_ping", "fsc_error"}

\* In fsc_error the timer, the consumer and the socket are stopped.
Active(id) == serverUp /\ sessions[id] # NoSession /\ sessions[id].state # "fsc_error"

ServerInit ==
  /\ sessions = [id \in ClientId |-> NoSession]
  /\ serverUp = TRUE
  /\ authed = {}
  /\ handled = {}
  /\ FilesystemServerInit

ServerHello(id, dst, flags) ==
  [type |-> "ServerHello", seq |-> 0, dst |-> dst, id |-> id, flags |-> flags]
\* Mutant: the flag says success whatever the password was.
AuthResultAlwaysOk(seq, dst, ok) ==
  [type |-> "AuthResult", seq |-> seq, dst |-> dst, ok |-> TRUE]

AuthResult(seq, dst, ok) == [type |-> "AuthResult", seq |-> seq, dst |-> dst, ok |-> ok]
DownAck(seq, dst) == [type |-> "Ack", seq |-> seq, dst |-> dst]
FileStatusAnswer(seq, dst, last) ==
  [type |-> "FileStatus", seq |-> seq, dst |-> dst, last |-> last]
ToDoMessage(seq, dst) == [type |-> "FileCreation", seq |-> seq, dst |-> dst]

-----------------------------------------------------------------------------
(***************************************************************************)
(* onClientHelloMessage.  A new session greets the client and waits for    *)
(* the password.  A hello for an ID that is taken is declined, and then     *)
(* the user is deleted although he is registered: his sessions go, and the *)
(* server keeps a dangling pointer to him.  What it does next is undefined: *)
(* here it crashes, or carries on without the sessions.                    *)
(***************************************************************************)
NewSession(m) ==
  [state |-> "fsc_awaitClientAuth", dst |-> m.dst, seq |-> 1, cur |-> NoFile, todo |-> FALSE,
   queue |-> PushSendMessage(<<>>, 0, ServerHello(m.id, m.dst, "accepted"))]

OnClientHello(m) ==
  IF sessions[m.id] = NoSession
  THEN /\ sessions' = [sessions EXCEPT ![m.id] = NewSession(m)]
       /\ down' = Append(down, ServerHello(m.id, m.dst, "accepted"))
       /\ UNCHANGED <<serverUp, authed, handled, fsServerVars>>
  ELSE /\ sessions' = [id \in ClientId |-> NoSession]
       /\ down' = Append(down, ServerHello(m.id, m.dst, "idTaken"))
       /\ serverUp' \in BOOLEAN
       /\ UNCHANGED <<authed, handled, fsServerVars>>

(***************************************************************************)
(* Handlers of the datagrams to a session (onMessageReceived)              *)
(***************************************************************************)

OnAuthRequest(id, m) ==
  LET s == sessions[id] IN
  IF ~IsQueued(s.queue, m.seq) THEN UNCHANGED <<serverVars, down>>
  ELSE LET ok == m.pw = Password
           result == AuthResult(m.seq, s.dst, ok)
           q == OnSequenceNumberAck(s.queue, m.seq)
       IN /\ down' = Append(down, result)
          /\ sessions' = [sessions EXCEPT ![id] =
               IF ok THEN [s EXCEPT !.state = "fsc_awaitServerAuthAck",
                                    !.queue = PushSendMessage(q, m.seq, result)]
               ELSE [s EXCEPT !.state = "fsc_error", !.queue = <<>>]]
          /\ authed' = IF ok THEN authed \cup {s.dst} ELSE authed
          /\ UNCHANGED <<serverUp, handled, fsServerVars>>

OnClientAck(id, m) ==
  LET s == sessions[id]
      q == OnSequenceNumberAck(s.queue, m.seq)
  IN IF ~IsQueued(s.queue, m.seq) THEN UNCHANGED <<serverVars, down>>
     ELSE /\ sessions' = [sessions EXCEPT ![id] =
               [s EXCEPT !.queue = q,
                         !.state = IF @ = "fsc_awaitServerAuthAck" THEN "fsc_connected" ELSE @]]
          /\ UNCHANGED <<serverUp, authed, handled, fsServerVars, down>>

\* Mutant: the number expected next is acknowledged.
OnPingNext(id, m) ==
  /\ down' = Append(down, DownAck(m.seq + 1, sessions[id].dst))
  /\ handled' = handled \cup {m}
  /\ UNCHANGED <<sessions, serverUp, authed, fsServerVars>>

OnPing(id, m) ==
  /\ down' = Append(down, DownAck(m.seq, sessions[id].dst))
  /\ handled' = handled \cup {m}
  /\ UNCHANGED <<sessions, serverUp, authed, fsServerVars>>

\* The answer is sent once and not filed in the queue; it is 0 for an unknown
\* file.
OnFileStatusRequest(id, m) ==
  /\ LET last == IF m.fid = NoFile THEN 0 ELSE sLast[m.fid]
     IN down' = Append(down, FileStatusAnswer(m.seq, sessions[id].dst, last))
  /\ handled' = handled \cup {m}
  /\ UNCHANGED <<sessions, serverUp, authed, fsServerVars>>

(***************************************************************************)
(* A message is acknowledged first and carried out then, before the        *)
(* consumer takes the next datagram of the session: one step here, two in  *)
(* ActAfterAck.                                                            *)
(*                                                                         *)
(* A creation or deletion.  The deletion of a folder that is not empty      *)
(* throws in a thread that catches nothing, and so does a name that the     *)
(* file system refuses.                                                    *)
(***************************************************************************)
CarryOut(id, m) ==
  IF m.fid = BadPath THEN serverUp' = FALSE /\ UNCHANGED <<sessions, fsServerVars>>
  ELSE CASE m.kind = "ft_folder" ->
              GenFolder(m.fid) /\ UNCHANGED <<sessions, serverUp>>
         [] m.kind = "ft_file" ->
              /\ GenFile(m.fid)
              /\ sessions' = [sessions EXCEPT ![id].cur = m.fid]
              /\ UNCHANGED serverUp
         [] m.kind = "ft_del_file" /\ m.fid \in File ->
              DelFile(m.fid) /\ UNCHANGED <<sessions, serverUp>>
         \* ft_del_file with the path of a folder
         [] m.kind = "ft_del_file" /\ m.fid \in Folder ->
              IF FolderIsEmpty(m.fid)
              THEN RemoveEmptyFolder(m.fid) /\ UNCHANGED <<sessions, serverUp>>
              ELSE serverUp' = FALSE /\ UNCHANGED <<sessions, fsServerVars>>
         [] OTHER -> UNCHANGED <<sessions, serverUp, fsServerVars>>

OnFileCreation(id, m) ==
  /\ down' = Append(down, DownAck(m.seq, sessions[id].dst))
  /\ handled' = handled \cup {m}
  /\ UNCHANGED authed
  /\ CarryOut(id, m)

\* The datagram names no file: the part goes to the file created last.
OnFileTransfer(id, m) ==
  /\ down' = Append(down, DownAck(m.seq, sessions[id].dst))
  /\ handled' = handled \cup {m}
  /\ WriteFilePart(sessions[id].cur, m.part, m.data)
  /\ UNCHANGED <<sessions, serverUp, authed>>

\* A finished transfer is only logged; a client that cancels or fails never says so.
OnTransferEnded == UNCHANGED <<serverVars, down>>

SessionReceive(m) ==
  IF ~Active(m.to) THEN UNCHANGED <<serverVars, down>>
  ELSE CASE m.type = "AuthRequest" -> OnAuthRequest(m.to, m)
         [] m.type = "Ack" -> OnClientAck(m.to, m)
         [] m.type = "Ping" -> OnPing(m.to, m)
         [] m.type = "FileStatus" -> OnFileStatusRequest(m.to, m)
         [] m.type = "FileCreation" -> OnFileCreation(m.to, m)
         [] m.type = "FileTransfer" -> OnFileTransfer(m.to, m)
         [] OTHER -> OnTransferEnded

ServerReceive(m) ==
  IF m.type # "ClientHello" THEN SessionReceive(m)
  ELSE IF serverUp THEN OnClientHello(m)
  ELSE UNCHANGED <<serverVars, down>>

-----------------------------------------------------------------------------
(* onTimerTick of a session *)

\* fsc_ping sends nothing and has no way back to fsc_connected.
TickIdle(id) ==
  /\ sessions[id].state = "fsc_connected"
  /\ ~sessions[id].todo
  /\ sessions' = [sessions EXCEPT ![id].state = "fsc_ping"]
  /\ UNCHANGED <<serverUp, authed, handled, fsServerVars, down>>

\* fsc_sendingChanges: the first change goes to the client.
TickSendingChanges(id) ==
  LET s == sessions[id]
      msg == ToDoMessage(s.seq, s.dst)
  IN /\ s.state = "fsc_connected"
     /\ s.todo
     /\ sessions' = [sessions EXCEPT ![id] =
          [s EXCEPT !.state = "fsc_awaitingAck", !.seq = @ + 1,
                    !.queue = PushSendMessage(@, s.seq, msg)]]
     /\ down' = Append(down, msg)
     /\ UNCHANGED <<serverUp, authed, handled, fsServerVars>>

\* The entry or what the client answers to it is still on its way.
SessionEntryInTransit(id, e) ==
  \/ \E i \in DOMAIN down : down[i] = e.msg
  \/ \E i \in DOMAIN up : /\ up[i].type \in {"AuthRequest", "Ack"}
                          /\ up[i].seq = e.seq
                          /\ up[i].to = id

TickAwaitingClient(id) ==
  LET s == sessions[id] IN
  /\ s.state \in {"fsc_ping", "fsc_awaitingAck", "fsc_awaitClientAuth", "fsc_awaitServerAuthAck"}
  /\ s.queue # <<>>
  /\ PromptReplies => ~SessionEntryInTransit(id, Oldest(s.queue))
  /\ IF Oldest(s.queue).sendCount > MaxMessageTimeouts
     THEN /\ sessions' = [sessions EXCEPT ![id] = [s EXCEPT !.state = "fsc_error", !.queue = <<>>]]
          /\ UNCHANGED down
     ELSE /\ sessions' = [sessions EXCEPT ![id] = [s EXCEPT !.queue = RequeueOldest(@)]]
          /\ down' = Append(down, Oldest(s.queue).msg)
  /\ UNCHANGED <<serverUp, authed, handled, fsServerVars>>

SessionTick(id) ==
  Active(id) /\ (TickIdle(id) \/ TickSendingChanges(id) \/ TickAwaitingClient(id))

(***************************************************************************)
(* clanupClients, on the tick of FileServer2: a session in fsc_error or    *)
(* one that has heard nothing for 10 seconds is deleted.  With prompt       *)
(* replies that long a silence means that nothing is under way between the  *)
(* two, and that the client has left the session or nothing makes it send. *)
(***************************************************************************)
ClientIsSilent(id) ==
  /\ ~\E i \in DOMAIN up : up[i].type # "ClientHello" /\ up[i].to = id
  /\ \A i \in DOMAIN down : down[i].dst # sessions[id].dst
  /\ \/ sessions[id].dst # cPort
     \/ cState \in {"disconnected", "terminated"}
     \/ ~Ticks(cTimer)
     \/ cState # "connected" /\ cQueue = <<>>

Cleanup(id) ==
  /\ serverUp
  /\ sessions[id] # NoSession
  /\ \/ sessions[id].state = "fsc_error"
     \/ PromptReplies => ClientIsSilent(id)
  /\ sessions' = [sessions EXCEPT ![id] = NoSession]
  /\ UNCHANGED <<serverUp, authed, handled, fsServerVars, down>>

\* Another client of the user uploads: every session gets an entry to do.
OtherClientUploads(id) ==
  /\ OtherClients
  /\ Active(id)
  /\ ~sessions[id].todo
  /\ sessions' = [sessions EXCEPT ![id].todo = TRUE]
  /\ UNCHANGED <<serverUp, authed, handled, fsServerVars, down>>

=============================================================================
