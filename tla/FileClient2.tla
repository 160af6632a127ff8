----------------------------- MODULE FileClient2 -----------------------------
(***************************************************************************)
(* The client side of a session: the state machine of FileClient2.cpp with *)
(* the send functions of AbstractClient.cpp.  Every handler of a datagram, *)
(* every timer tick and every console command is one step.  A handler runs *)
(* on the consumer thread, a tick on the timer thread; "self" is passed    *)
(* to where the timer is stopped, because Timer::stop depends on it.       *)
(*                                                                         *)
(* setState is recursive: entering sendingFS sends the next message, which *)
(* enters awaitingAck, reqestedFileStatus or connected.  The operators     *)
(* that stand for it take the timer, the queue, the next sequence number   *)
(* and the datagrams the handler has sent so far.                          *)
(***************************************************************************)
EXTENDS Network, Timer, SendMessageQueue, FilesystemClient

CONSTANTS
  MaxMessageTimeouts,  \* MAX_MESSAGE_TIMEOUT_COUNT
  MaxPingTimeouts,     \* MAX_PING_MESSAGE_TIMEOUT_COUNT
  Passwords,           \* passwords the user may have typed in
  Password,            \* the password the server has for the user
  PromptReplies,       \* what is not lost is answered within a period of the timers
  MaxConnects,         \* bound: connections the client opens
  MaxHellos,           \* bound: hello messages per connection
  MaxSeq,              \* bound: sequence numbers of the client
  MaxGarbled,          \* bound: messages sent again with something else in them
  MaxIds               \* bound: client IDs

ASSUME ClientAssumption ==
  /\ MaxMessageTimeouts \in Nat
  /\ MaxPingTimeouts \in Nat
  /\ Password \in Passwords
  /\ PromptReplies \in BOOLEAN
  /\ MaxConnects \in Nat
  /\ MaxHellos \in Nat
  /\ MaxSeq \in Nat
  /\ MaxGarbled \in Nat
  /\ MaxIds \in Nat

VARIABLES
  cState,   \* FileClient2State, or "terminated" after std::terminate
  cTimer,   \* tTimer
  cQueue,   \* sendMessageQueue
  cSeq,     \* seqNumber: the next sequence number
  cPort,    \* listenPort: connect() number cPort picked it
  cId,      \* clientId
  cPw,      \* clientPassword
  cMissed,  \* msgTimeoutCount
  cHellos,  \* hello messages sent on this connection
  cIndexer, \* the indexing thread: "joined", "running" or "finished" (to be joined)
  ended,    \* TransferEnded messages sent
  garbled   \* history: messages sent again with something else in them

clientVars == <<cState, cTimer, cQueue, cSeq, cPort, cId, cPw, cMissed,
                cHellos, cIndexer, ended, garbled>>

ClientStates == {"disconnected", "sendClientHello", "clientAuth", "connected",
                 "ping", "reqestedFileStatus", "awaitingAck", "terminated"}

\* States after the server has accepted the password.
LoggedIn == {"connected", "ping", "reqestedFileStatus", "awaitingAck"}

ClientInit ==
  /\ cState = "disconnected"
  /\ cTimer = NewTimer
  /\ cQueue = <<>>
  /\ cSeq = 0
  /\ cPort = 0
  /\ cId = 1
  /\ cPw \in Passwords
  /\ cMissed = 0
  /\ cHellos = 0
  /\ cIndexer = "joined"
  /\ ended = 0
  /\ garbled = 0

ClientHello == [type |-> "ClientHello", dst |-> cPort, id |-> cId]
AuthRequest(seq) == [type |-> "AuthRequest", seq |-> seq, to |-> cId, pw |-> cPw]
\* Mutant: the next expected number is acknowledged.
UpAckNext(seq) == [type |-> "Ack", seq |-> seq + 1, to |-> cId]

UpAck(seq) == [type |-> "Ack", seq |-> seq, to |-> cId]
PingMessage(seq) == [type |-> "Ping", seq |-> seq, to |-> cId]
FileStatus(seq, f) == [type |-> "FileStatus", seq |-> seq, to |-> cId, fid |-> f]
FileCreation(seq, kind, path) ==
  [type |-> "FileCreation", seq |-> seq, to |-> cId, kind |-> kind, fid |-> path]
FileTransfer(seq, p, v) ==
  [type |-> "FileTransfer", seq |-> seq, to |-> cId, part |-> p, data |-> v]
TransferEnded == [type |-> "TransferEnded", to |-> cId]

(***************************************************************************)
(* sendNextFilePart                                                        *)
(***************************************************************************)

\* The message is sent and filed, the state entered, the handler returns.
SendAndWait(state, tm, q, out, sq, msg) ==
  /\ sq < MaxSeq
  /\ cState' = state
  /\ cTimer' = tm
  /\ cQueue' = PushSendMessage(q, sq, msg)
  /\ cSeq' = sq + 1
  /\ up' = up \o Append(out, msg)
  /\ UNCHANGED ended

\* The next part of the current file; with its last part the file leaves the
\* list.  A file that cannot be read any more leaves it as well, but then
\* nothing is sent.
SendFilePart(tm, q, out, sq, w, l) ==
  LET f == w.cur
      p == NextPartOf(l.file[f])
      r == ReadFile(l.file[f], disk[f], p)
      o == IF r.missing THEN r.object ELSE [r.object EXCEPT !.np = @ \ {p}]
  IN /\ lib' = [l EXCEPT !.file[f] = o]
     /\ ws' = IF r.missing \/ o.np = {} THEN [w EXCEPT !.files = @ \ {f}] ELSE w
     /\ IF r.missing
        THEN /\ cState' = "awaitingAck"
             /\ cTimer' = StartTimer(tm)
             /\ cQueue' = q
             /\ cSeq' = sq
             /\ up' = up \o out
             /\ UNCHANGED ended
        ELSE SendAndWait("awaitingAck", StartTimer(tm), q, out, sq,
                         FileTransfer(sq, p, r.data))

\* Mutant: the timer is not started again.
SendCreationUntimed(tm, q, out, sq, kind, path) ==
  SendAndWait("awaitingAck", tm, q, out, sq, FileCreation(sq, kind, path))

SendCreation(tm, q, out, sq, kind, path) ==
  SendAndWait("awaitingAck", StartTimer(tm), q, out, sq, FileCreation(sq, kind, path))

\* Mutant: folders are deleted first.
SendFolderDeletionFirst(tm, q, out, sq, w, l) ==
  \/ \E f \in w.delFiles :
       /\ w.delFolders = {}
       /\ SendCreation(tm, q, out, sq, "ft_del_file", f)
       /\ ws' = [w EXCEPT !.delFiles = @ \ {f}]
       /\ lib' = l
  \/ \E d \in w.delFolders :
       /\ SendCreation(tm, q, out, sq, "ft_del_file", d)
       /\ ws' = [w EXCEPT !.delFolders = @ \ {d}]
       /\ lib' = l

\* Files are deleted before folders, with the same message type.
SendDeletion(tm, q, out, sq, w, l) ==
  \/ \E f \in w.delFiles :
       /\ SendCreation(tm, q, out, sq, "ft_del_file", f)
       /\ ws' = [w EXCEPT !.delFiles = @ \ {f}]
       /\ lib' = l
  \/ \E d \in w.delFolders :
       /\ w.delFiles = {}
       /\ SendCreation(tm, q, out, sq, "ft_del_file", d)
       /\ ws' = [w EXCEPT !.delFolders = @ \ {d}]
       /\ lib' = l

SendFolder(tm, q, out, sq, w, l) ==
  LET i == Min(PendingFolders(l))
  IN /\ SendCreation(tm, q, out, sq, "ft_folder", l.folders[i].path)
     /\ lib' = [l EXCEPT !.folders[i] = [@ EXCEPT !.created = TRUE, !.pending = FALSE]]
     /\ ws' = w

\* The timer is only reset here: it stays stopped when sendingFS stopped it.
SendFileStatus(tm, q, out, sq, w, l) ==
  \E f \in w.files :
    /\ SendAndWait("reqestedFileStatus", ResetTimer(tm), q, out, sq, FileStatus(sq, f))
    /\ ws' = [w EXCEPT !.cur = f]
    /\ lib' = l

\* Mutant: files are sent before the folders they lie in.
SendFilesFirst(tm, q, out, sq, w, l) ==
  IF CurFileHasParts(w, l) THEN SendFilePart(tm, q, out, sq, w, l)
  ELSE IF w.files # {} THEN SendFileStatus(tm, q, out, sq, w, l)
  ELSE IF w.delFiles \cup w.delFolders # {} THEN SendDeletion(tm, q, out, sq, w, l)
  ELSE SendFolder(tm, q, out, sq, w, l)

SendFrom(tm, q, out, sq, w, l) ==
  IF CurFileHasParts(w, l) THEN SendFilePart(tm, q, out, sq, w, l)
  ELSE IF w.delFiles \cup w.delFolders # {} THEN SendDeletion(tm, q, out, sq, w, l)
  ELSE IF PendingFolders(l) # {} THEN SendFolder(tm, q, out, sq, w, l)
  ELSE SendFileStatus(tm, q, out, sq, w, l)

\* Mutant: the timer stays stopped.
EndTransferUntimed(tm, q, out, sq, found) ==
  /\ cState' = "connected"
  /\ cTimer' = tm
  /\ cQueue' = q
  /\ cSeq' = sq
  /\ up' = up \o Append(out, TransferEnded)
  /\ ws' = found.ws
  /\ lib' = found.lib
  /\ ended' = ended + 1

EndTransfer(tm, q, out, sq, found) ==
  /\ cState' = "connected"
  /\ cTimer' = StartTimer(tm)
  /\ cQueue' = q
  /\ cSeq' = sq
  /\ up' = up \o Append(out, TransferEnded)
  /\ ws' = found.ws
  /\ lib' = found.lib
  /\ ended' = ended + 1

\* setState(sendingFS).  When nothing is left the directory is indexed again,
\* and the transfer ends only if that finds nothing.
EnterSendingFS(self, tm, q, out, sq) ==
  LET stopped == StopTimer(self, tm)
      rest    == DropSentCurFile(ws, lib)
      found   == Index(lib, disk, dirs)
  IN IF CurFileHasParts(rest, lib) \/ ~WorkingSetIsEmpty(rest, lib)
     THEN SendFrom(stopped, q, out, sq, rest, lib)
     ELSE IF ~WorkingSetIsEmpty(found.ws, found.lib)
     THEN SendFrom(stopped, q, out, sq, found.ws, found.lib)
     ELSE EndTransfer(stopped, q, out, sq, found)

\* setState(connected): a joined, non-empty working set is sent at once.
EnterConnected(self, tm, q, out, sq) ==
  IF cIndexer = "joined" /\ ~WorkingSetIsEmpty(ws, lib)
  THEN EnterSendingFS(self, StartTimer(tm), q, out, sq)
  ELSE /\ cState' = "connected"
       /\ cTimer' = StartTimer(tm)
       /\ cQueue' = q
       /\ cSeq' = sq
       /\ up' = up \o out
       /\ UNCHANGED <<ws, lib, ended>>

-----------------------------------------------------------------------------
(* connect and disconnect *)

\* setState(disconnected): the queue is cleared, the sockets are closed.
EnterDisconnected(self) ==
  /\ cState' = "disconnected"
  /\ cTimer' = StopTimer(self, cTimer)
  /\ cQueue' = <<>>

(***************************************************************************)
(* connect() in state disconnected.  startGetWorkingSet does nothing while *)
(* an indexing runs, and join waits for it.  If the previous indexing has  *)
(* ended but was not joined, the assignment of a new thread to a joinable  *)
(* one calls std::terminate.                                               *)
(***************************************************************************)
Connect(tm) ==
  /\ cPort < MaxConnects
  /\ cPort' = cPort + 1
  /\ cQueue' = <<>>
  /\ cMissed' = 0
  /\ cHellos' = 0
  /\ cTimer' = tm
  /\ cIndexer' = "joined"
  /\ LET found == Index(lib, disk, dirs)
     IN ws' = found.ws /\ lib' = found.lib
  /\ cState' = IF cIndexer = "finished" THEN "terminated" ELSE "sendClientHello"
  /\ UNCHANGED <<cSeq, cId, cPw, ended, garbled, up>>

UserConnect ==
  /\ cState = "disconnected"
  /\ cPort = 0
  /\ Connect(cTimer)
  /\ UNCHANGED <<disk, dirs, changes>>

\* The console command "stop".
UserStop ==
  /\ cState \notin {"disconnected", "terminated"}
  /\ EnterDisconnected("console")
  /\ UNCHANGED <<cSeq, cPort, cId, cPw, cMissed, cHellos, cIndexer, ended, garbled, up,
                 fsClientVars>>

\* disconnect() and connect() from the timer thread.
Reconnect == Connect(StopTimer("timer", cTimer)) /\ UNCHANGED <<disk, dirs, changes>>

\* helloTask: a hello per second until the state changes.
HelloInTransit ==
  \/ \E i \in DOMAIN up : up[i].type = "ClientHello" /\ up[i].dst = cPort
  \/ \E i \in DOMAIN down : down[i].type = "ServerHello" /\ down[i].dst = cPort

SendClientHello ==
  /\ cState = "sendClientHello"
  /\ cHellos < MaxHellos
  /\ PromptReplies => ~HelloInTransit
  /\ up' = Append(up, ClientHello)
  /\ cHellos' = cHellos + 1
  /\ UNCHANGED <<cState, cTimer, cQueue, cSeq, cPort, cId, cPw, cMissed, cIndexer, ended,
                 garbled, fsClientVars>>

-----------------------------------------------------------------------------
(* Handlers of the datagrams from the server (onMessageReceived) *)

Ignored == UNCHANGED <<clientVars, fsClientVars, up>>

\* An answer to another ID is dropped.  A declined client draws a new ID, and
\* its hello thread goes on with that one.
OnServerHello(m) ==
  IF cState # "sendClientHello" \/ m.id # cId THEN Ignored
  ELSE IF m.flags = "idTaken"
  THEN /\ cId' \in 1..MaxIds
       /\ UNCHANGED <<cState, cTimer, cQueue, cSeq, cPort, cPw, cMissed, cHellos, cIndexer,
                      ended, garbled, fsClientVars, up>>
  ELSE /\ cState' = "clientAuth"
       /\ cTimer' = StartTimer(cTimer)
       /\ cQueue' = PushSendMessage(cQueue, m.seq, AuthRequest(m.seq))
       /\ up' = Append(up, AuthRequest(m.seq))
       /\ UNCHANGED <<cSeq, cPort, cId, cPw, cMissed, cHellos, cIndexer, ended, garbled,
                      fsClientVars>>

OnAuthResult(m) ==
  IF ~IsQueued(cQueue, m.seq) THEN Ignored
  ELSE LET q == OnSequenceNumberAck(cQueue, m.seq)
       IN /\ IF cState # "clientAuth"
             THEN /\ cQueue' = q
                  /\ up' = Append(up, UpAck(m.seq))
                  /\ UNCHANGED <<cState, cTimer, cSeq, ended, ws, lib>>
             ELSE IF m.ok
             THEN EnterConnected("consumer", cTimer, q, <<UpAck(m.seq)>>, cSeq)
             ELSE /\ EnterDisconnected("consumer")
                  /\ up' = Append(up, UpAck(m.seq))
                  /\ UNCHANGED <<cSeq, ended, ws, lib>>
          /\ UNCHANGED <<cPort, cId, cPw, cMissed, cHellos, cIndexer, garbled, disk, dirs,
                       changes>>

\* The file creation message goes out only for an answer 0.  Otherwise the
\* parts follow at once.
OnFileStatus(m) ==
  IF cState # "reqestedFileStatus" \/ ~IsQueued(cQueue, m.seq) THEN Ignored
  ELSE LET q == OnSequenceNumberAck(cQueue, m.seq)
       IN /\ IF m.last = 0
             THEN /\ SendCreation(cTimer, q, <<>>, cSeq, "ft_file", ws.cur)
                  /\ UNCHANGED <<ws, lib>>
             ELSE EnterSendingFS("consumer", cTimer, q, <<>>, cSeq)
          /\ UNCHANGED <<cPort, cId, cPw, cMissed, cHellos, cIndexer, garbled, disk, dirs,
                       changes>>

OnAck(m) ==
  IF ~IsQueued(cQueue, m.seq) THEN Ignored
  ELSE LET q == OnSequenceNumberAck(cQueue, m.seq)
       IN /\ CASE cState = "awaitingAck" -> EnterSendingFS("consumer", cTimer, q, <<>>, cSeq)
               [] cState = "ping" -> EnterConnected("consumer", cTimer, q, <<>>, cSeq)
               [] OTHER -> cQueue' = q /\ UNCHANGED <<cState, cTimer, cSeq, ended, ws, lib, up>>
          /\ UNCHANGED <<cPort, cId, cPw, cMissed, cHellos, cIndexer, garbled, disk, dirs,
                       changes>>

\* There is no case for a FileCreation from the server.
ClientReceive(m) ==
  IF m.dst # cPort \/ cState \in {"disconnected", "terminated"} THEN Ignored
  ELSE CASE m.type = "ServerHello" -> OnServerHello(m)
         [] m.type = "AuthResult" -> OnAuthResult(m)
         [] m.type = "FileStatus" -> OnFileStatus(m)
         [] m.type = "Ack" -> OnAck(m)
         [] OTHER -> Ignored

-----------------------------------------------------------------------------
(* onTimerTick *)

TimerThreadEnds ==
  /\ LeavesLoop(cTimer)
  /\ cTimer' = LeftLoop(cTimer)
  /\ UNCHANGED <<cState, cQueue, cSeq, cPort, cId, cPw, cMissed, cHellos, cIndexer, ended,
                 garbled, up, fsClientVars>>

\* The two go under the same number, whatever is in them.
SameMessage(m, n) == m.type = n.type /\ m.seq = n.seq /\ m.to = n.to

\* The message or its answer is still on its way.
EntryInTransit(e) ==
  \/ \E i \in DOMAIN up : SameMessage(up[i], e.msg)
  \/ \E i \in DOMAIN down : /\ down[i].type \in {"AuthResult", "Ack", "FileStatus"}
                            /\ down[i].seq = e.seq
                            /\ down[i].dst = cPort

TickConnected ==
  /\ cState = "connected"
  /\ cSeq < MaxSeq
  /\ \E old \in BOOLEAN :  \* the working set is older than MAX_WORKING_SET_AGE_IN_SEC
       cIndexer' = IF cIndexer = "running" THEN "running"
                   ELSE IF old THEN "running" ELSE "joined"
  /\ cState' = "ping"
  /\ cTimer' = ResetTimer(cTimer)
  /\ cQueue' = PushSendMessage(cQueue, cSeq, PingMessage(cSeq))
  /\ cSeq' = cSeq + 1
  /\ up' = Append(up, PingMessage(cSeq))
  /\ UNCHANGED <<cPort, cId, cPw, cMissed, cHellos, ended, garbled, fsClientVars>>

\* The thread that startGetWorkingSet started on a tick ends.
IndexerEnds ==
  /\ cIndexer = "running"
  /\ cIndexer' = "finished"
  /\ LET found == Index(lib, disk, dirs)
     IN ws' = found.ws /\ lib' = found.lib
  /\ UNCHANGED <<cState, cTimer, cQueue, cSeq, cPort, cId, cPw, cMissed, cHellos, ended,
                 garbled, disk, dirs, changes, up>>

\* Mutant: a timeout counts as an answer.
TickMovesOn ==
  /\ cState = "awaitingAck"
  /\ cQueue # <<>>
  /\ EnterSendingFS("timer", cTimer, Tail(cQueue), <<>>, cSeq)
  /\ UNCHANGED <<cPort, cId, cPw, cMissed, cHellos, cIndexer, garbled, disk, dirs,
                       changes>>

(***************************************************************************)
(* What is sent again.  The queue holds the message as an object with a    *)
(* pointer to what is in it: to the array sendFilePartMessage has read a   *)
(* part into, or to the name or password in a parameter of the function    *)
(* that sent it.  All of these are gone when a tick has createBuffer read  *)
(* through the pointer again, for the first time or once more, and put a   *)
(* valid checksum on whatever lies there: still the old bytes, or others.  *)
(* Number, kind, part and length are kept in the object itself.            *)
(***************************************************************************)
NamesFor(kind) ==
  CASE kind = "ft_file" -> FileKey
    [] kind = "ft_folder" -> Path \cup {NoFile, BadPath}
    [] OTHER -> File \cup Folder \cup {NoFile, BadPath}

Resent(m) ==
  CASE m.type = "FileTransfer" /\ m.data # Hole -> {m, [m EXCEPT !.data = Garbage]}
    [] m.type = "FileCreation" -> {[m EXCEPT !.fid = name] : name \in NamesFor(m.kind)}
    [] m.type = "FileStatus" -> {[m EXCEPT !.fid = name] : name \in FileKey}
    [] m.type = "AuthRequest" -> {m} \cup {[m EXCEPT !.pw = pw] : pw \in Passwords \ {Password}}
    [] OTHER -> {m}

TickAwaiting ==
  /\ cState \in {"reqestedFileStatus", "awaitingAck", "clientAuth"}
  /\ cQueue # <<>>
  /\ IF Oldest(cQueue).sendCount > MaxMessageTimeouts
     THEN Reconnect
     ELSE /\ \E m \in Resent(Oldest(cQueue).msg) :
               /\ up' = Append(up, m)
               /\ garbled' = garbled + (IF m = Oldest(cQueue).msg THEN 0 ELSE 1)
          /\ garbled' \in 0..MaxGarbled
          /\ cQueue' = RequeueOldest(cQueue)
          /\ UNCHANGED <<cState, cTimer, cSeq, cPort, cId, cPw, cMissed, cHellos, cIndexer,
                         ended, fsClientVars>>

\* msgTimeoutCount is not reset by an answer, only by the next connection.
TickPing ==
  /\ cState = "ping"
  /\ IF cMissed + 1 < MaxPingTimeouts
     THEN /\ cSeq < MaxSeq
          /\ cMissed' = cMissed + 1
          /\ EnterConnected("timer", cTimer, PushSendMessage(<<>>, cSeq, PingMessage(cSeq)),
                            <<PingMessage(cSeq)>>, cSeq + 1)
          /\ UNCHANGED <<cPort, cId, cPw, cHellos, cIndexer, garbled, disk, dirs, changes>>
     ELSE Reconnect

\* With prompt replies an answer takes less than a period of the timer.
ClientTick ==
  /\ Ticks(cTimer)
  /\ PromptReplies => \A i \in DOMAIN cQueue : ~EntryInTransit(cQueue[i])
  /\ TickConnected \/ TickAwaiting \/ TickPing

=============================================================================
