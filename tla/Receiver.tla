------------------------------- MODULE Receiver -------------------------------
(***************************************************************************)
(* From the socket to the handler: the reader thread of Server2, the        *)
(* blocking Queue, the consumer thread, and the owner that starts and       *)
(* stops them (FileServer2, FileServerClient or FileClient2).              *)
(*                                                                         *)
(* The reader has one buffer on its stack; the entries of the queue copy    *)
(* type and length of a datagram but point to that buffer.  So a handler    *)
(* reads what the buffer holds when it runs, in the middle of a recvfrom    *)
(* too.  A datagram is named by the number of its arrival.  Of its contents *)
(* the model tells apart the head, the tail and the checksum, as arrivals   *)
(* they came from; 0 stands for zeros or damage.                           *)
(***************************************************************************)
EXTENDS Naturals, Sequences

CONSTANTS
  Owners,       \* the classes to look at
  Messages,     \* what is sent: records of a kind, a body and a size
  MaxDatagrams, \* bound: arrivals, by owner
  MaxStarts     \* bound: connects of a FileClient2

ASSUME ReceiverAssumption ==
  /\ Owners \subseteq {"FileServer2", "FileServerClient", "FileClient2"}
  /\ MaxDatagrams \in [Owners -> Nat] /\ MaxStarts \in Nat

VARIABLES
  owner,    \* whose threads these are
  todo,     \* the steps its thread has still to do
  starts,   \* how often it has started, and the number of the reader
  stopped,  \* it has been told to stop (FileClient2: its state is disconnected)
  byHandler, \* a FileClient2 was told so by its own consumer
  us,       \* state of Server2: us_started?
  reader,   \* program counter of the reader
  arrived,  \* the datagrams, by arrival
  received, \* how many of them recvfrom has begun to return
  mem,      \* the buffer; the next reader's stack lies where the last one's was
  queue,    \* Queue<ReadMessage>
  run,      \* shouldConsumerRun
  consumer, \* program counter of the consumer
  entry,    \* the ReadMessage it has popped
  crc,      \* crc32Read
  self,     \* the steps a handler that stops its own connection has to do
  accepted  \* history: the last arrival whose checksum was found valid

ownerVars == <<owner, todo, starts, stopped, byHandler>>
readerVars == <<us, reader, arrived, received>>
consumerVars == <<run, consumer, entry, crc, self>>
vars == <<ownerVars, readerVars, consumerVars, mem, queue, accepted>>

-----------------------------------------------------------------------------
(* What the owners do, in their order *)

StartConsumer == <<"startConsumer">>
StopConsumer == <<"clearFlag", "pushDummy", "notify", "joinConsumer">>
StartReader == <<"startReader">>
StopReader == <<"stopReader", "joinReader">>

Startup ==
  CASE owner = "FileServer2" -> StartConsumer \o StartReader
    [] owner = "FileServerClient" -> StartConsumer \o StartReader
    [] OTHER -> StartReader \o StartConsumer

\* Mutant: the session ends its reader first, as the server does.
ShutdownReaderFirst ==
  CASE owner = "FileClient2" -> StopConsumer \o StopReader
    [] OTHER -> StopReader \o StopConsumer

\* FileServerClient: onDisconnectedOrErrorState.
Shutdown ==
  CASE owner = "FileServer2" -> StopReader \o StopConsumer
    [] owner = "FileServerClient" -> StopConsumer \o <<"clear", "notify">> \o StopReader
    [] OTHER -> StopConsumer \o StopReader

\* The same by the consumer itself, which neither wakes nor joins itself.
SelfShutdown ==
  IF owner = "FileServerClient" THEN <<"clearFlag", "clear", "notify">> \o StopReader
  ELSE <<"clearFlag">> \o StopReader

\* The types an owner has a handler for.
Handles(kind) ==
  CASE owner = "FileServer2" -> kind = "ClientHello"
    [] owner = "FileServerClient" ->
         kind \in {"FileCreation", "FileTransfer", "FileStatus", "Ack", "Ping", "TransferEnded", "AuthRequest"}
    [] OTHER -> kind \in {"ServerHello", "FileStatus", "Ack", "Ping", "AuthResult"}

\* CHECKSUM_OFFSET_BITS of the types.
ChecksumOffset(kind) ==
  CASE kind = "ClientHello" -> 152
    [] kind = "ServerHello" -> 120
    [] kind = "FileCreation" -> 328
    [] kind \in {"FileTransfer", "FileStatus"} -> 104
    [] kind = "Ack" -> 36
    [] kind = "Ping" -> 68
    [] kind = "TransferEnded" -> 40
    [] OTHER -> 72

-----------------------------------------------------------------------------
Blank == [head |-> 0, tail |-> 0, sum |-> 0]
Dummy == [no |-> 0, reader |-> 0]  \* msgType 0xff

Init ==
  /\ owner \in Owners
  /\ todo = Startup
  /\ starts = 0 /\ stopped = FALSE /\ byHandler = FALSE
  /\ us = FALSE /\ reader = "none"
  /\ arrived = <<>> /\ received = 0
  /\ mem = Blank
  /\ queue = <<>>
  /\ run = FALSE /\ consumer = "none"
  /\ entry = Dummy /\ crc = 0
  /\ self = <<>>
  /\ accepted = 0

\* The network: any message, in any order, as often as it likes.
Arrive ==
  /\ reader \notin {"none", "ended"}
  /\ Len(arrived) < MaxDatagrams[owner]
  /\ \E m \in Messages : arrived' = Append(arrived, m)
  /\ UNCHANGED <<ownerVars, us, reader, received, mem, queue, consumerVars, accepted>>

-----------------------------------------------------------------------------
(* The reader: contRead *)

\* What is left of the stack of a thread that has ended is undefined.
ReaderEnds ==
  /\ reader' = "ended"
  /\ mem' \in {mem, Blank}

\* recvfrom comes back every second with nothing to let the state be tested.
ReaderTest ==
  /\ \/ reader = "test"
     \/ reader = "recv" /\ received = Len(arrived)
  /\ ~us
  /\ ReaderEnds
  /\ UNCHANGED <<ownerVars, us, arrived, received, queue, consumerVars, accepted>>

ReaderGoesOn ==
  /\ reader = "test" /\ us
  /\ reader' = "recv"
  /\ UNCHANGED <<ownerVars, us, arrived, received, mem, queue, consumerVars, accepted>>

\* recvfrom copies a datagram while the consumer may look at the buffer.
RecvHead ==
  /\ reader = "recv"
  /\ received < Len(arrived)
  /\ received' = received + 1
  /\ mem' = [mem EXCEPT !.head = received + 1, !.sum = received + 1]
  /\ reader' = "half"
  /\ UNCHANGED <<ownerVars, us, arrived, queue, consumerVars, accepted>>

RecvTail ==
  /\ reader = "half"
  /\ mem' = [mem EXCEPT !.tail = received]
  /\ reader' = "push"
  /\ UNCHANGED <<ownerVars, us, arrived, received, queue, consumerVars, accepted>>

ReaderPush ==
  /\ reader = "push"
  /\ queue' = Append(queue, [no |-> received, reader |-> starts])
  /\ reader' = "notify"
  /\ UNCHANGED <<ownerVars, us, arrived, received, mem, consumerVars, accepted>>

\* condVar->notify_one().
Notify == consumer' = IF consumer = "waiting" THEN "pop" ELSE consumer

\* Mutant: push does not notify.
ReaderSilent ==
  /\ reader = "notify"
  /\ reader' = "test"
  /\ UNCHANGED <<ownerVars, us, arrived, received, mem, queue, consumerVars, accepted>>

ReaderNotify ==
  /\ reader = "notify"
  /\ Notify
  /\ reader' = "test"
  /\ UNCHANGED <<ownerVars, us, arrived, received, mem, queue, run, entry, crc, self, accepted>>

Reader == ReaderTest \/ ReaderGoesOn \/ RecvHead \/ RecvTail \/ ReaderPush \/ ReaderNotify

-----------------------------------------------------------------------------
(* The consumer: consumerTask, pop and the check of the checksum *)

ConsumerTest ==
  /\ consumer = "test"
  /\ consumer' = IF run THEN "pop" ELSE "ended"
  /\ UNCHANGED <<ownerVars, readerVars, mem, queue, run, entry, crc, self, accepted>>

Pop ==
  /\ consumer = "pop"
  /\ IF queue = <<>>
     THEN consumer' = "waiting" /\ UNCHANGED <<queue, entry>>
     ELSE consumer' = "popped" /\ entry' = Head(queue) /\ queue' = Tail(queue)
  /\ UNCHANGED <<ownerVars, readerVars, mem, run, crc, self, accepted>>

Dispatch ==
  /\ consumer = "popped"
  /\ consumer' = IF ~run THEN "ended"
                 ELSE IF entry # Dummy /\ Handles(arrived[entry.no].kind) THEN "read" ELSE "test"
  /\ UNCHANGED <<ownerVars, readerVars, mem, queue, run, entry, crc, self, accepted>>

\* The field the handler checks is where the message in the buffer has it.
FieldFits ==
  mem.head # 0 /\ ChecksumOffset(arrived[entry.no].kind) = ChecksumOffset(arrived[mem.head].kind)

ReadChecksum ==
  /\ consumer = "read"
  /\ crc' = IF FieldFits THEN mem.sum ELSE 0
  /\ consumer' = "zero"
  /\ UNCHANGED <<ownerVars, readerVars, mem, queue, run, entry, self, accepted>>

\* Zeros for the field; elsewhere they are damage.
ZeroChecksum ==
  /\ consumer = "zero"
  /\ mem' = IF FieldFits THEN [mem EXCEPT !.sum = 0] ELSE [mem EXCEPT !.head = 0]
  /\ consumer' = "calc"
  /\ UNCHANGED <<ownerVars, readerVars, queue, run, entry, crc, self, accepted>>

\* Mutant: the field gets its value back after the calculation.
CalcAndRestore ==
  /\ consumer = "calc"
  /\ mem' = [mem EXCEPT !.sum = crc]
  /\ IF /\ crc # 0 /\ mem.sum = 0 /\ mem.head # 0 /\ mem.tail # 0
        /\ arrived[mem.head] = arrived[crc] /\ arrived[mem.tail] = arrived[crc]
        /\ arrived[entry.no].size = arrived[crc].size
     THEN consumer' = "handle" /\ accepted' = crc
     ELSE consumer' = "test" /\ UNCHANGED accepted
  /\ UNCHANGED <<ownerVars, readerVars, queue, run, entry, crc, self>>

\* The checksum is right for the buffer of one whole message with its field
\* empty; the number of bytes is that of the entry.
CalcChecksum ==
  /\ consumer = "calc"
  /\ IF /\ crc # 0 /\ mem.sum = 0 /\ mem.head # 0 /\ mem.tail # 0
        /\ arrived[mem.head] = arrived[crc] /\ arrived[mem.tail] = arrived[crc]
        /\ arrived[entry.no].size = arrived[crc].size
     THEN consumer' = "handle" /\ accepted' = crc
     ELSE consumer' = "test" /\ UNCHANGED accepted
  /\ UNCHANGED <<ownerVars, readerVars, mem, queue, run, entry, crc, self>>

\* The getters read the buffer again; a handler may stop the connection, which
\* is the end of it for a FileClient2: another disconnect() returns at once.
Handle ==
  /\ consumer = "handle"
  /\ \/ consumer' = "test" /\ UNCHANGED <<self, stopped, byHandler>>
     \/ /\ owner # "FileServer2" /\ ~stopped
        /\ consumer' = "stopping" /\ self' = SelfShutdown
        /\ stopped' = (owner = "FileClient2") /\ byHandler' = stopped'
  /\ UNCHANGED <<owner, todo, starts, readerVars, mem, queue, run, entry, crc, accepted>>

-----------------------------------------------------------------------------
(* The steps of a start or a stop, by the owner or by a handler *)

HasConsumer == consumer \notin {"none", "joined", "terminated"}

\* Mutant: no dummy is pushed.
DoWithoutDummy(s) ==
  /\ run' = IF s = "startConsumer" THEN TRUE ELSE IF s = "clearFlag" THEN FALSE ELSE run
  /\ queue' = IF s = "clear" THEN <<>> ELSE queue
  /\ CASE s = "startReader" -> us' = TRUE /\ reader' = "test" /\ starts' = starts + 1
       [] s = "stopReader" -> us' = FALSE /\ UNCHANGED <<reader, starts>>
       [] OTHER -> UNCHANGED <<us, reader, starts>>

\* Mutant: the reader is not joined.
Detached(s) == s = "joinConsumer" => ~HasConsumer \/ consumer = "ended"

\* The threads a step waits for.
Joined(s) ==
  /\ s = "joinConsumer" => ~HasConsumer \/ consumer = "ended"
  /\ s = "joinReader" => reader = "ended"

Do(s) ==
  /\ run' = IF s = "startConsumer" THEN TRUE ELSE IF s = "clearFlag" THEN FALSE ELSE run
  /\ queue' = IF s = "clear" THEN <<>>
              ELSE IF s = "pushDummy" /\ HasConsumer THEN Append(queue, Dummy) ELSE queue
  /\ CASE s = "startReader" -> us' = TRUE /\ reader' = "test" /\ starts' = starts + 1
       [] s = "stopReader" -> us' = FALSE /\ UNCHANGED <<reader, starts>>
       [] OTHER -> UNCHANGED <<us, reader, starts>>

\* Server2::setState returns at once when it is stopped already.
After(steps) == IF Head(steps) = "stopReader" /\ ~us THEN Tail(Tail(steps)) ELSE Tail(steps)

OwnerStep ==
  /\ todo # <<>>
  /\ LET s == Head(todo)
     IN /\ Joined(s)
        /\ Do(s)
        /\ CASE s = "startConsumer" -> consumer' = "test"
             [] s = "joinConsumer" -> consumer' = IF HasConsumer THEN "joined" ELSE consumer
             [] s = "notify" -> Notify
             [] OTHER -> UNCHANGED consumer
  /\ todo' = After(todo)
  /\ UNCHANGED <<owner, stopped, byHandler, arrived, received, mem, entry, crc, self, accepted>>

SelfStep ==
  /\ consumer = "stopping"
  /\ IF self = <<>>
     THEN consumer' = "test" /\ UNCHANGED <<self, run, queue, us, reader, starts>>
     ELSE /\ Joined(Head(self))
          /\ Do(Head(self))
          /\ self' = After(self)
          /\ UNCHANGED consumer
  /\ UNCHANGED <<owner, todo, stopped, byHandler, arrived, received, mem, entry, crc, accepted>>

Consumer ==
  \/ ConsumerTest \/ Pop \/ Dispatch
  \/ ReadChecksum \/ ZeroChecksum \/ CalcChecksum \/ Handle
  \/ SelfStep

\* stop(), disconnect() or the destructor, from a thread of another object.  Where
\* a handler of a FileClient2 has disconnected it there is nothing left to do, and
\* nobody waits for the consumer.
Stop ==
  /\ todo = <<>> /\ ~stopped
  /\ stopped' = TRUE
  /\ todo' = Shutdown
  /\ UNCHANGED <<owner, starts, byHandler, readerVars, mem, queue, consumerVars, accepted>>

\* The tick disconnects and connects again: a new Server2, and the queue as it
\* was left.
Reconnect ==
  /\ owner = "FileClient2" /\ stopped /\ ~byHandler /\ todo = <<>> /\ consumer # "terminated"
  /\ starts < MaxStarts
  /\ stopped' = FALSE
  /\ todo' = Startup
  /\ UNCHANGED <<owner, starts, byHandler, readerVars, mem, queue, consumerVars, accepted>>

\* The same where another thread, a handler of the client or the console, has just
\* set the state to disconnected and has yet to wait for the tick: disconnect()
\* returns at once, and connect() assigns over a consumer that was not joined,
\* which is std::terminate: the program and all its threads are gone.
ReconnectOver ==
  /\ owner = "FileClient2" /\ stopped
  /\ \/ todo = Shutdown
     \/ byHandler /\ consumer = "stopping" /\ self = SelfShutdown
  /\ HasConsumer
  /\ starts < MaxStarts
  /\ consumer' = "terminated" /\ reader' = "ended"
  /\ todo' = <<>> /\ self' = <<>> /\ queue' = <<>>
  /\ us' = FALSE /\ run' = FALSE
  /\ UNCHANGED <<owner, starts, stopped, byHandler, arrived, received, mem, entry, crc, accepted>>

Next == Arrive \/ Reader \/ Consumer \/ OwnerStep \/ Stop \/ Reconnect \/ ReconnectOver
Spec == Init /\ [][Next]_vars

\* Each thread runs, and recvfrom has its timeout.
FairSpec == Spec /\ WF_vars(Reader) /\ WF_vars(Consumer) /\ WF_vars(OwnerStep)

-----------------------------------------------------------------------------
TypeOK ==
  /\ owner \in Owners
  /\ starts \in Nat /\ {stopped, byHandler, us, run} \subseteq BOOLEAN
  /\ arrived \in Seq(Messages) /\ received \in 0..Len(arrived)
  /\ mem \in [head : 0..received, tail : 0..received, sum : 0..received]
  /\ reader \in {"none", "test", "recv", "half", "push", "notify", "ended"}
  /\ consumer \in {"none", "test", "pop", "waiting", "popped", "read", "zero", "calc", "handle",
                   "stopping", "ended", "joined", "terminated"}
  /\ crc \in 0..received /\ accepted \in 0..received

(***************************************************************************)
(* Although several entries point to one buffer, and it changes under the   *)
(* check, no datagram is accepted twice, and none after a later one: the    *)
(* zeros isChecksumValid leaves in the buffer see to it.                   *)
(***************************************************************************)
AcceptedInOrder == [][consumer = "calc" /\ consumer' = "handle" => accepted < crc]_vars

\* A session never looks into the buffer of a reader that has ended: the order
\* of onDisconnectedOrErrorState, and clear() after the consumer is joined.
NoDanglingBuffer ==
  owner = "FileServerClient" /\ consumer \in {"read", "zero", "calc", "handle"}
    => reader # "ended" /\ entry.reader = starts

\* When a stop has returned no thread is left: the queue, the socket and the
\* object itself may be deleted, and they are.  A FileClient2 that one of its
\* handlers disconnected has no reader then, and a consumer that ends by itself
\* but is never joined.
QuietAfterStop ==
  stopped /\ todo = <<>> =>
    IF byHandler THEN consumer # "stopping" => reader \in {"none", "ended"} /\ ~run
    ELSE reader \in {"none", "ended"} /\ ~HasConsumer

\* Every start and every stop comes to its end, wherever the reader and the
\* consumer are when it begins, provided that a handler returns: the dummy wakes
\* a consumer, recvfrom comes back.
StopEnds == todo # <<>> ~> todo = <<>>

\* No wake-up is lost: what is pushed while the consumer waits gets popped.
EntriesArePopped == queue # <<>> /\ run ~> queue = <<>> \/ ~run

\* connect() never assigns over a consumer that was not joined.  It may.
NeverTerminated == consumer # "terminated"

\* What a handler reads is the message whose checksum was found valid.
HandledAsChecked ==
  consumer = "handle" => /\ mem.head # 0 /\ arrived[mem.head] = arrived[crc]
                         /\ mem.tail # 0 /\ arrived[mem.tail] = arrived[crc]

\* A message is handled by the handler of its own type.
HandledByType == consumer = "handle" => arrived[entry.no].kind = arrived[crc].kind

=============================================================================
