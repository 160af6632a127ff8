# A verification project for the file synchroniser

The repository holds one C++ program that is started as a client or as a server. A client
mirrors a local directory to the server over UDP, with a protocol of its own
(`src/specification_3/protocol.md`). All lines below are of files in `src/src/` unless said otherwise.

1. [Inventory](#1-inventory) – the parts of the program
2. [Modules](#2-modules) – which module stands for which code
3. [What the runs check](#3-what-the-runs-check)
4. [What is proved](#4-what-is-proved)
5. [Where code and documents disagree](#5-where-code-and-documents-disagree)
6. [What is not modelled](#6-what-is-not-modelled)
7. [Plan](#7-plan)

## 1. Inventory

| Component | State | Operations | Talks to |
|---|---|---|---|
| Client session (`FileClient2.cpp`) | `state`, timer `tTimer`, `sendMessageQueue`, `seqNumber`, `listenPort`, `msgTimeoutCount`, the indexing thread | `connect`, `disconnect`, `setState`, the handlers of ServerHello, AuthResult, FileStatus and Ack, `onTimerTick`, `helloTask` | server by datagrams; timer by `start/stop/reset` and callbacks; directory by calls; indexing thread |
| Session of the server (`FileServerClient.cpp`) | `state`, timer, `sendMessageQueue`, sequence number, the file that is being written (`curFID`), the to-do list | seven handlers, `onTimerTick`, `setState`, `sendNextClientToDo` | one client; directory of the server; to-do list |
| Server and users (`FileServer2.cpp`, `FileServerUser.cpp`, `UserStore.cpp`) | users by name, sessions by client ID | `onClientHelloMessage`, cleanup of sessions by the timer | sessions: makes and deletes them |
| Sent and unacknowledged messages (`SendMessageQueue` in `Queue.h`) | list of messages with number, time, count | push, acknowledge, pop the next one to resend | both sessions |
| Timer (`Timer.cpp`) | `t_stop`, `t_run`, `t_reset`; the thread object | `start`, `stop`, `reset`, `timerTask` | calls `onTimerTick` of its owner on its own thread |
| Client's directory (`FilesystemClient` in `Filesystem.cpp`, `WorkingSet.h`, `Filestructures.h`) | `files` with hash, size, CRCs, missing parts, stream; `folders`; the working set | `getWorkingSet`, `genMap`, `compareFiles`, `readFile`, `saveFilesystem`, `openFilesystem` | the user changes the directory behind its back |
| Missing parts (`NextPart` in `Filestructures.h`) | list of intervals | `addPart`, `acknowledgePart`, `getNextPart` | indexing adds, sending takes |
| Server's directory (`FilesystemServer` in `Filesystem.cpp`) | files on the disk, `last_part` of each | `genFile`, `genFolder`, `delFile`, `writeFilePart`, `init`, `close` | sessions |
| Changes for other clients (`ClientToDo.cpp`, `ClientsToDo.cpp`) | entries by file | `addToDo`, `removeToDo`, `getNext` | sessions of the same user |
| UDP sender (`net/Client2.cpp`) | semaphore, counter, timer | `send`, `waitToSend`, `onTimerTick` | several threads send at the same time |
| UDP receiver (`net/Server2.cpp`, `Queue<T>`, `AbstractClient.cpp`) | buffer, blocking queue, `shouldConsumerRun`, the two thread objects | `contRead`, `push`, `pop`, `clear`, `consumerTask`, start and stop | reader thread to consumer thread; their owner joins them |
| Messages (`net/*Message.cpp`) | the buffer of one message | constructor, `createBuffer`, getters, `addChecksum`, `isChecksumValid` | sender and handlers |
| Key exchange and cipher (`sec/`) | secret, key | `clientStartConnection`, `onServerReceive`, `encrypt` | both ends of the network |
| Console (`CSync.cpp`), logging | – | commands | – |

**How they interact.** Both sides of a session are state machines driven by two threads: the *consumer*,
which runs the handler of each datagram, and the *timer*, which runs `onTimerTick`. `connect` adds a hello
thread and an indexing thread. The client speaks first: ClientHello to the well-known port, ServerHello from
a new session, AuthRequest, AuthResult, Ack. Then it indexes its directory and sends a file deletion, a
folder, or a file status request followed by the creation and the parts of the file, one message at a time;
when a new indexing finds nothing it sends TransferEnded and pings from then on. Unacknowledged messages are
sent again by the timer tick.

**What is hard.** Every acknowledged message can be lost, repeated or late, on either side, in every state; the
state is entered recursively (`setState` sends the next message, which enters the next state); the timer is
stopped, started and reset from its own thread and from others; the directory changes between the indexing
and the transfer; a message is acknowledged before it is carried out; a message that is sent again is read from memory that
may hold something else by then; a client reconnects while answers to its last connection are under way. `PROJECT.json`
lists the hazards at their lines. What makes each part correct:

* session: the client never waits without something that wakes it up; it has one file message under way at
  a time; nothing counts as done that the server has not taken up, and what it has taken up it carries out before the next; a
  client that is logged in was accepted for this connection with this password; a session is not given up while the client uses it;
  no datagram brings the server down;
* directories: when the transfer is announced as ended the server holds what the user has;
* missing parts: a list of intervals is a set; sender: slots are conserved and the rate is bounded;
* messages: every field reads back as it was written, at whatever bit it lies, and nothing is accessed past the end;
* receiver: no datagram is handled twice or after a later one, no wake-up is lost, a stop comes to its end and
  leaves no thread behind that uses what is deleted next;
* threads of the server: nothing is used after its deletion, stop() returns and leaves nothing behind;
* persisted index: what it makes a new process believe is true, and no restart keeps a transfer from ending.

## 2. Modules

```
 SendMessageQueue   Timer   Network   FilesystemClient
          \            \      /         /         \
           \----------- FileClient2 ---/     FilesystemServer
                             \                   /
                              FileServerClient -/
                                     |
            MCSession -----------  Session  ---- SessionProofs ---- FirstSyncProofs
                                     |                                     |
            MCRestart -----------  Restart  ------------------------- RestartProofs

            MCActAfterAck ----- ActAfterAck ---implements---> Session

 NextPart ------- NextPartProofs           NextPart ---implements---> PartSet
 RateLimiter ---- RateLimiterProofs
 Encoding ------- EncodingProofs
 Receiver ------- ReceiverProofs           MCReceiver ------- Receiver
 ServerThreads -- ServerThreadsProofs      MCServerThreads -- ServerThreads
```

| Module | Code | Notes |
|---|---|---|
| `SendMessageQueue` | `Queue.h:76-147` | Operators on the value of a queue; the mutex makes each operation atomic. The message to resend is the head: entries are filed with the current time. An entry says what was sent first; what it points to may be something else later (`Resent`). |
| `Timer` | `Timer.cpp` | A timer is a record. The result of `stop` depends on the calling thread: the timer's own thread is not joined and its object stays, so that a later `start` makes no new one. |
| `Network` | external | Datagrams under way; loses, duplicates, reorders. `CLIENT_MESSAGE_DROP_CHANCE` in `Client2::send` looks the same to the peer. |
| `FilesystemClient` | `Filesystem.cpp:1-351`, `WorkingSet.h`, `Filestructures.h` | A content is a sequence of values, one per part of `partLength` bytes; a hash is the content itself; the index remembers hash, size, CRCs, missing parts and what an open stream still reads. Folders lie in folders (`Above`), and an indexing comes across them in the order `FolderOrder`. The user is external: `UserChange`. |
| `FilesystemServer` | `Filesystem.cpp:457-669` | Disk, folders, `last_part`. |
| `FileClient2` | `FileClient2.cpp`, `AbstractClient.cpp` | One action per handler, per tick and per console command. `setState` is recursive; `EnterSendingFS` and the operators below it carry timer, queue and number of what the handler has done so far. `Resent` is what a message may have in it when it is sent again. |
| `FileServerClient` | `FileServerClient.cpp`, `FileServer2.cpp`, `FileServerUser.cpp` | Sessions are a function of the client ID, as their ports are. |
| `Session` | all of these | Composition: threads, network and user interleave; properties. |
| `MCSession` | – | Start directories for TLC. |
| `ActAfterAck` | `FileServerClient.cpp:388-484` | `Session` with the acknowledgement and the act of a creation or part as two steps, between which the client, the network and the timers go on; shown to implement `Session`. |
| `RateLimiter` | `net/Client2.cpp:90-169` | Threads between `sem_wait`, the count under the mutex and `sendto`; the tick that drains. |
| `NextPart`, `PartSet` | `Filestructures.h:13-116` | The interval list and the set it promises to be. |
| `Restart` | `Filesystem.cpp:353-456`, `:457`, `CSync.cpp` | `Session` with stops, crashes and starts of the client, and restarts of the server. The index on the disk, and how names and entries of it are misread. |
| `Receiver` | `net/Server2.cpp`, `Queue.h:25-75`, `AbstractClient.cpp`, `AbstractMessage.cpp:38-54`, the start and stop of its three owners | Reader, buffer, blocking queue, consumer and owner as threads. |
| `ServerThreads` | `FileServer2.cpp`, `FileServerUser.cpp`, `ClientToDo.cpp`, `UserStore.cpp`, the thread side of `FileServerClient.cpp`, `Timer.cpp` and `AbstractClient.cpp` | Users, sessions, their mutexes, their deletion and the joins. What the handlers do is in `Session`. |
| `Encoding` | `net/*Message.cpp`, `net/AbstractMessage.cpp` | A buffer is a function of bits. One table of fields per class, in the order they are written. |
| `MCActAfterAck`, `MCReceiver`, `MCRestart`, `MCServerThreads` | – | Messages, directories and names for TLC. |
| `SessionProofs`, `FirstSyncProofs`, `RestartProofs`, `NextPartProofs`, `RateLimiterProofs`, `EncodingProofs`, `ReceiverProofs`, `ServerThreadsProofs` | – | Proofs. |

**State.** `cState`, `cTimer`, `cQueue`, `cSeq`, `cPort`, `cId`, `cPw`, `cMissed` are `state`, `tTimer`,
`sendMessageQueue`, `seqNumber`, `listenPort`, `clientId`, `clientPassword`, `msgTimeoutCount`; `lib` and `ws`
are the members of `FilesystemClient` and the current working set; a record of `sessions` holds `state`, the
client's port, `seqNumber`, `curFID`, whether there is something to do, and the queue. `authed`, `handled`,
`ended`, `garbled` and `sent` are history variables: properties read them, and `garbled` bounds how often TLC sends something else
again. `disk` and `dirs` are the user's.
In `Receiver`, `mem` is the array `buffer` of `contRead`, `queue`, `run`, `us` are `cpQueue`, `shouldConsumerRun`,
the state of `Server2`; a datagram is named by its place in `arrived`, and head, tail and checksum field of `mem` by the
arrivals they came from. In `ServerThreads`, `users` and `objects[o].clients` are the two maps, `toDo` the keys of
`clientsToDo`, `listed` the lists in it that hold an entry; `misuse` collects what was used after its deletion.
In `Encoding`, `buf` is the buffer, `given` the arguments of the constructor, `done` the fields written so far.

**Atomicity.** A handler, a tick, a command and a run of the indexing thread are one step each. That two of
them run on different threads of one side shows as interleaving of whole steps. `Receiver`, `RateLimiter` and
`ServerThreads` take the places apart at which threads wait or another one can come between: a step of theirs
goes from one lock, join, wait or use of a shared pointer or buffer to the next. The indexing thread reads the directory in one step at its
end, so that a change of the user is before or after it.

A session acknowledges a creation or a part before it carries it out (`FileServerClient.cpp:404-440, 459-472`); in `Session` the two are
one step. `ActAfterAck` has them apart and shows in which sense that is right: with what has been acknowledged counted as
done – the mapping of `Atomic` –, every behaviour is one of `Session`. That is not so for every property of `Session` read as one of the disk: the
directory of the server lags behind by one message. `MirrorAtEnd` therefore says what the server holds *once it has carried
out what it has acknowledged*, `AcksAreHonest` and `StopAndWait` say that the server has *taken up* a message. A server
that is killed between the two loses a message it has promised; `Restart` leaves that out, its server is stopped between messages.

**What is sent again.** The queue of the client holds objects with a pointer to their payload: the array that `sendFilePartMessage`
has read a part into (`FileClient2.cpp:260, 288`), the characters of a string passed by value (`AbstractClient.cpp:79-87, 90-98,
119-127`). All of these are gone when a tick calls `send` (`FileClient2.cpp:630`), and `createBuffer` puts a valid checksum on
what lies there then. Number, kind, number of the part and length are members of the object and stay. `Resent` is the choice: the old
bytes, or for a part `Garbage`, for a creation, deletion or status request another name – of a file, of a folder, of nothing
(`NoFile`), or one that the file system refuses so that the server throws (`BadPath`) –, for an AuthRequest another password, but
not by chance the right one. `garbled` counts the messages that went out with something else in them. What depends only on
numbers – `Supervised`, `Pings`, `SessionKept`, `StopAndWait`, `AcksAreHonest`, `UploadCompletes`, `AuthAgreement` – is checked and proved for
any of these choices, in the sense that the server has taken up *a* message of this type and number; what depends on the bytes –
that it was the message meant, `MirrorAtEnd`, `ServerSurvives`, `KnownIsStored`, `MirrorAfterRestart` – as long as `garbled` is 0. That the code gives no
more is shown by `resent_part.cfg`: one lost part is enough for a transfer to be announced as ended over a directory with other content.

**Undefined behaviour** is a choice: after the server has deleted a registered user it may crash or go on
without the sessions (`serverUp' \in BOOLEAN`). The stack of a reader that has ended holds its last bytes or
others; `openFilesystem` makes names from bytes without a final 0, so that a file of the index is taken up or not,
and one may be too many. The end node of a `std::list`, which `addPart` reads as an
interval, is what libstdc++ keeps there: the number of elements, and 0.

**Constants that name bounds**: `MaxParts` (parts of a file), `MaxChanges` (changes by the user),
`MaxLosses`, `MaxDuplicates` (faults of the network), `MaxGarbled` (messages sent again with something else in them),
`MaxConnects`, `MaxHellos`, `MaxSeq`, `MaxIds`.
In `Receiver` `MaxDatagrams` (arrivals) and `MaxStarts` (connects), in `Restart` `MaxStarts` (starts of the client), in
`ServerThreads` `Uploader` (the clients that upload), in
`Encoding` `MaxPayload` (bytes of a name or a part), `HelloBytes` (the 1000 bytes of a hello, 28 for TLC, so that a name of two
bytes does not fit), and `Pattern`
(the bits that are set in the values written: none, and a few at the ends and in the middle of every width).
`MaxMessageTimeouts`, `MaxPingTimeouts` and `MaxPPS` are constants of the program. A client that is
declined draws any ID up to `MaxIds`, also the one it had. A number at `MaxSeq` stops the client:
therefore these runs do not check deadlock, as the program also stops for good in `Stops`.

**`PromptReplies`.** With `TRUE` a timer ticks on an unanswered message only if neither the message nor its
answer is under way: messages and ticks are a second apart, a datagram and its handler take milliseconds.
With `FALSE` an answer may be later than any tick. `Reorder` lets datagrams to the same port overtake each other.

**What `Restart` leaves to a constant.** `StopsEarly`: the user stops a client that has still something to send;
`QuickIndexer`: an indexing takes less than a working set may be old; `UserRemoves`: files are removed too; `Misreads`:
the starts in which the bytes behind a name in the index may go on, so that a file is not taken up under its name. The run
`restarts` has the harmless values of the first three, and misreads in the last start only; section 5 has a configuration for
each of the others. `Known` and `UserOf` of
`ServerThreads` say which names the `UserStore` has and which one each client gives.

**Fairness** (`Session!Fairness`): weak fairness of every thread that loops – the hello thread, the timers,
the indexing thread, the socket readers with their consumers – and of the first `connect`, which `main` calls.
Nothing is assumed of the user, of faults, of other clients and of the cleanup. `RateLimiter!Fairness`: the
timer ticks; some waiting thread is woken if there is a slot; a thread that wants the mutex gets it although
the timer takes it for a moment in every second (strong fairness of `Count`); threads that are admitted send.
`Receiver!FairSpec`: weak fairness of reader, consumer and owner; the reader's `recvfrom` has a timeout of a second,
so that it goes on without datagrams; none of `Arrive`, `Stop` and `Reconnect`. `Restart` has that of `Session`: nobody
has to stop, crash or start. `ServerThreads!Fairness`: weak fairness of the steps that a thread has begun – not of
hellos, datagrams, ticks, give-ups and the stop – and strong fairness of the steps of main and console, because the
cleanup holds the mutex of the users for a moment in every second only.

## 3. What the runs check

Sizes are of distinct states.

| Run | Instance | Shows |
|---|---|---|
| `initial_sync` (99 500) | a file of one or two parts, a folder with or without a file of one or two parts; one loss among file messages, pings and acknowledgements, and what is then sent again with anything in it; the limits in the program's order | `Supervised`, `Pings`, `SessionKept`, `StopAndWait`, `AcksAreHonest`, `MirrorAtEnd`, and with fairness `UploadCompletes` |
| `changed_files` (12 900) | two files of one part, one change at any time, one loss | `MirrorAtEnd`: the transfer is announced as ended only when the directories agree, although files change, come and go while it runs |
| `folders` (229 700) | a folder and files in it and beside it, one change at any time, one loss, a user who stops; acknowledgement and act as two steps | `ServerSurvives`; `ActsBeforeTheNext`: `ActAfterAck` implements `Session` |
| `handshakes` (766 000) | two connections with two hellos each, a declined ID, a wrong password, delay, duplication, reordering, a user who stops, another client's changes, cleanup; an empty directory | `AuthAgreement` |
| `restarts` (90 100) | a file, three starts of the client, stops, crashes, a restart of the server between them, one save of the user at any time; the last start may misread names in the index | `KnownIsStored`, `MirrorAfterRestart`, and with fairness `EveryStartCompletes` |
| `receive_path` (388 400) | each of the three owners; three datagrams (two for a client, which may connect twice) out of a hello, a part and a status; stops at any time, by another thread or by the handler, and connects over a consumer nobody has joined | `AcceptedInOrder`, `NoDanglingBuffer`, `QuietAfterStop`, `StopEnds`, `EntriesArePopped` |
| `server_threads` (238 500) | two clients of one user, one of which uploads, their four threads, consumer, cleanup and console of the server | `UsersOutliveTheirUse`, `SessionsOutliveTheirThreads`, `NothingLeftBehind`, `StopReturns`, `HellosAreHandled` |
| `encoding` (6 600) | every class of message, payload of up to two bytes, a hello with room for one, two patterns per field | `FieldsIntact`, `Accepted`, `InBounds` |
| `rate_limiter` (1 200) | three threads, two slots; deadlock is checked | `SlotsConserved`, `BoundedRate`, `Progress` |
| `next_part` (288) | seven parts; deadlock is checked | `Ordered`, and `NextPart` implements `PartSet` |

*Bounds.* Two parts make a first, a last and a middle message of a file different; a folder with a file in it
makes the order of messages matter; one loss makes a message go twice, or once and too late for its answer, and
with other bytes in it (`changed_files` and `folders`, which have one loss too, send the same bytes again); one change can fall between any two steps of the transfer; two connections are enough for an answer
to reach the wrong one. Seven parts give up to four intervals with gaps of every kind, and lists whose
number of elements lies above and below the numbers in them. `MaxSeq` is above what the longest behaviour
of the passing runs needs to end its transfer. Two starts of the client are the least for an index to be read; the second of them also
finds what a crash in the first has left; the third finds an index that is older than what a crash in the second has left
on the server. Three datagrams are enough for one entry to be popped, another to wait
and a third to be written into the buffer that both point to; two messages of the same size whose checksum lies at
the same place can stand for each other. Two clients are the least for one to upload what the other is to get, and
for the cleanup to be in one session while the other is used. Two bytes of payload make the fields behind it move;
fields of 4, 8, 16, 32 and 64 bits begin at whole and half bytes.

The passing runs are chosen around the defects of section 5: file status messages are not lost
(`LossyUp`), a changed file has one part, one change at a time, folders lie side by side and not in each other, the uploading
runs open one connection with one hello, and `restarts` (where nothing is lost) and `server_threads` leave out what the paragraph on
constants and section 5 name. `StopReturns` and `HellosAreHandled` except what `Held` lists, three ways in which the code waits for
ever. `UsersOutliveTheirUse` is about users and the nodes of their maps, not about sessions or their timers: a session may be read
after its deletion (section 5). `StopEnds` takes for granted that a handler returns, which one in `addToDo` does not. `QuietAfterStop`
says of a FileClient2 that one of its handlers has disconnected only that the reader has ended and the consumer been told
to: another `disconnect()` returns at once (`FileClient2.cpp:62-66`) and nobody joins it. `InBounds` says that a hello
with a name of more than 973 bytes always passes its buffer (`ClientHelloMessage.cpp:20, 48`), and nothing else ever does.
Without these limits the properties fail, each for a reason that section 5 gives a configuration for. Every property has a mutant in
`PROJECT.json`, a plausible slip in the code that breaks it under the same configuration.

`ActsBeforeTheNext` is a refinement without fairness: it says nothing of a session that never carries out what it has
acknowledged. It is checked for one client ID (`OneClient`): with two sessions at one file what they promised is not done in the order of the
promises.

`MirrorAtEnd` compares with the user's directory at the very moment of TransferEnded; `changed_files` shows
that the code satisfies even this, because it indexes again before it says so and finds nothing.

## 4. What is proved

All theorems are for every value of the constants, under the assumptions named in the modules. Three of these say more
than that a constant is a number: `TreesAssumption` (a file lies in a folder that exists), `NoSessionAssumption` (of
`Session` and of `ServerThreads`: the value for "no session" is not a session) and `RestartAssumption` (the user has no file
with the made-up name `Junk` to begin with). TLC has checked the
inductive invariants below on the instances of the runs, too.

**Session**

* **`SessionProofs!SessionIsTyped`**: `Spec => []TypeOK`. `TypeOK` is inductive as it stands. What it says beyond
  membership is what the handlers rely on and the messages do not show: a datagram names an ID a session can
  have, a status request a file and a creation the kind of path that goes with its kind, an answer a part below
  `MaxParts`, the working set and its current file agree with the sets of names, and no number passes its bound.
  The module begins with what the other proofs about `Session` cite, too: what push, acknowledge and requeue do to the
  messages of a queue (`AckMessages`: exactly the first entry with the number goes and the others keep their order;
  `RequeueMessages`: the messages are the same as before and as many, the one sent again is the last, with its count
  increased), and the two directories (`IndexType`, `ReadFileType`,
  `KeptFoldersType`, `FsServerTypes`). The lemma that is not a matter of expanding definitions is `PlacesAreTaken`:
  counting the members up to each gives the members of a finite set of numbers the places 1 to its size, so that the
  lists of `Picked` folders have no gap.
* **`SessionProofs!LoginIsAgreed`**: `Spec => []AuthAgreement`. A client in a logged-in state was accepted by
  the server for the connection it has now, with the user's password, for every network of the model – losses,
  duplicates, any order – every number of connections, sessions and cleanups. `AuthAgreement` is not
  inductive: the result that logs the client in may be a copy, come from the queue of a session, or be meant
  for an earlier connection. The invariant `IInv` follows the password forward (`ClientIsHonest`: every
  AuthRequest in the queue or under way carries the client's password), through the server
  (`AcceptedByPassword`), and the result back (`ServerIsHonest`: every positive AuthResult in a session's
  queue or under way goes to an accepted port). That the port in a datagram is the one of the present
  connection follows from delivery to the port's socket. The proof has one lemma per operator of the client that
  sends (`SendAndWaitAdds` upwards to `EnterSendingFS`), one per handler and one per disjunct of `Next`.
* **`FirstSyncProofs`**: what `initial_sync` shows of two small directories, for every directory, number of files, folders
  and parts, number of losses, timeouts and passwords, in order or out of order, folders in folders too: `Supervised`, `Pings`, `SessionKept`,
  `AcksAreHonest` and `StopAndWait`, whatever is in a message that is sent again, and `MirrorAtEnd` and `ServerSurvives`, as long as
  that is what it was (`garbled = 0`). All have the hypothesis `FirstSync`, as none
  of them holds without it. Each part of the table stands for a defect of section 5 or a limit of the passing runs:

  | Part of `FirstSync` | What fails without it |
  |---|---|
  | `PromptReplies` | `StopAndWait` (an answer to a ping), `AcksAreHonest` (a late result) |
  | at most one `connect` in a run of the client | `Pings` (`reconnect`) |
  | no change by the user | `Supervised` (a removed file), `MirrorAtEnd` (`changed_parts`, `new_folder`) |
  | no duplicates | `MirrorAtEnd` (a repeated creation) |
  | no other client of the user | `SessionKept` (its upload) |
  | status requests, the answers to them, the client's acknowledgement and ServerHello are not lost | `Supervised` (`lost_status`), `SessionKept` (`lost_auth_ack`), `ServerSurvives` (`hello_twice`) |

  `FirstSync` also leaves out lost login messages (AuthRequest, AuthResult), which nothing of section 5 asks for: TLC finds no
  violation with them in the instance of `initial_sync`, but a session that has lost an AuthRequest repeats its ServerHello,
  which may then be under way in any later phase. Hellos, file and folder creations, parts, pings, the end of the transfer and every acknowledgement of the server may
  be lost, any number of times. The invariant `SyncInv` is `TypeOK`, `Calm` (one ID, one session, only files that
  do not exist are deleted, one hello at a time) and `Conversation`: a connection is in one of five phases – `Before`, `Greeting`,
  `Authenticating`, `Talking`, `Gone` –, each of which says what can be under way. In `Talking` that is one request
  or one answer (`OneUnderWay`) apart from acknowledgements, the client's queue holds just what its state is about
  (`OnlyPings`, `OneStatus`, `OneFileMessage`), and the session waits for an acknowledgement that is under way or for
  nothing (`ListensTo`). Six of the theorems follow from it.
  None of the phases looks into a message further than its type, number and session once `garbled` is more than 0.
  `MirrorAtEnd` needs to know how far each file is. `Mirroring` says of each, up to the first message that is sent again with
  something else in it, that it is `Fresh` (the server has heard
  nothing of it, all its parts are to be sent), `Sending` (the server has the parts before the one that is asked for, with
  or without this one) or `Done` (the server has it); of each folder that the server has it, or
  that its creation is under way or pending; and that the folders come first. That a repeated message does no harm is in
  `Sending`: a creation or part that comes again finds the file as if it came for the first time. The end is announced
  by an indexing that finds nothing to send, so that all files are `Done`.

**Restarts**

* **`RestartProofs`**: what `restarts` shows of three starts and one file, for any number of kills, stops, starts and restarts of the
  server, every directory, number of files, folders and parts, and the losses of `FirstSync`, as long as the user does not
  change the directory: `RestartKnowsTruth` (`[]KnownIsStored`), `RestartMirrors` (`MirrorAfterRestart`),
  `RestartIndexIsTrue` (an index that is on the disk is what the server has, at any time before a name is misread) and
  `RestartIsSupervised` (`Supervised`, `SessionKept` and `ServerSurvives` in every run of the client), all but the first two of
  the last as long as `garbled` is 0. The hypothesis
  `LateStops` is `FirstSync`, that no start comes after one that may misread names in the index, and that the user does not stop
  a client that has still something to send; a kill may come at any time. Without the second `KnownIsStored` fails by
  `killed_resending.cfg`, without the third by `stopped_early.cfg`.

  Within one run the phases of `FirstSyncProofs` hold again, as they ask nothing of the number of the port, and of the
  server's directory only that it holds nothing the user has not (`Harmless`); a run that finds an index begins with files that are
  known and need no sending (`Done`) and, if names were misread, others that it sends again (`Fresh`), and may delete the file
  that the index made up. What goes from run to run is `Kept`, until a start misreads (`ReadRight`): there is no
  index, or it is the user's directory and `AllStored` holds. That says more than that the server has all files: no message
  that would empty or write one is under way, in the queue or still to come, because the client knows its files with their
  present hashes. It is not enough to say this of a client that has nothing to send – a later one with the same index could be
  killed half-way through sending a file again. `Phases` says what is left when there is no client, and that a restarted server
  has heard of nothing. A stop writes the index only when nothing is to be sent, and then `Mirroring` gives that all files are
  `Done`.

**Missing parts, sender, messages, receiver**

* **`NextPartProofs`**: `NextPartStaysOrdered` (`[]Ordered`) and `NextPartImplementsPartSet` (`Spec => ImplementsPartSet`), for any
  number of parts. The invariant `Apart` says of any two intervals, not only of neighbours, that the second begins
  as far behind the end of the first as there are places between them. It has to count: `addPart` reads the end node of the
  list as an interval from the number of elements to 0, and what it then does is right only because so many intervals in a row
  reach at least that high.
* **`RateLimiterProofs`**: `RateLimiterTyped`, `SlotsAreConserved` and `RateIsBounded` for any number of threads and any
  `MaxPPS`. The invariant is that of the three with `RateInv`: what was sent since the last tick is counted or was in
  flight at that time.
* **`EncodingProofs`**: `FieldsStayIntact`, `SentIsAccepted` and `AccessesInBounds`, for every class, every length of payload,
  every set of values and every size of the buffer of a hello that holds one without a name, by the invariant of `Invariance`: what has been written reads back, the bits to be written
  next are blank – the setters of half bytes rely on that –, and a sent buffer carries the checksum of the rest. The lemmas go
  from bits to bytes (`ByteIsRead`), loops of bytes (`Loop`, `BytesAreRead`), numbers (`UnsignedIsRead`) and fields
  (`WriteIsRead`, `WriteKeepsOthers`); `Layouts` is where each field of each class lies. CRC32 is any four
  bytes, the same for the same buffer.
* **`ReceiverProofs!AcceptsInOrder`**: `Spec => AcceptedInOrder`, for every owner, set of messages, and number of arrivals and
  starts. Why nothing is accepted twice is not to be seen from one step: the zeros that a check has left in the
  buffer must stay until a datagram comes over them, and whatever the buffer's checksum field then holds is of a
  later arrival. The invariant says that the field is 0 or later than the last accepted, and what each state of
  the consumer knows of the value it has read.
* **`ReceiverProofs!QuietWhenStopped`**: `Spec => []QuietAfterStop`, for every owner, with what is left of it when a handler of a
  FileClient2 disconnects itself, and when `connect` ends the program. `StopInv` relates the steps still to be taken to the threads: what is left of a stop is an end of the owner's plan
  (`Planned`, `SelfPlanned`); once the step that joins a thread is behind, the thread is gone (`ConsumerGone`,
  `ReaderAwaited`), and no step in between makes a new one (`ReaderStopped`).
* **`ReceiverProofs!ReadsItsOwnReader`**: `Spec => []NoDanglingBuffer`, for any messages and number of starts. `OneReader` and
  `EntriesAreNew` say that all entries of a session's queue are of its one reader; that it is still there when they are
  followed is the order of the stop, from `StopInv`.

**Threads of the server**

* **`ServerThreadsProofs!UsersOutlive`**: `Spec => []UsersOutliveTheirUse` for any clients, users and names in the `UserStore`.
  Users are deleted only by stop() after main and cleanup have ended – so a step of either has a console that has not
  come that far (`MainIsSafe`, `CleanerIsSafe`) – and a user's own sessions go first: every session is in the map of its user
  or about to be put there (`SessionsAreSafe`), and everything in such a map is a session of this user
  (`ClientsAreSessions`); that its last step, `Frees`, takes it out of the right map needs to know who deletes it
  (`CleanerDeletes`). `IInv` is the conjunction of these. It needs that no client ID says hello twice: `SpecRepeated` breaks it.
* **`ServerThreadsProofs!ThreadsEndFirst`**: `Spec => []SessionsOutliveTheirThreads`. A session is disconnected by its consumer, its
  timer, the cleanup and stop(), in any order and more than one at a time. `SessionsEndWell` looks at the steps a
  deletion has still to take: the consumer has ended or a join of it comes before the object goes (`Awaits`), the timer
  likewise (`TimerIsJoined`), a session in a final state that no deletion waits for was stopped by one of its threads
  (`StoppedByDeletion`), and the objects go last (`IsFreed`). `ClientsExist` adds that what is in a map of a user is
  there to be deleted.
* **`ServerThreadsProofs!StopLeavesNothing`**: `Spec => []NothingLeftBehind`, if every name that a client gives is in the
  `UserStore`; `unknown_user` of section 5 shows why. It takes `UsersAreHeld`: an object that lives is in the map
  of users, and when the console has stopped there is none.

*Only model-checked*: liveness (`UploadCompletes`, `Progress`, `EveryStartCompletes`, `StopEnds`, `EntriesArePopped`, `StopReturns`,
`HellosAreHandled`), which needs fairness and `ENABLED`; `MirrorAtEnd`, `ServerSurvives`, `KnownIsStored` and `MirrorAfterRestart`
when the user changes the directory (runs `changed_files`, `folders` and `restarts`), which is outside `FirstSync`.

## 5. Where code and documents disagree

Runs that TLC ends with a counterexample, each against something the documents or the code say:

| Run | What happens | What is said |
|---|---|---|
| `lost_status` | The timer is stopped while a file status request is under way: a lost one is never repeated (`FileClient2.cpp:126`), and `Supervised` fails. | `// Resend message:` in a tick that is never reached (`FileClient2.cpp:629`) |
| `hello_twice` | A second hello for an ID in use deletes the registered user (`FileServer2.cpp:284`): `ServerSurvives`. | `protocol.md:100` |

The same models show more, with the configurations below; they are kept here to be run by hand and to explain
the limits of the passing runs. With `MCSession`:

| Configuration | What happens |
|---|---|
| `resent_part.cfg` | A lost part is sent again from an array that is gone, or a creation with the name in a string that is: the transfer is announced as ended while the server has something else (`FileClient2.cpp:630`): `EndMeansMirrored`, against `// Resend message:` (`FileClient2.cpp:629`). |
| `nested_folders.cfg` | A folder with a folder in it is removed: the outer one is deleted first, `fs::remove` throws on the server (`Filesystem.cpp:144-170`, `FileClient2.cpp:202-208`): `ServerSurvives`. |
| `changed_parts.cfg` | A changed file of several parts is deleted on the server and only in part sent again, because the old size is read from a closed stream and `last_part` survives the deletion (`Filesystem.cpp:194`): `MirrorAtEnd`, against `delta_sync.md:5`. |
| `new_folder.cfg` | A folder made later counts as known, because a comparison is the wrong way round (`Filesystem.cpp:178`): `MirrorAtEnd`. |
| `removed_folder.cfg` | A folder is deleted on the server while a file is in it: `fs::remove` throws and nothing catches (`FileClient2.cpp:207`): `ServerSurvives`. |
| `lost_auth_ack.cfg` | The acknowledgement of an AuthResult is not repeated: the server gives up a session in use (`FileClient2.cpp:411`): `SessionKept`. |
| `reconnect.cfg` | A timer stopped from its own tick never ticks again (`Timer.cpp:98`): `Pings`. |
| `unjoined_indexer.cfg` | A reconnect assigns to a `std::thread` that is not joined (`FileClient2.cpp:343`): `ClientSurvives`. |

And with a few constants changed in `lost_status.cfg`:

| Constants and property | What happens |
|---|---|
| `Version` of two members, `MaxChanges = 1`, `LossyUp = {}`, `LossyDown = {"Ack"}`: `StopAndWait` | The late answer to a ping counts as the answer to a file message (`FileClient2.cpp:687`), against `FileClientStateChart.svg`. |
| `MaxLosses = 0`, `MaxDuplicates = 1`, `PromptReplies = FALSE`: `AcksAreHonest` | A second AuthResult acknowledges the first file message, as both numbers are 0 (`FileClient2.cpp:410`), against `protocol.md:277`. |
| these and `Reorder = TRUE`: `MirrorAtEnd` | A repeated FileCreation empties the file (`FileServerClient.cpp:408`), although `protocol.md:27` says of the numbers "Like TCP.". |
| `MaxLosses = 0`, `MaxChanges = 1`: `Supervised` | A file that goes between indexing and transfer leaves the client waiting for an answer to nothing (`FileClient2.cpp:264`). |
| `MaxLosses = 0`, `OtherClients = TRUE`: `SessionKept` | The client drops the server's FileCreation, and its session is given up when another client uploads (`FileClient2.cpp:492`). |

With `MCRestart`:

| Configuration | What happens |
|---|---|
| `stopped_early.cfg` | A client that is stopped in the middle saves hashes of files that it has still to send, and knows them after the restart (`Filesystem.cpp:353`): `KnownIsStored`. |
| `slow_indexing.cfg` | A working set that is outdated when its indexing ends is dropped for a new one, but what it found stays in the index: it is never sent (`FileClient2.cpp:597`): `MirrorAfterRestart`. |
| `killed_resending.cfg` | A file that the index does not bring back under its name is sent again, which empties it on the server; the client is killed; the next start reads the old index right and never sends the file (`Filesystem.cpp:399`): `KnownIsStored`. |
| `removed_offline.cfg` | A file that is removed while no client runs, and that the index did not bring back under its name, stays on the server: `MirrorAfterRestart`. |

With `MCServerThreads`:

| Configuration | What happens |
|---|---|
| `stop_hangs.cfg` | stop() never returns (`StopAlwaysReturns`), for one of three reasons, those of `Held`: `addToDo` does not end for the second part of a file (`ClientToDo.cpp:26-29`); a tick starts its timer again, for a ping or for a message that it sends, after the stop() that joins it (`Timer.cpp:98`, `FileServerClient.cpp:165-175`); a consumer with a wrong password and a tick that gives up join each other, because `disconnect()` has overwritten `fsc_error` (`FileServerClient.cpp:86-98`). |
| `failed_session.cfg` | The cleanup deletes a session under its own thread, which has stopped itself and so is not joined (`FileServerUser.cpp:68-71`), or one that `onClientHelloMessage` has added and still reads for the console (`FileServer2.cpp:295`): `NoUseAtAll`. |
| `repeated_hello.cfg` | The second hello of `hello_twice`, seen from the threads (`FileServer2.cpp:284`): `UsersOutliveTheirUse`. |
| `unknown_user.cfg` | The session of a name that no `UserStore` has is in no map: nothing cleans it up or stops it (`FileServer2.cpp:263`): `NothingLeftBehind`. |

In the instance of `receive_path` TLC also refutes four properties of `Receiver` that a run does not list: a handler
reads the buffer after it was checked, and may read a later datagram (`HandledAsChecked`); a status may be checked and
handled as a part (`HandledByType`); a `connect()` of the tick assigns over a consumer that the console has yet to join, or that
has disconnected its own client, and the program ends (`NeverTerminated`, `AbstractClient.cpp:162`); and without the condition on the owner `NoDanglingBuffer` is false of `FileServer2` and
`FileClient2`, which end the reader before the queue is empty.

## 6. What is not modelled

* **Encryption and key exchange.** `security_considerations.md:38` says that messages are sent unencrypted, and the modules
  are of the protocol without the cipher. The code at this commit differs: after ServerHello the client gives the cipher to
  the sender of its session (`FileClient2.cpp:568-570`), which encrypts in place (`net/Client2.cpp:126`) and leaves the buffer
  in a string that is destroyed (`sec/DiffieHellman.cpp:77`), and no receiver decrypts: that of the server has no cipher
  (`FileServer2.cpp:14`), that of a session was made before there was one (`FileServerClient.cpp:17`). A connection that has a
  key does not get past its AuthRequest. What is sent from freed memory, and a `power` that goes through a double and
  overflows in its conversion (`sec/DiffieHellman.cpp:130`), have no values a model could state.
* **Handlers that nothing reaches**: the client answers a Ping that no server sends (`onPingMessage`), has handlers
  for FileCreation and FileTransfer that `onMessageReceived` never calls, and a state `resending` that nothing
  enters; the server acts on a cancelled transfer that no client announces.
* **Layout and checksums in `Session`**: a message is a record there, and a datagram with a wrong checksum a loss.
  `Encoding` and `Receiver` have the two.
* **A handler and a tick of the client inside `setState` at the same time**, and the **locks of the working set**: steps of
  `Session` are whole handlers. The threads of the server's sessions are apart in `ServerThreads`.
* **Contents of to-do lists** (`getNext`, `removeToDo`, `FilesystemServer::readFile`): a session has something to do or not, and the
  client drops what it is sent.
* **Sockets that cannot be opened**, and the condition variable inside `Timer`: a tick comes when it comes.
* **Console output, logging, command line**: no state that matters. `Filesystem2.h` is not built.
* Times are not modelled: a timer ticks at any time, within `PromptReplies`.
* **The timers of sessions after their deletion**, and what a hello writes past its buffer: that it does is in `Encoding`, what becomes of it not.
* **A name from the index that is empty**: its deletion would be that of the whole directory of the user, and throw on the server
  (`Filesystem.cpp:399`). The made-up name of `Restart` is that of a file which does not exist.
* **A server that is killed between an acknowledgement and the act** (section 2).
* In a proof: induction over data and liveness are beyond the prover.

## 7. Plan

Done, in this order:

1. *Session* – `SendMessageQueue`, `Timer`, `Network`, `FilesystemClient`, `FilesystemServer`, `FileClient2`,
   `FileServerClient`, `Session`, `ActAfterAck` against `Session`; `RateLimiter`; `NextPart` against `PartSet`. Theorems `SessionIsTyped`,
   `LoginIsAgreed`, the seven of `FirstSyncProofs`, `RateLimiterTyped`, `SlotsAreConserved`, `RateIsBounded`,
   `NextPartStaysOrdered`, `NextPartImplementsPartSet`.
2. *Persistence* – `Restart`. Theorems `RestartKnowsTruth`, `RestartMirrors`, `RestartIndexIsTrue`, `RestartIsSupervised`.
3. *Server, users and threads* – `ServerThreads`. Theorems `UsersOutlive`, `ThreadsEndFirst`, `StopLeavesNothing`.
4. *Receiver* – `Receiver`. Theorems `AcceptsInOrder`, `QuietWhenStopped`, `ReadsItsOwnReader`.
5. *Messages* – `Encoding`. Theorems `FieldsStayIntact`, `SentIsAccepted`, `AccessesInBounds`.

Left:

6. *Client threads* – a handler and a tick of the client that overlap in `setState`, with the joins of `Timer` and `AbstractClient`.
7. *Working set* – its locks, and the map it points into.
8. *ClientToDo* – the contents of the lists. Abstract specification: a set of pending changes per client.
9. *Stop-and-wait* – an abstract protocol that `Session` implements as long as no answer to a ping is late.

Theorems left: that `ActAfterAck` implements `Session`; the theorems of `FirstSyncProofs` and `RestartProofs` with lost login messages, and `MirrorAtEnd`, `ServerSurvives`,
`KnownIsStored` and `MirrorAfterRestart` with one change by the user, where the working set may name files that are gone and
the phases have to allow for deletions of files that exist.
